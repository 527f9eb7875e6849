----------------------------- MODULE StageClient -----------------------------
(***************************************************************************)
(* One stage execution as the browser drives it: the chain of model        *)
(* profiles, the approval of a packet, the streamed answer of the gateway,  *)
(* and the polling that takes over when the stream fails.                  *)
(*                                                                         *)
(* src/services/modelRouter.ts   runStage, governedCall, postWithTimeout    *)
(*                               and pollInternalResult, cut at every await *)
(*                               that another party's step can fall into.   *)
(* lib/providerGateway.js        a request reserves its attempt, then polls *)
(*                               the ledger and writes frames.              *)
(* api/model-result.js           one read of the ledger and of Redis.       *)
(*                                                                         *)
(* What happens to a reserved attempt is the AttemptLedger that             *)
(* AttemptDispatch implements.  Profiles are numbered by their place in the *)
(* chain, and each is tried by one attempt of the same number.  Clocks are  *)
(* not modelled: a timeout may strike at any point, the grace period of an  *)
(* attempt the poll does not find before its request has been served, too.  *)
(***************************************************************************)
EXTENDS Naturals

CONSTANTS
  Chain,     \* the length of the chain
  MaxFaults  \* bound: lost or failing calls and broken streams

ASSUME ChainAssumption ==
  /\ Chain \in Nat \ {0}
  /\ MaxFaults \in Nat

VARIABLES
  \* the browser
  pos,       \* the profile runStage is at
  pc,        \* the await it is at
  missing,   \* firstMissingAt # null
  judged,    \* profiles whose text validateOutput refused
  used,      \* the profile whose text runStage returned, 0 for none
  absent,    \* history: profiles left because no attempt was found in time
  \* the gateway
  request,   \* the POST of each profile, on the server
  frame,     \* the terminal frame or status of its response, "open" before
  \* PostgreSQL and Redis
  packet,    \* the packet of each profile
  runOpen,   \* the run is active and unexpired
  accepted,  \* stage_executions.accepted_attempt_id, 0 for none
  results,   \* attempts whose result key is readable
  ledger,    \* model_attempts.state
  call,      \* the provider call of each attempt
  faults

browserVars == <<pos, pc, missing, judged, used, absent>>
gatewayVars == <<request, frame>>
storeVars   == <<packet, runOpen, accepted, results>>
stageVars == <<browserVars, gatewayVars, storeVars, ledger, call, faults>>

Profiles == 1..Chain

Ledger == INSTANCE AttemptLedger WITH Attempts <- Profiles

Unsettled == {"queued", "dispatch_intent", "send_authorized"}

StageTypeOK ==
  /\ pos \in Profiles
  /\ pc \in {"approve", "dispatch", "stream", "poll", "returned", "failed"}
  /\ missing \in BOOLEAN
  /\ judged \in SUBSET Profiles
  /\ used \in {0} \cup Profiles
  /\ absent \in SUBSET Profiles
  /\ request \in [Profiles -> {"none", "received", "serving", "closed"}]
  /\ frame \in [Profiles -> {"open", "done", "fallback", "error", "404", "failure", "broken"}]
  /\ packet \in [Profiles -> {"none", "approved", "claimed"}]
  /\ runOpen \in BOOLEAN
  /\ accepted \in {0} \cup Profiles
  /\ results \in SUBSET Profiles
  /\ ledger \in [Profiles -> Unsettled \cup
       {"none", "succeeded", "fallback_allowed", "outcome_unknown", "cancelled",
        "result_unavailable"}]
  /\ call \in [Profiles -> {"none", "cleared", "inflight", "text", "rejected", "uncertain"}]
  /\ faults \in 0..MaxFaults

StageInit ==
  /\ pos = 1
  /\ pc = "approve"
  /\ missing = FALSE
  /\ judged = {}
  /\ used = 0
  /\ absent = {}
  /\ request = [i \in Profiles |-> "none"]
  /\ frame = [i \in Profiles |-> "open"]
  /\ packet = [i \in Profiles |-> "none"]
  /\ runOpen = TRUE
  /\ accepted = 0
  /\ results = {}
  /\ Ledger!Init
  /\ faults = 0

-----------------------------------------------------------------------------
(* Helpers *)

Fault == faults < MaxFaults /\ faults' = faults + 1

\* A chain with no end.
NextProfileUnbounded ==
  missing' = FALSE /\ pos' = pos + 1 /\ pc' = "approve"

\* The catch block of runStage: the next profile, or every model exhausted.
NextProfile ==
  /\ missing' = FALSE
  /\ IF pos < Chain THEN pos' = pos + 1 /\ pc' = "approve"
                    ELSE pos' = pos /\ pc' = "failed"

Goes(step) == pc' = step /\ UNCHANGED <<pos, missing>>

\* A text that validateOutput refuses and runStage returns all the same.
TakeTextUnchecked ==
  /\ used' = pos
  /\ Goes("returned")
  /\ judged' \in {judged, judged \cup {pos}}

\* What runStage makes of a text: it returns it, or validateOutput refuses it
\* and the next profile is tried.
TakeText ==
  \/ /\ used' = pos
     /\ Goes("returned")
     /\ UNCHANGED judged
  \/ /\ judged' = judged \cup {pos}
     /\ NextProfile
     /\ UNCHANGED used

Close(i, what) ==
  /\ request' = [request EXCEPT ![i] = "closed"]
  /\ frame' = [frame EXCEPT ![i] = IF @ = "broken" THEN "broken" ELSE what]

-----------------------------------------------------------------------------
(* The browser *)

\* POST /api/governed-packet.  A refusal ends the stage; a fetch that throws
\* before anything was dispatched goes on to the next profile.
Approve ==
  /\ pc = "approve"
  /\ IF runOpen
       THEN packet' = [packet EXCEPT ![pos] = "approved"] /\ Goes("dispatch")
       ELSE Goes("failed") /\ UNCHANGED packet
  /\ UNCHANGED <<judged, used, absent, gatewayVars, runOpen, accepted, results,
                 ledger, call, faults>>

ApproveThrows ==
  /\ pc = "approve"
  /\ Fault
  /\ \/ UNCHANGED packet
     \/ runOpen /\ packet' = [packet EXCEPT ![pos] = "approved"]
  /\ NextProfile
  /\ UNCHANGED <<judged, used, absent, gatewayVars, runOpen, accepted, results,
                 ledger, call>>

\* POST /api/<provider>-generate with a new internal_call_id.
Dispatch ==
  /\ pc = "dispatch"
  /\ request' = [request EXCEPT ![pos] = "received"]
  /\ Goes("stream")
  /\ UNCHANGED <<judged, used, absent, frame, storeVars, ledger, call, faults>>

\* The stream ended with something runStage can act upon without the ledger.
ReadStream ==
  /\ pc = "stream"
  /\ \/ frame[pos] = "done" /\ TakeText
     \/ frame[pos] \in {"404", "fallback"} /\ NextProfile /\ UNCHANGED <<judged, used>>
     \/ /\ frame[pos] \in {"error", "failure", "broken"}
        /\ Goes("poll")
        /\ UNCHANGED <<judged, used>>
  /\ UNCHANGED <<absent, gatewayVars, storeVars, ledger, call, faults>>

\* REQUEST_TIMEOUT_MS, or a connection that breaks: the browser stops reading,
\* the server goes on.
StreamTimesOut ==
  /\ pc = "stream"
  /\ frame' = [frame EXCEPT ![pos] = "broken"]
  /\ UNCHANGED <<browserVars, request, storeVars, ledger, call, faults>>

\* The grace period since the first poll that found no attempt has passed: the
\* browser concludes NO_ATTEMPT_RESERVED, whatever has become of its request.
TakeForAbsent ==
  /\ missing
  /\ absent' = absent \cup {pos}
  /\ NextProfile

\* An unknown outcome taken for a safe failure.
ReleasedOrUnknown(i) == ledger[i] \in {"fallback_allowed", "outcome_unknown"}

\* The one settled state the browser may answer with another profile.
Released(i) == ledger[i] = "fallback_allowed"

\* POST /api/model-result.  A succeeded attempt whose result is gone, and every
\* settled state but fallback_allowed, end the stage.
Poll ==
  /\ pc = "poll"
  /\ \/ /\ ledger[pos] = "none" /\ ~missing
        /\ missing' = TRUE
        /\ UNCHANGED <<pos, pc, judged, used, absent>>
     \/ ledger[pos] = "none" /\ TakeForAbsent /\ UNCHANGED <<judged, used>>
     \/ ledger[pos] = "succeeded" /\ pos \in results /\ TakeText /\ UNCHANGED absent
     \/ Released(pos) /\ NextProfile /\ UNCHANGED <<judged, used, absent>>
     \/ /\ \/ ledger[pos] \in {"cancelled", "outcome_unknown", "result_unavailable"}
           \/ ledger[pos] = "succeeded" /\ pos \notin results
        /\ ~Released(pos)
        /\ Goes("failed")
        /\ UNCHANGED <<judged, used, absent>>
  /\ UNCHANGED <<gatewayVars, storeVars, ledger, call, faults>>

\* The recovery deadline passes: the stage ends without a fallback.
PollTimesOut ==
  /\ pc = "poll"
  /\ Goes("failed")
  /\ UNCHANGED <<judged, used, absent, gatewayVars, storeVars, ledger, call, faults>>

-----------------------------------------------------------------------------
(* The gateway: one request of a profile, whoever still listens to it *)

\* A stage execution that takes attempts after one has succeeded.
ExecutionAlwaysOpen == TRUE

\* stage_executions.state = 'active'.
ExecutionOpen == accepted = 0

\* getPacketBody and claimPacketAndReserve.  A closed run and a packet that
\* cannot be claimed answer 404, a stage execution that has succeeded 409.
Reserve(i) ==
  /\ request[i] = "received"
  /\ \/ /\ runOpen /\ ExecutionOpen /\ packet[i] = "approved"
        /\ Ledger!Reserve(i)
        /\ packet' = [packet EXCEPT ![i] = "claimed"]
        /\ request' = [request EXCEPT ![i] = "serving"]
        /\ UNCHANGED frame
     \/ /\ ~runOpen
        /\ Close(i, "404")
        /\ UNCHANGED <<packet, ledger, call>>
     \/ /\ runOpen /\ ~ExecutionOpen
        /\ Close(i, "failure")
        /\ UNCHANGED <<packet, ledger, call>>
  /\ UNCHANGED <<browserVars, runOpen, accepted, results, faults>>

\* The handler throws before the reservation or after its commit, or finds the
\* packet expired.
ReserveThrows(i) ==
  /\ request[i] = "received"
  /\ Fault
  /\ \/ /\ Close(i, "failure") \/ Close(i, "404")
        /\ UNCHANGED <<packet, ledger, call>>
     \/ /\ Close(i, "failure")
        /\ runOpen /\ ExecutionOpen /\ packet[i] = "approved"
        /\ Ledger!Reserve(i)
        /\ packet' = [packet EXCEPT ![i] = "claimed"]
  /\ UNCHANGED <<browserVars, runOpen, accepted, results>>

\* One poll of the ledger that ends the response.  The outcome code of a
\* fallback_allowed attempt is in the browser's list or is not.
WriteFrame(i) ==
  /\ request[i] = "serving"
  /\ \/ ledger[i] = "succeeded" /\ i \in results /\ Close(i, "done")
     \/ ledger[i] = "fallback_allowed" /\ (Close(i, "fallback") \/ Close(i, "error"))
     \/ /\ ledger[i] \in {"cancelled", "outcome_unknown", "result_unavailable"}
        /\ Close(i, "error")
  /\ UNCHANGED <<browserVars, storeVars, ledger, call, faults>>

\* A poll throws, or the process dies with the stream open.
ServingFails(i) ==
  /\ request[i] = "serving"
  /\ Fault
  /\ Close(i, "error") \/ Close(i, "broken")
  /\ UNCHANGED <<browserVars, storeVars, ledger, call>>

\* The request never arrives, or the process dies before it reserves.
RequestLost(i) ==
  /\ request[i] = "received"
  /\ Fault
  /\ Close(i, "broken")
  /\ UNCHANGED <<browserVars, storeVars, ledger, call>>

-----------------------------------------------------------------------------
(* The attempts and the run *)

\* A step of the ledger that is not a reservation.  Accepting an attempt makes
\* it the accepted one of the stage execution, whichever came before.
LedgerStep(i) ==
  /\ \/ /\ \/ Ledger!Prepare(i) \/ Ledger!Authorize(i) \/ Ledger!Send(i)
           \/ Ledger!Abandon(i) \/ Ledger!Answer(i) \/ Ledger!Release(i)
           \/ Ledger!Doubt(i) \/ Ledger!Lose(i)
        /\ UNCHANGED <<accepted, results>>
     \/ /\ Ledger!Accept(i)
        /\ accepted' = i
        /\ results' = results \cup {i}
  /\ UNCHANGED <<browserVars, gatewayVars, packet, runOpen, faults>>

\* The result key reaches its TTL or goes with its run.
ResultGone(i) ==
  /\ i \in results
  /\ Fault
  /\ results' = results \ {i}
  /\ UNCHANGED <<browserVars, gatewayVars, packet, runOpen, accepted, ledger, call>>

\* The run is deleted or expires.
RunEnds ==
  /\ runOpen
  /\ runOpen' = FALSE
  /\ UNCHANGED <<browserVars, gatewayVars, packet, accepted, results, ledger, call, faults>>

-----------------------------------------------------------------------------
Browser ==
  Approve \/ ApproveThrows \/ Dispatch \/ ReadStream \/ StreamTimesOut
  \/ Poll \/ PollTimesOut

Gateway(i) ==
  \/ Reserve(i) \/ ReserveThrows(i) \/ WriteFrame(i) \/ ServingFails(i)
  \/ RequestLost(i)

StageNext ==
  \/ Browser
  \/ \E i \in Profiles : Gateway(i) \/ LedgerStep(i) \/ ResultGone(i)
  \/ RunEnds

StageSpec == StageInit /\ [][StageNext]_stageVars

-----------------------------------------------------------------------------
(* What the stage execution promises *)

\* An attempt that may still call a provider, whose call may still count, or
\* that has succeeded.
Engaged(i) ==
  \/ ledger[i] \in Unsettled \cup {"outcome_unknown", "succeeded"}
  \/ call[i] \in {"cleared", "inflight", "uncertain"}

\* Of two attempts of a stage execution that are at work, in doubt or succeeded
\* at the same time, the earlier is one runStage left because no attempt was
\* found in time: broken streams, late settlements, lost requests and polls never
\* make it go on past an attempt that is not over ("post-send uncertainty never
\* becomes fallback", README.md of the repository).
OneAtATime == \A i, j \in Profiles : i < j /\ Engaged(i) /\ Engaged(j) => i \in absent

\* The text runStage returned is that of an attempt that has succeeded and was
\* not refused, and it is the one the stage execution has accepted, unless that
\* one was left because it was not found in time.
AnswerIsAccepted ==
  pc = "returned" =>
    /\ used \notin judged
    /\ ledger[used] = "succeeded" /\ call[used] = "text"
    /\ accepted = used \/ accepted \in absent

\* "A stage execution has at most one accepted attempt"
\* (docs/architecture/ADR-001-execution-and-evidence-lineage.md): the accepted
\* attempt is replaced only if it or its successor was not found in time.
AcceptedOnce ==
  [][accepted # 0 => accepted' = accepted \/ {accepted, accepted'} \cap absent # {}]_stageVars

\* The call of an attempt has gone to a provider.
Sent(i) == call[i] \notin {"none", "cleared"}

\* "a stably absent attempt is known to be pre-send and must allow the configured
\* fallback" (scripts/test-internal-result-recovery.mjs:29): an attempt that
\* pollInternalResult did not find in time is not sent to a provider beside that
\* of the fallback.
AbsentIsPreSend == \A i \in absent, j \in Profiles : i < j => ~(Sent(i) /\ Sent(j))
=============================================================================
