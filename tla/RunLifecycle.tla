---------------------------- MODULE RunLifecycle ----------------------------
(***************************************************************************)
(* The life of one run and the erasure of what it stored for a while: the  *)
(* packet bodies in PostgreSQL, the checkpoints in Redis and their rows.    *)
(*                                                                         *)
(* lib/controlPlaneRepository.js   the runs row and its cleanup attempts:   *)
(*                                 one statement or transaction is one      *)
(*                                 step.                                    *)
(* lib/runLifecycleService.js      the requests that end a run, and the     *)
(*                                 CleanupWorker: both claim a cleanup,     *)
(*                                 tombstone the Redis keys and record the  *)
(*                                 evidence, with awaits in between.        *)
(* api/checkpoint.js               a checkpoint is stored in Redis before   *)
(*                                 its row is committed, and taken back in  *)
(*                                 two commands when the commit fails.      *)
(*                                                                         *)
(* The dispatch of the run's attempts is in AttemptDispatch, where the run  *)
(* only ends.  Clocks are not modelled: what depends on time may happen at  *)
(* any point.                                                               *)
(***************************************************************************)
EXTENDS Naturals, FiniteSets

CONSTANTS
  Packets,       \* the packets the browser may have approved
  Checkpoints,   \* the checkpoints the browser may save, one request each
  Cleaners,      \* requests and worker ticks that clean up at the same time
  MaxClaims,     \* bound: cleanup attempts of the run
  MaxFaults      \* bound: failing calls, crashes and stalls in a behaviour

ASSUME LifecycleAssumption ==
  /\ MaxClaims \in Nat
  /\ MaxFaults \in Nat

VARIABLES
  \* PostgreSQL
  state,       \* runs.state
  cleanup,     \* runs.cleanup_status, "null" before the run ends
  expiry,      \* "fresh", past effective_expires_at, past the deadline
  evidence,    \* cleanup_attempts.status, by the order of the claims
  claims,      \* how many claims there have been
  aged,        \* cleanup attempts made over a minute ago
  packet,      \* governed_packet_metadata.state
  bodies,      \* packets with a row in governed_packet_bodies
  row,         \* checkpoint_metadata.state
  \* Redis
  tombstoned,  \* the run's tombstone
  contents,    \* checkpoints with a key
  listed,      \* checkpoints in the run's `keys` set
  \* requests and the cleanup worker
  cpc,         \* the await a cleaner is at
  claim,       \* its cleanup attempt, 0 for none
  wpc,         \* the await the request that saves a checkpoint is at
  faults

runVars   == <<state, cleanup, expiry>>
claimVars == <<evidence, claims, aged>>
storeVars == <<packet, bodies, row>>
redisVars == <<tombstoned, contents, listed>>
vars == <<runVars, claimVars, storeVars, redisVars, cpc, claim, wpc, faults>>

-----------------------------------------------------------------------------
(* Types *)

Working   == {"active", "recovery_required"}
Open      == Working \cup {"ready_for_delivery"}
Ended     == {"completed", "failed", "deletion_requested", "deleted", "expired"}
Claims    == 1..MaxClaims
Closed    == {"completed", "failed", "deleted", "expired"}
CleanerPcs == {"idle", "claim", "tombstone", "record", "retry"}
WriterPcs  == {"check", "store", "commit", "unlist", "delete", "saved", "refused"}

TypeOK ==
  /\ state \in Open \cup Ended
  /\ cleanup \in {"null", "pending", "in_progress", "verified", "retryable_failure"}
  /\ expiry \in {"fresh", "idle", "final"}
  /\ evidence \in [Claims -> {"none", "in_progress", "verified", "retryable_failure"}]
  /\ claims \in 0..MaxClaims
  /\ aged \in SUBSET Claims
  /\ packet \in [Packets -> {"none", "approved", "claimed"} \cup Closed]
  /\ bodies \in SUBSET Packets
  /\ row \in [Checkpoints -> {"none", "available", "deleted", "expired"}]
  /\ tombstoned \in BOOLEAN
  /\ contents \in SUBSET Checkpoints
  /\ listed \in SUBSET Checkpoints
  /\ cpc \in [Cleaners -> CleanerPcs]
  /\ claim \in [Cleaners -> 0..MaxClaims]
  /\ wpc \in [Checkpoints -> WriterPcs]
  /\ faults \in 0..MaxFaults

-----------------------------------------------------------------------------
(* createRun *)

Init ==
  /\ state = "active"
  /\ cleanup = "null"
  /\ expiry = "fresh"
  /\ evidence = [i \in Claims |-> "none"]
  /\ claims = 0
  /\ aged = {}
  /\ packet = [p \in Packets |-> "none"]
  /\ bodies = {}
  /\ row = [k \in Checkpoints |-> "none"]
  /\ tombstoned = FALSE
  /\ contents = {}
  /\ listed = {}
  /\ cpc = [c \in Cleaners |-> "idle"]
  /\ claim = [c \in Cleaners |-> 0]
  /\ wpc = [k \in Checkpoints |-> "check"]
  /\ faults = 0

-----------------------------------------------------------------------------
(* Helpers *)

\* effective_expires_at = LEAST(now + 2 hours, absolute_deadline_at).
Refreshed == IF expiry = "final" THEN "final" ELSE "fresh"

\* COALESCE(cleanup_status, 'pending').
CleanupDue == IF cleanup = "null" THEN "pending" ELSE cleanup

Fault == faults < MaxFaults /\ faults' = faults + 1

Finish(c) ==
  /\ cpc' = [cpc EXCEPT ![c] = "idle"]
  /\ claim' = [claim EXCEPT ![c] = 0]

GoTo(c, step) == cpc' = [cpc EXCEPT ![c] = step] /\ UNCHANGED claim

\* finishCleanup: unless the cleanup has been verified, the request goes on
\* to claimCleanup.
FinishCleanup(c) ==
  IF cleanup = "verified" THEN UNCHANGED <<cpc, claim>> ELSE GoTo(c, "claim")

-----------------------------------------------------------------------------
(* Requests to api/run.js that leave the run open *)

Suspend ==
  /\ state \in Working
  /\ expiry # "final"
  /\ state' = "recovery_required"
  /\ expiry' = "fresh"
  /\ UNCHANGED <<cleanup, claimVars, storeVars, redisVars, cpc, claim, wpc, faults>>

Resume ==
  /\ state = "recovery_required"
  /\ expiry # "final"
  /\ state' = "active"
  /\ expiry' = "fresh"
  /\ UNCHANGED <<cleanup, claimVars, storeVars, redisVars, cpc, claim, wpc, faults>>

\* A ready that cleans up at once, the way complete does.
ReadyAndCleanUp(c) ==
  /\ cpc[c] = "idle"
  /\ state = "active"
  /\ state' = "ready_for_delivery"
  /\ expiry' = Refreshed
  /\ cleanup' = "pending"
  /\ GoTo(c, "claim")
  /\ UNCHANGED <<claimVars, storeVars, redisVars, wpc, faults>>

\* readyRunWithQuality.  It looks at the state alone; a repeated request with
\* the same snapshot changes nothing.
Ready(c) ==
  /\ cpc[c] = "idle"
  /\ state = "active"
  /\ state' = "ready_for_delivery"
  /\ expiry' = Refreshed
  /\ UNCHANGED <<cleanup, claimVars, storeVars, redisVars, cpc, claim, wpc, faults>>

-----------------------------------------------------------------------------
(* Requests that end the run: one statement, then the cleanup. *)

\* acknowledgeDelivery.
Acknowledge(c) ==
  /\ cpc[c] = "idle"
  /\ state \in {"ready_for_delivery", "completed"}
  /\ state' = "completed"
  /\ cleanup' = CleanupDue
  /\ FinishCleanup(c)
  /\ UNCHANGED <<expiry, claimVars, storeVars, redisVars, wpc, faults>>

\* completeRunWithQuality.
Complete(c) ==
  /\ cpc[c] = "idle"
  /\ state \in {"active", "completed"}
  /\ state' = "completed"
  /\ cleanup' = CleanupDue
  /\ FinishCleanup(c)
  /\ UNCHANGED <<expiry, claimVars, storeVars, redisVars, wpc, faults>>

\* terminalRun(failed).
Fail(c) ==
  /\ cpc[c] = "idle"
  /\ state \in Working \cup {"failed"}
  /\ state' = "failed"
  /\ cleanup' = CleanupDue
  /\ FinishCleanup(c)
  /\ UNCHANGED <<expiry, claimVars, storeVars, redisVars, wpc, faults>>

\* The state a deletion leaves when it does not wait for the cleanup.
DeletionStateAtOnce == "deleted"

\* CASE WHEN cleanup_status = 'verified' OR state = 'deleted' THEN 'deleted'
\* ELSE 'deletion_requested'.
DeletionState ==
  IF cleanup = "verified" \/ state = "deleted" THEN "deleted" ELSE "deletion_requested"

\* terminalRun(deletion_requested): from every state.
Delete(c) ==
  /\ cpc[c] = "idle"
  /\ state' = DeletionState
  /\ cleanup' = CleanupDue
  /\ FinishCleanup(c)
  /\ UNCHANGED <<expiry, claimVars, storeVars, redisVars, wpc, faults>>

-----------------------------------------------------------------------------
(* CleanupWorker.tick and the rest of a request *)

\* Only runs past their inactivity expiry that are still working.
SweepableWorking == state \in Working /\ expiry # "fresh"

\* The runs expireRuns picks.
Sweepable == state \in Open /\ expiry # "fresh"

\* expireRuns.
ExpireRun ==
  /\ Sweepable
  /\ state' = "expired"
  /\ cleanup' = "pending"
  /\ UNCHANGED <<expiry, claimVars, storeVars, redisVars, cpc, claim, wpc, faults>>

InProgress == {i \in Claims : evidence[i] = "in_progress"}

\* A list without the runs whose cleaner disappeared.
CandidatePending == cleanup \in {"pending", "retryable_failure"}

\* The runs claimCleanupCandidates lists.
Candidate ==
  \/ cleanup \in {"pending", "retryable_failure"}
  \/ cleanup = "in_progress" /\ InProgress \subseteq aged

ListCandidate(c) ==
  /\ cpc[c] = "idle"
  /\ Candidate
  /\ GoTo(c, "claim")
  /\ UNCHANGED <<runVars, claimVars, storeVars, redisVars, wpc, faults>>

\* A claim that does not look whether the cleanup is still due.
ClaimableAnyway == cleanup # "null"

\* What claimCleanup may take: a cleanup nobody has, or one whose attempt is
\* over a minute old.
Claimable ==
  \/ cleanup \in {"pending", "retryable_failure"}
  \/ cleanup = "in_progress" /\ InProgress \cap aged # {}

\* claimCleanup.  The attempts it finds stale are closed whatever follows.
ClaimCleanup(c) ==
  LET swept == [i \in Claims |-> IF i \in InProgress \cap aged
                                   THEN "retryable_failure" ELSE evidence[i]] IN
  /\ cpc[c] = "claim"
  /\ IF Claimable
       THEN /\ claims < MaxClaims
            /\ claims' = claims + 1
            /\ evidence' = [swept EXCEPT ![claims + 1] = "in_progress"]
            /\ cleanup' = "in_progress"
            /\ claim' = [claim EXCEPT ![c] = claims + 1]
            /\ cpc' = [cpc EXCEPT ![c] = "tombstone"]
       ELSE /\ evidence' = swept
            /\ Finish(c)
            /\ UNCHANGED <<claims, cleanup>>
  /\ UNCHANGED <<state, expiry, aged, storeVars, redisVars, wpc, faults>>

\* tombstoneScript: the tombstone, and every key the run's `keys` set lists.
Erase ==
  /\ tombstoned' = TRUE
  /\ contents' = contents \ listed
  /\ listed' = {}

Tombstone(c) ==
  /\ cpc[c] = "tombstone"
  /\ Erase
  /\ GoTo(c, "record")
  /\ UNCHANGED <<runVars, claimVars, storeVars, wpc, faults>>

\* redis.tombstone throws, before or after Redis ran the script.
TombstoneThrows(c) ==
  /\ cpc[c] = "tombstone"
  /\ Fault
  /\ Erase \/ UNCHANGED redisVars
  /\ GoTo(c, "retry")
  /\ UNCHANGED <<runVars, claimVars, storeVars, wpc>>

\* A cleaner records what it found whoever has the cleanup now.
HoldsClaimOnce(c) == cleanup = "in_progress"

\* The cleanup attempt is still the cleaner's to close.
HoldsClaim(c) == claim[c] # 0 /\ evidence[claim[c]] = "in_progress" /\ cleanup = "in_progress"

\* The state of what a verified run leaves behind: its packets ...
PacketStateIn(runState) == IF runState \in Closed THEN runState ELSE "failed"

\* Checkpoint rows that follow the run the way packets do.
RowStateOfRun(runState) == PacketStateIn(runState)

\* ... and its checkpoint rows.
RowStateIn(runState) == IF runState = "expired" THEN "expired" ELSE "deleted"

\* recordCleanupEvidence(verified): the evidence, the run, its packets and
\* its checkpoint rows in one transaction.
WriteVerified(c) ==
  IF HoldsClaim(c)
    THEN /\ evidence' = [evidence EXCEPT ![claim[c]] = "verified"]
         /\ cleanup' = "verified"
         /\ state' = IF state = "deletion_requested" THEN "deleted" ELSE state
         /\ bodies' = {}
         /\ packet' = [p \in Packets |->
              IF packet[p] = "none" THEN "none" ELSE PacketStateIn(state')]
         /\ row' = [k \in Checkpoints |->
              IF row[k] = "available" THEN RowStateIn(state') ELSE row[k]]
    ELSE UNCHANGED <<evidence, cleanup, state, storeVars>>

RecordVerified(c) ==
  /\ cpc[c] = "record"
  /\ WriteVerified(c)
  /\ Finish(c)
  /\ UNCHANGED <<expiry, claims, aged, redisVars, wpc, faults>>

\* The transaction fails, or its answer is lost: the catch block follows.
RecordThrows(c) ==
  /\ cpc[c] = "record"
  /\ Fault
  /\ WriteVerified(c) \/ UNCHANGED <<evidence, cleanup, state, storeVars>>
  /\ GoTo(c, "retry")
  /\ UNCHANGED <<expiry, claims, aged, redisVars, wpc>>

\* recordCleanupEvidence(retryable_failure).
RecordRetryable(c) ==
  /\ cpc[c] = "retry"
  /\ IF HoldsClaim(c)
       THEN /\ evidence' = [evidence EXCEPT ![claim[c]] = "retryable_failure"]
            /\ cleanup' = "retryable_failure"
       ELSE UNCHANGED <<evidence, cleanup>>
  /\ Finish(c)
  /\ UNCHANGED <<state, expiry, claims, aged, storeVars, redisVars, wpc, faults>>

\* The process dies, or claimCleanup or the catch block throws.
CleanerDies(c) ==
  /\ cpc[c] # "idle"
  /\ Fault
  /\ Finish(c)
  /\ UNCHANGED <<runVars, claimVars, storeVars, redisVars, wpc>>

Holder(i) == {c \in Cleaners : claim[c] = i}

\* A minute passes after the cleaner of attempt i has gone.
AttemptAges(i) ==
  /\ evidence[i] = "in_progress" /\ i \notin aged
  /\ Holder(i) = {}
  /\ aged' = aged \cup {i}
  /\ UNCHANGED <<runVars, evidence, claims, storeVars, redisVars, cpc, claim, wpc, faults>>

\* A minute passes under a cleaner that stalls.
CleanerStalls(i) ==
  /\ evidence[i] = "in_progress" /\ i \notin aged
  /\ Holder(i) # {}
  /\ Fault
  /\ aged' = aged \cup {i}
  /\ UNCHANGED <<runVars, evidence, claims, storeVars, redisVars, cpc, claim, wpc>>

-----------------------------------------------------------------------------
(* Packets *)

\* commitPacket, for a run that accepts activity.
CommitPacket(p) ==
  /\ packet[p] = "none"
  /\ state = "active" /\ expiry = "fresh"
  /\ packet' = [packet EXCEPT ![p] = "approved"]
  /\ bodies' = bodies \cup {p}
  /\ UNCHANGED <<runVars, claimVars, row, redisVars, cpc, claim, wpc, faults>>

\* claimPacketAndReserve.
ClaimPacket(p) ==
  /\ packet[p] = "approved"
  /\ p \in bodies
  /\ state = "active" /\ expiry = "fresh"
  /\ packet' = [packet EXCEPT ![p] = "claimed"]
  /\ UNCHANGED <<runVars, claimVars, bodies, row, redisVars, cpc, claim, wpc, faults>>

\* pruneExpiredPacketBodies.
PruneBody(p) ==
  /\ p \in bodies
  /\ bodies' = bodies \ {p}
  /\ UNCHANGED <<runVars, claimVars, packet, row, redisVars, cpc, claim, wpc, faults>>

-----------------------------------------------------------------------------
(* POST /api/checkpoint *)

WriterGoes(k, step) == wpc' = [wpc EXCEPT ![k] = step]

\* getRun, and what the handler makes of it.
CheckRun(k) ==
  /\ wpc[k] = "check"
  /\ WriterGoes(k, IF state \in Working /\ expiry = "fresh" THEN "store" ELSE "refused")
  /\ UNCHANGED <<runVars, claimVars, storeVars, redisVars, cpc, claim, faults>>

\* A write that ignores the tombstone.
ChildAlwaysAllowed == TRUE

\* childScript refuses a key of a tombstoned run.
ChildAllowed == ~tombstoned

\* redis.setCheckpoint.
StoreCheckpoint(k) ==
  /\ wpc[k] = "store"
  /\ IF ChildAllowed
       THEN /\ contents' = contents \cup {k}
            /\ listed' = listed \cup {k}
            /\ WriterGoes(k, "commit")
       ELSE UNCHANGED <<contents, listed>> /\ WriterGoes(k, "refused")
  /\ UNCHANGED <<runVars, claimVars, storeVars, tombstoned, cpc, claim, faults>>

\* A commit that relies on what getRun returned earlier.
CommitAllowedEarlier == expiry # "final"

\* The run the transaction of commitCheckpoint finds.
CommitAllowed == state \in Working /\ expiry = "fresh"

\* commitCheckpoint.
CommitCheckpoint(k) ==
  /\ wpc[k] = "commit"
  /\ IF CommitAllowed
       THEN row' = [row EXCEPT ![k] = "available"] /\ WriterGoes(k, "saved")
       ELSE UNCHANGED row /\ WriterGoes(k, "unlist")
  /\ UNCHANGED <<runVars, claimVars, packet, bodies, redisVars, cpc, claim, faults>>

\* removeCheckpoint is two commands: SREM from the `keys` set ...
UnlistCheckpoint(k) ==
  /\ wpc[k] = "unlist"
  /\ listed' = listed \ {k}
  /\ WriterGoes(k, "delete")
  /\ UNCHANGED <<runVars, claimVars, storeVars, tombstoned, contents, cpc, claim, faults>>

\* ... and DEL.
DeleteCheckpoint(k) ==
  /\ wpc[k] = "delete"
  /\ contents' = contents \ {k}
  /\ WriterGoes(k, "refused")
  /\ UNCHANGED <<runVars, claimVars, storeVars, tombstoned, listed, cpc, claim, faults>>

\* setCheckpoint throws after Redis ran the script: nothing takes it back.
StoreThrows(k) ==
  /\ wpc[k] = "store"
  /\ Fault
  /\ IF ChildAllowed THEN contents' = contents \cup {k} /\ listed' = listed \cup {k}
                     ELSE UNCHANGED <<contents, listed>>
  /\ WriterGoes(k, "refused")
  /\ UNCHANGED <<runVars, claimVars, storeVars, tombstoned, cpc, claim>>

\* commitCheckpoint throws, before or after the transaction committed.
CommitThrows(k) ==
  /\ wpc[k] = "commit"
  /\ Fault
  /\ \/ UNCHANGED row
     \/ CommitAllowed /\ row' = [row EXCEPT ![k] = "available"]
  /\ WriterGoes(k, "unlist")
  /\ UNCHANGED <<runVars, claimVars, packet, bodies, redisVars, cpc, claim>>

\* The process dies, or a command fails without effect: what removeCheckpoint
\* throws is swallowed.
WriterDies(k) ==
  /\ wpc[k] \notin {"saved", "refused"}
  /\ Fault
  /\ WriterGoes(k, "refused")
  /\ UNCHANGED <<runVars, claimVars, storeVars, redisVars, cpc, claim>>

-----------------------------------------------------------------------------
(* The clock *)

RunGoesIdle ==
  /\ expiry = "fresh"
  /\ expiry' = "idle"
  /\ UNCHANGED <<state, cleanup, claimVars, storeVars, redisVars, cpc, claim, wpc, faults>>

DeadlinePasses ==
  /\ expiry # "final"
  /\ expiry' = "final"
  /\ UNCHANGED <<state, cleanup, claimVars, storeVars, redisVars, cpc, claim, wpc, faults>>

\* A checkpoint key lives until the deadline of its run.
CheckpointExpires(k) ==
  /\ expiry = "final"
  /\ k \in contents
  /\ contents' = contents \ {k}
  /\ UNCHANGED <<runVars, claimVars, storeVars, tombstoned, listed, cpc, claim, wpc, faults>>

-----------------------------------------------------------------------------
Request(c) ==
  Ready(c) \/ Acknowledge(c) \/ Complete(c) \/ Fail(c) \/ Delete(c)

CleanerStep(c) ==
  ClaimCleanup(c) \/ Tombstone(c) \/ RecordVerified(c) \/ RecordRetryable(c)

CleanerFault(c) == TombstoneThrows(c) \/ RecordThrows(c) \/ CleanerDies(c)

WriterStep(k) ==
  \/ CheckRun(k) \/ StoreCheckpoint(k) \/ CommitCheckpoint(k)
  \/ UnlistCheckpoint(k) \/ DeleteCheckpoint(k)

WriterFault(k) == StoreThrows(k) \/ CommitThrows(k) \/ WriterDies(k)

Next ==
  \/ Suspend \/ Resume \/ ExpireRun \/ RunGoesIdle \/ DeadlinePasses
  \/ \E c \in Cleaners :
       Request(c) \/ ListCandidate(c) \/ CleanerStep(c) \/ CleanerFault(c)
  \/ \E i \in Claims : AttemptAges(i) \/ CleanerStalls(i)
  \/ \E p \in Packets : CommitPacket(p) \/ ClaimPacket(p) \/ PruneBody(p)
  \/ \E k \in Checkpoints :
       WriterStep(k) \/ WriterFault(k) \/ CheckpointExpires(k)

Spec == Init /\ [][Next]_vars

\* The cleanup worker ticks until the process is stopped, a request that has
\* ended the run finishes or dies, and a minute passes.
Fairness ==
  /\ WF_vars(ExpireRun)
  /\ WF_vars(\E c \in Cleaners : ListCandidate(c))
  /\ \A c \in Cleaners : WF_vars(CleanerStep(c))
  /\ \A i \in Claims : WF_vars(AttemptAges(i))

FairSpec == Spec /\ Fairness

-----------------------------------------------------------------------------
(* What the lifecycle promises *)

\* The evidence tells the run's story: a cleanup is in progress exactly when
\* one attempt is, verified exactly when one attempt verified it, and a
\* cleaner that lost its claim to another never closes the other's.
EvidenceMatches ==
  /\ cleanup = "in_progress" <=> Cardinality(InProgress) = 1
  /\ cleanup # "in_progress" => InProgress = {}
  /\ cleanup = "verified" <=> Cardinality({i \in Claims : evidence[i] = "verified"}) = 1
  /\ cleanup # "null" <=> state \in Ended

\* Once the cleanup is verified nothing of the run can be read or found again:
\* no packet body, no packet that could be dispatched, no available
\* checkpoint, and no Redis key the run lists, however late a request writes.
VerifiedErased ==
  cleanup = "verified" =>
    /\ tombstoned /\ listed = {} /\ bodies = {}
    /\ \A p \in Packets : packet[p] \in Closed \cup {"none"}
    /\ \A k \in Checkpoints : row[k] # "available"

\* "`deleted` is recorded only after verified cleanup" (README.md), and the
\* other way round: a verified deletion is not left as requested.
DeletedVerified ==
  /\ state = "deleted" => cleanup = "verified"
  /\ cleanup = "verified" => state # "deletion_requested"

\* A checkpoint whose save was confirmed can be read back for as long as the
\* run is open, the delivery of its report included
\* (scripts/test-run-lifecycle.mjs: "ready report must remain recoverable until
\* client acknowledgement").
SavedRecoverable ==
  state \in Open /\ expiry # "final" =>
    \A k \in Checkpoints : wpc[k] = "saved" => row[k] = "available" /\ k \in contents

\* A run that has ended stays ended, only moves towards deletion, and a
\* verified cleanup is never taken back.
EndIsFinal ==
  [][/\ state \in Ended => state' \in {state, "deletion_requested", "deleted"}
     /\ state = "deleted" => state' = "deleted"
     /\ cleanup = "verified" => cleanup' = "verified"]_vars

\* Every run that ends is erased, through failing calls, crashes and stalls
\* of its cleaners, and a requested deletion is carried out.
EndedErased ==
  /\ state \in Ended ~> cleanup = "verified"
  /\ state = "deletion_requested" ~> state = "deleted"

\* No run outlives its deadline, delivered or not.
DeadlineEnds == expiry = "final" ~> state \in Ended

\* The checkpoints whose save was confirmed and that can be read back.
Readable ==
  {k \in Checkpoints : wpc[k] = "saved" /\ row[k] = "available" /\ k \in contents}

Contract == INSTANCE RunContract WITH
  Items <- Checkpoints, erased <- (cleanup = "verified"),
  late <- (expiry = "final"), kept <- Readable

\* To a browser the run behaves as RunContract says: whatever the cleaners, the
\* requests and the worker do to each other, every step is one of the
\* contract's or invisible, and what can be read back shrinks only when the
\* run has ended or is past its deadline (api/run.js, api/checkpoint.js).
KeepsContract == Contract!Spec
=============================================================================
