--------------------------- MODULE AttemptDispatch ---------------------------
(***************************************************************************)
(* The dispatch of governed model attempts of one run: reservation, the    *)
(* outbox and the stream, the execution worker, the reconciler, the        *)
(* PostgreSQL ledger and the Redis coordination keys they share.           *)
(*                                                                         *)
(* lib/controlPlaneRepository.js  one SQL statement or transaction is one  *)
(*                                step: PostgreSQL makes it atomic.        *)
(* lib/redisExecutionPlane.js     one Lua script or command is one step.   *)
(* lib/executionWorker.js         process() is cut at every await: what a  *)
(*                                worker read before an await is a local   *)
(*                                (job, held, snap, to) and may be stale.  *)
(*                                                                         *)
(* A worker here is one process() slot.  The owner column is not modelled: *)
(* claimAttempt takes a new token every time, so the token alone tells two *)
(* claims apart.  Clocks are not modelled either: whatever depends on time *)
(* (a lease, a TTL, an expiry) becomes an action that may happen at any    *)
(* point.                                                                  *)
(***************************************************************************)
EXTENDS Naturals, FiniteSets

CONSTANTS
  Attempts,      \* the attempts the browser may reserve, one packet each
  Executions,    \* stage executions
  ExecutionOf,   \* the stage execution each attempt is reserved under
  Workers,       \* process() slots
  None,          \* no attempt
  MaxClaims,     \* bound: claims of one attempt
  MaxFaults,     \* bound: exceptions, crashes and stalls in a behaviour
  PromptRead     \* TRUE: getAttempt answers within the lease that
                 \* claimAttempt took.  The code does not enforce it.

ASSUME DispatchAssumption ==
  /\ ExecutionOf \in [Attempts -> Executions]
  /\ None \notin Attempts
  /\ MaxClaims \in Nat
  /\ MaxFaults \in Nat
  /\ PromptRead \in BOOLEAN

VARIABLES
  \* PostgreSQL
  state,       \* model_attempts.state, "none" before the reservation
  token,       \* model_attempts.lease_token
  leased,      \* attempts with lease_until >= clock_timestamp()
  outbox,      \* dispatch_outbox.state
  body,        \* the packet's body: readable, past expires_at, or deleted
  accepted,    \* stage_executions.accepted_attempt_id
  runState,    \* runs.state, the terminal states taken together
  expiry,      \* runs: "fresh", past effective_expires_at, past the deadline
  \* Redis
  tombstoned,  \* the run's tombstone
  redisLease,  \* lease key, 0 when absent
  marker,      \* send-authorized key, 0 when absent
  results,     \* attempts with a result key
  stream,      \* attempts with an entry in the attempts stream
  \* execution workers
  inbox,       \* stream entries past the worker's cursor
  pc, job,     \* the await the worker is at, and its attempt
  held,        \* leased.lease_token
  snap,        \* a.state as getAttempt returned it
  to,          \* the state the worker is about to move the attempt to
  \* attempt reconciler
  rpc, rjob, rsnap,
  \* the model provider, and the budget of faults
  call,        \* what happened to the provider call of an attempt
  sends,       \* how many times an attempt was sent
  faults

pgVars     == <<state, token, leased, outbox, body, accepted>>
runVars    == <<runState, expiry>>
redisVars  == <<tombstoned, redisLease, marker, results, stream>>
workerVars == <<inbox, pc, job, held, snap, to>>
recVars    == <<rpc, rjob, rsnap>>
callVars   == <<call, sends>>
vars       == <<pgVars, runVars, redisVars, workerVars, recVars, callVars, faults>>

-----------------------------------------------------------------------------
(* Types *)

PreSend    == {"queued", "dispatch_intent"}
AttemptStates == PreSend \cup
  {"send_authorized", "succeeded", "fallback_allowed", "outcome_unknown",
   "cancelled", "result_unavailable"}
Settled    == {"succeeded", "fallback_allowed", "outcome_unknown",
               "cancelled", "result_unavailable"}

\* A table that lets an attempt move anywhere.
SuccessorsAny == [s \in AttemptStates \cup {"none"} |-> AttemptStates]

\* ATTEMPT_TRANSITIONS
Successors ==
  [s \in AttemptStates \cup {"none"} |->
     CASE s = "queued" ->
            {"dispatch_intent", "fallback_allowed", "outcome_unknown", "cancelled"}
       [] s = "dispatch_intent" ->
            {"send_authorized", "fallback_allowed", "outcome_unknown", "cancelled"}
       [] s = "send_authorized" ->
            {"succeeded", "fallback_allowed", "outcome_unknown", "result_unavailable"}
       [] s = "outcome_unknown" -> {"succeeded", "result_unavailable"}
       [] OTHER -> {}]

\* The awaits of process(): the worker has issued none of them yet.
WorkerPcs == {"idle", "read", "lease", "intent", "markRedis", "authorize",
              "send", "await", "store", "settle"}
ReconcilerPcs == {"idle", "getResult", "recover", "getMarker", "notify", "doubt"}
\* The provider's side of a call: never made, running, answered with text the
\* contracts accept, answered with an explicit failure, or lost.
CallStates == {"none", "inflight", "text", "rejected", "uncertain"}

TypeOK ==
  /\ state \in [Attempts -> AttemptStates \cup {"none"}]
  /\ token \in [Attempts -> Nat]
  /\ leased \in SUBSET Attempts
  /\ outbox \in [Attempts -> {"none", "pending", "publishing", "notified", "published"}]
  /\ body \in [Attempts -> {"live", "expired", "gone"}]
  /\ accepted \in [Executions -> Attempts \cup {None}]
  /\ runState \in {"active", "recovery_required", "ended"}
  /\ expiry \in {"fresh", "idle", "final"}
  /\ tombstoned \in BOOLEAN
  /\ redisLease \in [Attempts -> Nat]
  /\ marker \in [Attempts -> Nat]
  /\ results \in SUBSET Attempts
  /\ stream \in SUBSET Attempts
  /\ inbox \in [Workers -> SUBSET Attempts]
  /\ pc \in [Workers -> WorkerPcs]
  /\ job \in [Workers -> Attempts \cup {None}]
  /\ \A w \in Workers : pc[w] = "idle" <=> job[w] = None
  /\ held \in [Workers -> Nat]
  /\ snap \in [Workers -> AttemptStates \cup {"none"}]
  /\ to \in [Workers -> AttemptStates \cup {"none"}]
  /\ rpc \in ReconcilerPcs
  /\ rjob \in Attempts \cup {None}
  /\ rpc = "idle" <=> rjob = None
  /\ rsnap \in AttemptStates \cup {"none"}
  /\ call \in [Attempts -> CallStates]
  /\ sends \in [Attempts -> Nat]
  /\ faults \in 0..MaxFaults

-----------------------------------------------------------------------------
(* Initial state: an active run whose packets are approved, nothing         *)
(* dispatched.                                                              *)

Init ==
  /\ state = [a \in Attempts |-> "none"]
  /\ token = [a \in Attempts |-> 0]
  /\ leased = {}
  /\ outbox = [a \in Attempts |-> "none"]
  /\ body = [a \in Attempts |-> "live"]
  /\ accepted = [e \in Executions |-> None]
  /\ runState = "active"
  /\ expiry = "fresh"
  /\ tombstoned = FALSE
  /\ redisLease = [a \in Attempts |-> 0]
  /\ marker = [a \in Attempts |-> 0]
  /\ results = {}
  /\ stream = {}
  /\ inbox = [w \in Workers |-> {}]
  /\ pc = [w \in Workers |-> "idle"]
  /\ job = [w \in Workers |-> None]
  /\ held = [w \in Workers |-> 0]
  /\ snap = [w \in Workers |-> "none"]
  /\ to = [w \in Workers |-> "none"]
  /\ rpc = "idle"
  /\ rjob = None
  /\ rsnap = "none"
  /\ call = [a \in Attempts |-> "none"]
  /\ sends = [a \in Attempts |-> 0]
  /\ faults = 0

-----------------------------------------------------------------------------
(* Helpers *)

\* The run accepts activity: state = 'active' and now < effective_expires_at.
RunOpen == runState = "active" /\ expiry = "fresh"

\* effective_expires_at = LEAST(now + 2 hours, absolute_deadline_at), which
\* most statements write for an active run; the deadline itself never moves.
Touch == expiry' = IF runState = "active" /\ expiry = "idle" THEN "fresh" ELSE expiry

\* transitionAttempt: compare and set on the state alone.  It does not look
\* at the lease, the token or the run, and a stage execution takes whichever
\* attempt succeeded last.
CompareAndSet(a, from, target) ==
  IF state[a] = from /\ target \in Successors[from]
    THEN /\ state' = [state EXCEPT ![a] = target]
         /\ accepted' = IF target = "succeeded"
                          THEN [accepted EXCEPT ![ExecutionOf[a]] = a]
                          ELSE accepted
         /\ Touch
    ELSE UNCHANGED <<state, accepted, expiry>>

\* Every failing call of PostgreSQL or Redis, stall and crash is counted.
Fault == faults < MaxFaults /\ faults' = faults + 1

\* An XADD reaches every worker that reads the stream.
Notify(a) ==
  /\ stream' = stream \cup {a}
  /\ inbox' = [w \in Workers |-> inbox[w] \cup {a}]

\* process() returns without letting go of its attempt.
FinishHolding(w) ==
  /\ pc' = [pc EXCEPT ![w] = "idle"]
  /\ UNCHANGED <<job, held, snap, to>>

\* process() returns or throws.
Finish(w) ==
  /\ pc' = [pc EXCEPT ![w] = "idle"]
  /\ job' = [job EXCEPT ![w] = None]
  /\ held' = [held EXCEPT ![w] = 0]
  /\ snap' = [snap EXCEPT ![w] = "none"]
  /\ to' = [to EXCEPT ![w] = "none"]

\* The worker goes on to the await at `step', knowing the attempt in `known'.
GoTo(w, step, known) ==
  /\ pc' = [pc EXCEPT ![w] = step]
  /\ snap' = [snap EXCEPT ![w] = known]
  /\ UNCHANGED <<job, held, to>>

\* The worker goes on to transitionAttempt(from, target).
GoSettle(w, from, target) ==
  /\ pc' = [pc EXCEPT ![w] = "settle"]
  /\ snap' = [snap EXCEPT ![w] = from]
  /\ to' = [to EXCEPT ![w] = target]
  /\ UNCHANGED <<job, held>>

-----------------------------------------------------------------------------
(* The gateway *)

\* claimPacketAndReserve, after getPacketBody found an unexpired packet.  A
\* repeated internal_call_id returns the row it has: no step.
Reserve(a) ==
  /\ state[a] = "none"
  /\ RunOpen
  /\ accepted[ExecutionOf[a]] = None
  /\ body[a] = "live"
  /\ state' = [state EXCEPT ![a] = "queued"]
  /\ outbox' = [outbox EXCEPT ![a] = "pending"]
  /\ UNCHANGED <<token, leased, body, accepted, runVars, redisVars,
                 workerVars, recVars, callVars, faults>>

-----------------------------------------------------------------------------
(* OutboxPublisher.tick: claim, notify, mark, one row at a time.            *)

PublisherClaim(a) ==
  /\ outbox[a] = "pending"
  /\ outbox' = [outbox EXCEPT ![a] = "publishing"]
  /\ UNCHANGED <<state, token, leased, body, accepted, runVars, redisVars,
                 workerVars, recVars, callVars, faults>>

PublisherNotify(a) ==
  /\ outbox[a] = "publishing"
  /\ Notify(a)
  /\ outbox' = [outbox EXCEPT ![a] = "notified"]
  /\ UNCHANGED <<state, token, leased, body, accepted, runVars,
                 tombstoned, redisLease, marker, results,
                 pc, job, held, snap, to, recVars, callVars, faults>>

PublisherMark(a) ==
  /\ outbox[a] = "notified"
  /\ outbox' = [outbox EXCEPT ![a] = "published"]
  /\ UNCHANGED <<state, token, leased, body, accepted, runVars, redisVars,
                 workerVars, recVars, callVars, faults>>

\* publish_lease_until passed: the publisher died or threw between the claim
\* and markPublished, and the next tick claims the row again.
PublisherReclaim(a) ==
  /\ outbox[a] \in {"publishing", "notified"}
  /\ Fault
  /\ outbox' = [outbox EXCEPT ![a] = "publishing"]
  /\ UNCHANGED <<state, token, leased, body, accepted, runVars, redisVars,
                 workerVars, recVars, callVars>>

-----------------------------------------------------------------------------
(* ExecutionWorker.process *)

Claimable(a) == state[a] \in PreSend /\ a \notin leased

\* claimAttempt returned a row.
ClaimAttempt(w, a) ==
  /\ pc[w] = "idle"
  /\ a \in inbox[w]
  /\ Claimable(a)
  /\ token[a] < MaxClaims
  /\ inbox' = [inbox EXCEPT ![w] = @ \ {a}]
  /\ token' = [token EXCEPT ![a] = @ + 1]
  /\ leased' = leased \cup {a}
  /\ pc' = [pc EXCEPT ![w] = "read"]
  /\ job' = [job EXCEPT ![w] = a]
  /\ held' = [held EXCEPT ![w] = token[a] + 1]
  /\ snap' = [snap EXCEPT ![w] = "none"]
  /\ UNCHANGED <<state, outbox, body, accepted, runVars, redisVars, to,
                 recVars, callVars, faults>>

\* claimAttempt returned nothing: the attempt has left the queue or another
\* worker holds its lease.
SkipMessage(w, a) ==
  /\ pc[w] = "idle"
  /\ a \in inbox[w]
  /\ ~Claimable(a)
  /\ inbox' = [inbox EXCEPT ![w] = @ \ {a}]
  /\ UNCHANGED <<pgVars, runVars, redisVars, pc, job, held, snap, to,
                 recVars, callVars, faults>>

\* getAttempt, and every check up to the next await.  It joins the packet
\* body, so a deleted body looks like a missing attempt.  The binding and the
\* destination policy may refuse the packet (cancelled), and an attempt still
\* queued after MAX_QUEUE_WAIT_MS falls back.
ReadAttempt(w) ==
  LET a == job[w] IN
  /\ pc[w] = "read"
  /\ \/ /\ body[a] = "gone"
        /\ Finish(w)
     \/ /\ body[a] # "gone"
        /\ ~RunOpen
        /\ GoSettle(w, state[a], "cancelled")
     \/ /\ body[a] = "expired"
        /\ RunOpen
        /\ GoSettle(w, state[a], "fallback_allowed")
     \/ /\ body[a] = "live"
        /\ RunOpen
        /\ \/ GoSettle(w, state[a], "cancelled")
           \/ state[a] = "queued" /\ GoSettle(w, "queued", "fallback_allowed")
           \/ GoTo(w, "lease", state[a])
  /\ UNCHANGED <<pgVars, runVars, redisVars, inbox, recVars, callVars, faults>>

\* What follows a successful lease or intent without an await in between:
\* providerConfigured, then either the fallback or the send marker.
CheckProvider(w) ==
  \/ GoSettle(w, "dispatch_intent", "fallback_allowed")
  \/ GoTo(w, "markRedis", "dispatch_intent")

\* setLease (leaseScript): a send marker wins over the claim, and any other
\* lease is replaced.
SetLease(w) ==
  LET a == job[w] IN
  /\ pc[w] = "lease"
  /\ \/ /\ tombstoned
        /\ GoSettle(w, snap[w], "cancelled")
        /\ UNCHANGED redisLease
     \/ /\ ~tombstoned
        /\ marker[a] # 0
        /\ GoSettle(w, snap[w], "outcome_unknown")
        /\ UNCHANGED redisLease
     \/ /\ ~tombstoned
        /\ marker[a] = 0
        /\ redisLease' = [redisLease EXCEPT ![a] = held[w]]
        /\ IF snap[w] = "queued" THEN GoTo(w, "intent", "queued")
                                 ELSE CheckProvider(w)
  /\ UNCHANGED <<pgVars, runVars, tombstoned, marker, results, stream, inbox,
                 recVars, callVars, faults>>

\* transitionAttempt(queued, dispatch_intent).
RecordIntent(w) ==
  LET a == job[w] IN
  /\ pc[w] = "intent"
  /\ CompareAndSet(a, "queued", "dispatch_intent")
  /\ IF state[a] = "queued" THEN CheckProvider(w) ELSE Finish(w)
  /\ UNCHANGED <<token, leased, outbox, body, runState, redisVars, inbox,
                 recVars, callVars, faults>>

\* redis.authorizeSend (authorizeScript).
MarkSend(w) ==
  LET a == job[w] IN
  /\ pc[w] = "markRedis"
  /\ IF ~tombstoned /\ redisLease[a] = held[w] /\ marker[a] = 0
       THEN /\ marker' = [marker EXCEPT ![a] = held[w]]
            /\ GoTo(w, "authorize", "dispatch_intent")
       ELSE /\ GoSettle(w, "dispatch_intent", "outcome_unknown")
            /\ UNCHANGED marker
  /\ UNCHANGED <<pgVars, runVars, tombstoned, redisLease, results, stream,
                 inbox, recVars, callVars, faults>>

\* A fence that trusts the lease alone.
AuthorizableByLease(w) == job[w] \in leased /\ RunOpen

\* The fence that decides who sends: the state, the token and the lease of the
\* attempt, and an open run.
Authorizable(w) ==
  /\ state[job[w]] = "dispatch_intent"
  /\ token[job[w]] = held[w]
  /\ job[w] \in leased
  /\ RunOpen

\* repository.authorizeAttempt.
Authorize(w) ==
  LET a == job[w] IN
  /\ pc[w] = "authorize"
  /\ IF Authorizable(w)
       THEN /\ state' = [state EXCEPT ![a] = "send_authorized"]
            /\ GoTo(w, "send", "send_authorized")
       ELSE /\ GoSettle(w, "dispatch_intent", "outcome_unknown")
            /\ UNCHANGED state
  /\ UNCHANGED <<token, leased, outbox, body, accepted, runVars, redisVars,
                 inbox, recVars, callVars, faults>>

\* The call leaves the process.
Send(w) ==
  LET a == job[w] IN
  /\ pc[w] = "send"
  /\ call' = [call EXCEPT ![a] = "inflight"]
  /\ sends' = [sends EXCEPT ![a] = @ + 1]
  /\ GoTo(w, "await", "send_authorized")
  /\ UNCHANGED <<pgVars, runVars, redisVars, inbox, recVars, faults>>

\* A timeout taken for a refusal.
RefusedOrLost(outcome) == outcome \in {"rejected", "uncertain"}

\* The failures in fallbackCodes: the provider is not configured, answered
\* with an error, or its answer fails the inspection or the contract.
Refused(outcome) == outcome = "rejected"

\* invoke returned or threw.  A heartbeat that failed meanwhile set fenceLost,
\* which makes the outcome unknown whatever the provider answered.
ProviderReturns(w, outcome, fenceLost) ==
  LET a == job[w] IN
  /\ pc[w] = "await"
  /\ call' = [call EXCEPT ![a] = outcome]
  /\ \/ /\ fenceLost \/ (outcome # "text" /\ ~Refused(outcome))
        /\ GoSettle(w, "send_authorized", "outcome_unknown")
     \/ /\ ~fenceLost /\ Refused(outcome)
        /\ GoSettle(w, "send_authorized", "fallback_allowed")
     \/ /\ ~fenceLost /\ outcome = "text"
        /\ GoTo(w, "store", "send_authorized")
  /\ UNCHANGED <<pgVars, runVars, redisVars, inbox, sends, recVars, faults>>

\* A result written whatever became of the run.
ChildAlwaysAllowed == TRUE

\* childScript refuses a key of a tombstoned run.
ChildAllowed == ~tombstoned

\* redis.setResult.
StoreResult(w) ==
  LET a == job[w] IN
  /\ pc[w] = "store"
  /\ IF ChildAllowed
       THEN /\ results' = results \cup {a}
            /\ GoSettle(w, "send_authorized", "succeeded")
       ELSE /\ GoSettle(w, "send_authorized", "result_unavailable")
            /\ UNCHANGED results
  /\ UNCHANGED <<pgVars, runVars, tombstoned, redisLease, marker, stream,
                 inbox, recVars, callVars, faults>>

\* The last transitionAttempt of process().
Settle(w) ==
  /\ pc[w] = "settle"
  /\ CompareAndSet(job[w], snap[w], to[w])
  /\ Finish(w)
  /\ UNCHANGED <<token, leased, outbox, body, runState, redisVars, inbox,
                 recVars, callVars, faults>>

-----------------------------------------------------------------------------
(* Exceptions, crashes and stalls of a worker *)

\* setLease throws, before or after Redis ran the script.
SetLeaseThrows(w) ==
  LET a == job[w] IN
  /\ pc[w] = "lease"
  /\ Fault
  /\ GoSettle(w, snap[w], "fallback_allowed")
  /\ \/ UNCHANGED redisLease
     \/ /\ ~tombstoned /\ marker[a] = 0
        /\ redisLease' = [redisLease EXCEPT ![a] = held[w]]
  /\ UNCHANGED <<pgVars, runVars, tombstoned, marker, results, stream, inbox,
                 recVars, callVars>>

\* setResult throws, before or after Redis ran the script: the catch block.
StoreThrows(w) ==
  LET a == job[w] IN
  /\ pc[w] = "store"
  /\ Fault
  /\ GoSettle(w, "send_authorized", "outcome_unknown")
  /\ \/ UNCHANGED results
     \/ ChildAllowed /\ results' = results \cup {a}
  /\ UNCHANGED <<pgVars, runVars, tombstoned, redisLease, marker, stream,
                 inbox, recVars, callVars>>

\* The transition that follows a stored or refused result throws: the same
\* catch block.
SettleThrows(w) ==
  /\ pc[w] = "settle"
  /\ to[w] \in {"succeeded", "result_unavailable"}
  /\ Fault
  /\ GoSettle(w, "send_authorized", "outcome_unknown")
  /\ UNCHANGED <<pgVars, runVars, redisVars, inbox, recVars, callVars>>

\* Any other await throws out of process(): the loop logs it and goes on.
StepThrows(w) ==
  /\ \/ pc[w] \in {"read", "intent", "markRedis", "authorize", "send"}
     \/ pc[w] = "settle" /\ to[w] \notin {"succeeded", "result_unavailable"}
  /\ Fault
  /\ Finish(w)
  /\ UNCHANGED <<pgVars, runVars, redisVars, inbox, recVars, callVars>>

\* The process dies.  The next one reads the stream from its first entry; a
\* call it was waiting for stays in flight.
Crash(w) ==
  /\ pc[w] # "idle"
  /\ Fault
  /\ Finish(w)
  /\ inbox' = [inbox EXCEPT ![w] = stream]
  /\ UNCHANGED <<pgVars, runVars, redisVars, recVars, callVars>>

\* Some worker still runs under the current lease of a.
LeaseHolder(a) == {w \in Workers : job[w] = a /\ held[w] = token[a]}

\* lease_until passes with nobody renewing it.
LeaseExpires(a) ==
  /\ a \in leased
  /\ LeaseHolder(a) = {}
  /\ leased' = leased \ {a}
  /\ UNCHANGED <<state, token, outbox, body, accepted, runVars, redisVars,
                 workerVars, recVars, callVars, faults>>

\* lease_until passes under a worker that stalls, or whose heartbeat failed.
LeaseStalls(a) ==
  /\ a \in leased
  /\ LeaseHolder(a) # {}
  /\ PromptRead => \A w \in LeaseHolder(a) : pc[w] # "read"
  /\ Fault
  /\ leased' = leased \ {a}
  /\ UNCHANGED <<state, token, outbox, body, accepted, runVars, redisVars,
                 workerVars, recVars, callVars>>

-----------------------------------------------------------------------------
(* AttemptReconciler.tick, one candidate at a time *)

\* Only the attempts a worker has begun.
StaleIntent(a) == outbox[a] = "published" /\ state[a] = "dispatch_intent"

\* Published over 30 seconds ago, not yet dispatched.
Stale(a) == outbox[a] = "published" /\ state[a] \in PreSend

\* reconcileStale.
ReconcileStale(a) ==
  /\ Stale(a)
  /\ outbox' = [outbox EXCEPT ![a] = "pending"]
  /\ UNCHANGED <<state, token, leased, body, accepted, runVars, redisVars,
                 workerVars, recVars, callVars, faults>>

\* A lease that ran out, and nothing that was settled.
CandidateByLease(a) ==
  state[a] \in {"dispatch_intent", "send_authorized"} /\ token[a] # 0 /\ a \notin leased

\* listReconciliationCandidates: a lease that ran out, or an unknown outcome.
Candidate(a) ==
  \/ /\ state[a] \in {"dispatch_intent", "send_authorized"}
     /\ token[a] # 0 /\ a \notin leased
  \/ state[a] = "outcome_unknown"

PickCandidate(a) ==
  /\ rpc = "idle"
  /\ Candidate(a)
  /\ rpc' = "getResult"
  /\ rjob' = a
  /\ rsnap' = state[a]
  /\ UNCHANGED <<pgVars, runVars, redisVars, workerVars, callVars, faults>>

ReconcilerDone == rpc' = "idle" /\ rjob' = None /\ rsnap' = "none"

\* A send marker taken for a result.
HasResultOrMarker(a) == a \in results \/ marker[a] # 0

\* getResult found a result that passes validateGovernedOutput.
HasResult(a) == a \in results

GetResult ==
  /\ rpc = "getResult"
  /\ rpc' = IF HasResult(rjob) THEN "recover" ELSE "getMarker"
  /\ UNCHANGED <<pgVars, runVars, redisVars, workerVars, rjob, rsnap,
                 callVars, faults>>

\* The catch around recoverSucceeded: the tick goes on with the same candidate, as
\* if it had no result.
GoesOnWithout == rpc' = "getMarker" /\ UNCHANGED <<rjob, rsnap>>

\* recoverSucceeded, whose answer may get lost after the commit.
Recover ==
  /\ rpc = "recover"
  /\ IF state[rjob] \in {"send_authorized", "outcome_unknown"}
       THEN CompareAndSet(rjob, state[rjob], "succeeded")
       ELSE UNCHANGED <<state, accepted, expiry>>
  /\ \/ ReconcilerDone /\ UNCHANGED faults
     \/ GoesOnWithout /\ Fault
  /\ UNCHANGED <<token, leased, outbox, body, runState, redisVars,
                 workerVars, callVars>>

\* getSendMarker, and what the candidate read earlier makes of it.
GetMarker ==
  /\ rpc = "getMarker"
  /\ CASE rsnap = "outcome_unknown" -> ReconcilerDone
       [] rsnap = "dispatch_intent" /\ marker[rjob] = 0 ->
            rpc' = "notify" /\ UNCHANGED <<rjob, rsnap>>
       [] OTHER -> rpc' = "doubt" /\ UNCHANGED <<rjob, rsnap>>
  /\ UNCHANGED <<pgVars, runVars, redisVars, workerVars, callVars, faults>>

RenotifyAttempt ==
  /\ rpc = "notify"
  /\ Notify(rjob)
  /\ ReconcilerDone
  /\ UNCHANGED <<pgVars, runVars, tombstoned, redisLease, marker, results,
                 pc, job, held, snap, to, callVars, faults>>

\* transitionAttempt(a.state, outcome_unknown).
MarkDoubt ==
  /\ rpc = "doubt"
  /\ CompareAndSet(rjob, rsnap, "outcome_unknown")
  /\ ReconcilerDone
  /\ UNCHANGED <<token, leased, outbox, body, runState, redisVars,
                 workerVars, callVars, faults>>

\* The tick throws or its process dies; only a throw of recoverSucceeded is caught.
ReconcilerFails ==
  /\ rpc # "idle"
  /\ Fault
  /\ ReconcilerDone \/ (rpc = "recover" /\ GoesOnWithout)
  /\ UNCHANGED <<pgVars, runVars, redisVars, workerVars, callVars>>

-----------------------------------------------------------------------------
(* The run around the attempts: its clock, the requests that change it, and *)
(* its cleanup.                                                             *)

RunGoesIdle ==
  /\ expiry = "fresh"
  /\ expiry' = "idle"
  /\ UNCHANGED <<pgVars, runState, redisVars, workerVars, recVars, callVars, faults>>

DeadlinePasses ==
  /\ expiry # "final"
  /\ expiry' = "final"
  /\ UNCHANGED <<pgVars, runState, redisVars, workerVars, recVars, callVars, faults>>

\* markRunRecoverable and resumeRun: both refresh the inactivity expiry.
SuspendRun ==
  /\ runState = "active" /\ expiry # "final"
  /\ runState' = "recovery_required"
  /\ expiry' = "fresh"
  /\ UNCHANGED <<pgVars, redisVars, workerVars, recVars, callVars, faults>>

ResumeRun ==
  /\ runState = "recovery_required" /\ expiry # "final"
  /\ runState' = "active"
  /\ expiry' = "fresh"
  /\ UNCHANGED <<pgVars, redisVars, workerVars, recVars, callVars, faults>>

\* The run completes, fails, expires or is to be deleted.
EndRun ==
  /\ runState # "ended"
  /\ runState' = "ended"
  /\ UNCHANGED <<pgVars, expiry, redisVars, workerVars, recVars, callVars, faults>>

\* redis.tombstone (tombstoneScript): the tombstone, and every child key gone.
Tombstone ==
  /\ runState = "ended"
  /\ ~tombstoned
  /\ tombstoned' = TRUE
  /\ redisLease' = [a \in Attempts |-> 0]
  /\ marker' = [a \in Attempts |-> 0]
  /\ results' = {}
  /\ UNCHANGED <<pgVars, runVars, stream, workerVars, recVars, callVars, faults>>

\* recordCleanupEvidence(verified): the packet bodies of the run go.
VerifyCleanup ==
  /\ tombstoned
  /\ body' = [a \in Attempts |-> "gone"]
  /\ UNCHANGED <<state, token, leased, outbox, accepted, runVars, redisVars,
                 workerVars, recVars, callVars, faults>>

PacketExpires(a) ==
  /\ body[a] = "live"
  /\ body' = [body EXCEPT ![a] = "expired"]
  /\ UNCHANGED <<state, token, leased, outbox, accepted, runVars, redisVars,
                 workerVars, recVars, callVars, faults>>

\* pruneExpiredPacketBodies.
PruneBody(a) ==
  /\ body[a] = "expired"
  /\ body' = [body EXCEPT ![a] = "gone"]
  /\ UNCHANGED <<state, token, leased, outbox, accepted, runVars, redisVars,
                 workerVars, recVars, callVars, faults>>

\* Redis keys reach their TTL.  The lease key is renewed together with the
\* PostgreSQL lease and outlives it by five seconds.
RedisLeaseExpires(a) ==
  /\ redisLease[a] # 0
  /\ a \notin leased \/ redisLease[a] # token[a]
  /\ redisLease' = [redisLease EXCEPT ![a] = 0]
  /\ UNCHANGED <<pgVars, runVars, tombstoned, marker, results, stream,
                 workerVars, recVars, callVars, faults>>

MarkerExpires(a) ==
  /\ marker[a] # 0
  /\ marker' = [marker EXCEPT ![a] = 0]
  /\ UNCHANGED <<pgVars, runVars, tombstoned, redisLease, results, stream,
                 workerVars, recVars, callVars, faults>>

ResultExpires(a) ==
  /\ a \in results
  /\ results' = results \ {a}
  /\ UNCHANGED <<pgVars, runVars, tombstoned, redisLease, marker, stream,
                 workerVars, recVars, callVars, faults>>

-----------------------------------------------------------------------------
Publisher(a) == PublisherClaim(a) \/ PublisherNotify(a) \/ PublisherMark(a)

\* One step of process() that no fault disturbs.
WorkerStep(w) ==
  \/ \E a \in Attempts : ClaimAttempt(w, a) \/ SkipMessage(w, a)
  \/ ReadAttempt(w) \/ SetLease(w) \/ RecordIntent(w) \/ MarkSend(w)
  \/ Authorize(w) \/ Send(w)
  \/ \E outcome \in {"text", "rejected", "uncertain"}, fenceLost \in BOOLEAN :
       ProviderReturns(w, outcome, fenceLost)
  \/ StoreResult(w) \/ Settle(w)

WorkerFault(w) ==
  \/ SetLeaseThrows(w) \/ StoreThrows(w) \/ SettleThrows(w)
  \/ StepThrows(w) \/ Crash(w)

ReconcilerStep ==
  GetResult \/ Recover \/ GetMarker \/ RenotifyAttempt \/ MarkDoubt

RunStep ==
  \/ RunGoesIdle \/ DeadlinePasses \/ SuspendRun \/ ResumeRun \/ EndRun
  \/ Tombstone \/ VerifyCleanup
  \/ \E a \in Attempts : PacketExpires(a) \/ PruneBody(a)

TimeStep ==
  \E a \in Attempts :
    \/ LeaseExpires(a) \/ LeaseStalls(a)
    \/ RedisLeaseExpires(a) \/ MarkerExpires(a) \/ ResultExpires(a)

Next ==
  \/ \E a \in Attempts : Reserve(a) \/ Publisher(a) \/ PublisherReclaim(a)
  \/ \E w \in Workers : WorkerStep(w) \/ WorkerFault(w)
  \/ \E a \in Attempts : ReconcileStale(a) \/ PickCandidate(a)
  \/ ReconcilerStep \/ ReconcilerFails
  \/ RunStep
  \/ TimeStep

Spec == Init /\ [][Next]_vars

\* The publisher, the reconciler and the workers loop until the process is
\* stopped, the provider call has a timeout, and a lease nobody renews runs
\* out.  A tick visits every candidate it listed, hence the strong fairness.
Fairness ==
  /\ \A a \in Attempts :
       /\ WF_vars(Publisher(a))
       /\ WF_vars(ReconcileStale(a))
       /\ WF_vars(LeaseExpires(a))
       /\ SF_vars(PickCandidate(a))
  /\ \A w \in Workers : WF_vars(WorkerStep(w))
  /\ WF_vars(ReconcilerStep)

FairSpec == Spec /\ Fairness

-----------------------------------------------------------------------------
(* What the control plane promises *)

\* The provider is called at most once for an attempt, whatever is redelivered,
\* crashes or loses its lease (README.md: "Provider invocation is at-most-once").
AtMostOnce == \A a \in Attempts : sends[a] <= 1

\* An attempt the browser may retry elsewhere, or that was cancelled, has no
\* call that ran or may still run, except one the provider refused: "post-send
\* uncertainty never becomes fallback".
ReleasedUnsent ==
  \A a \in Attempts :
    /\ state[a] = "cancelled" => call[a] = "none"
    /\ state[a] = "fallback_allowed" => call[a] \in {"none", "rejected"}
    /\ state[a] \in {"cancelled", "fallback_allowed"} =>
         \A w \in Workers : ~(job[w] = a /\ pc[w] = "send")

\* An attempt succeeded only with an answer that passed the contracts, and its
\* stage execution has accepted an attempt that succeeded, also when the
\* reconciler rather than the worker wrote it down.
AcceptedAnswered ==
  /\ \A a \in Attempts : state[a] = "succeeded" =>
       call[a] = "text" /\ accepted[ExecutionOf[a]] # None
  /\ \A e \in Executions : accepted[e] # None =>
       state[accepted[e]] = "succeeded" /\ ExecutionOf[accepted[e]] = e

\* Once the run is tombstoned no coordination key and no result of it appears
\* again, however late a worker writes.
TombstoneHolds ==
  tombstoned => \A a \in Attempts :
    redisLease[a] = 0 /\ marker[a] = 0 /\ a \notin results

\* An outcome in doubt is only ever resolved to success; every other settled
\* state is final.
DoubtNeverReleased ==
  [][\A a \in Attempts :
       /\ state[a] = "outcome_unknown" => state'[a] \in {"outcome_unknown", "succeeded"}
       /\ state[a] \in Settled \ {"outcome_unknown"} => state'[a] = state[a]]_vars

\* The ledger seen from outside: a worker about to send has the call cleared.
clearedCall ==
  [a \in Attempts |-> IF \E w \in Workers : job[w] = a /\ pc[w] = "send"
                        THEN "cleared" ELSE call[a]]

Ledger == INSTANCE AttemptLedger WITH ledger <- state, call <- clearedCall

\* Every behaviour of the control plane is one of the ledger: redeliveries,
\* lost leases, crashes and the reconciler never show as a second send, as a
\* release after a send, or as a success without an answer.
ImplementsLedger == Ledger!Spec

\* Every reserved attempt is settled in the end, through lost notifications,
\* crashes and stalls, unless its packet body goes first.
EverySettles ==
  \A a \in Attempts :
    state[a] = "queued" ~> (state[a] \in Settled \/ body[a] = "gone")

\* A result in Redis is never forgotten: whatever became of its worker, the
\* attempt is recorded as succeeded while the result is there.
ResultRecovered ==
  \A a \in Attempts :
    (a \in results /\ state[a] # "succeeded") ~> (state[a] = "succeeded" \/ a \notin results)
=============================================================================
