------------------------ MODULE AttemptDispatchProofs ------------------------
(***************************************************************************)
(* Theorems about AttemptDispatch for every set of attempts and workers    *)
(* and every bound on claims and faults: the types, that a provider is     *)
(* called at most once for an attempt, that an accepted attempt was        *)
(* answered, that the tombstone holds, that doubt is never released, and   *)
(* with prompt reads that a released attempt was not sent and that the     *)
(* dispatch implements AttemptLedger.                                      *)
(***************************************************************************)
EXTENDS AttemptDispatch, TLAPS

-----------------------------------------------------------------------------
(* The transitions, the types, and the cases of a step *)

\* What ATTEMPT_TRANSITIONS says, in the form the proofs use: what may lead into
\* a state, and that every settled state but outcome_unknown is a dead end.
LEMMA SuccessorsFacts ==
  /\ \A s \in AttemptStates \cup {"none"} : Successors[s] \subseteq AttemptStates
  /\ \A s \in AttemptStates \cup {"none"} :
       /\ "queued" \notin Successors[s]
       /\ "dispatch_intent" \in Successors[s] => s = "queued"
       /\ "send_authorized" \in Successors[s] => s = "dispatch_intent"
       /\ "succeeded" \in Successors[s] => s \in {"send_authorized", "outcome_unknown"}
       /\ "cancelled" \in Successors[s] => s \in PreSend
       /\ "fallback_allowed" \in Successors[s] => s \in PreSend \cup {"send_authorized"}
       /\ s \in Settled \ {"outcome_unknown"} => Successors[s] = {}
       /\ Successors["outcome_unknown"] = {"succeeded", "result_unavailable"}
BY DEF Successors, AttemptStates, PreSend, Settled

\* A compareAndSet either changes nothing or moves one attempt along an allowed
\* transition, and it accepts the attempt exactly when it records a success.
LEMMA CompareAndSetEffect ==
  ASSUME DispatchAssumption, TypeOK, NEW a \in Attempts,
         NEW from \in AttemptStates \cup {"none"},
         NEW target \in AttemptStates \cup {"none"},
         CompareAndSet(a, from, target)
  PROVE  \/ UNCHANGED <<state, accepted>>
         \/ /\ state[a] = from /\ target \in Successors[from]
            /\ state' = [state EXCEPT ![a] = target]
            /\ target = "succeeded" => accepted' = [accepted EXCEPT ![ExecutionOf[a]] = a]
            /\ target # "succeeded" => accepted' = accepted
BY DEF CompareAndSet

\* No transition leads back before the send.
LEMMA NoReturn ==
  ASSUME DispatchAssumption, TypeOK, NEW a \in Attempts,
         NEW from \in AttemptStates \cup {"none"},
         NEW target \in AttemptStates \cup {"none"},
         CompareAndSet(a, from, target)
  PROVE  \A b \in Attempts :
           /\ state'[b] \in PreSend \cup {"none"} => state[b] \in PreSend \cup {"none"}
           /\ state[b] # "none" => state'[b] # "none"
<1>1. CASE state' = state BY <1>1
<1>2. CASE /\ target \in Successors[from] /\ state[a] = from
           /\ state' = [state EXCEPT ![a] = target]
  <2>1. target \in AttemptStates BY <1>2, SuccessorsFacts
  <2>2. target \in PreSend => from = "queued" BY <1>2, SuccessorsFacts DEF PreSend
  <2>3. QED BY <1>2, <2>1, <2>2 DEF TypeOK, AttemptStates, PreSend
<1>3. QED BY <1>1, <1>2, CompareAndSetEffect

\* A compareAndSet keeps the types of what it writes.
LEMMA CompareAndSetType ==
  ASSUME DispatchAssumption, TypeOK, NEW a \in Attempts,
         NEW from \in AttemptStates \cup {"none"},
         NEW target \in AttemptStates \cup {"none"},
         CompareAndSet(a, from, target), UNCHANGED runState
  PROVE  /\ state' \in [Attempts -> AttemptStates \cup {"none"}]
         /\ accepted' \in [Executions -> Attempts \cup {None}]
         /\ expiry' \in {"fresh", "idle", "final"}
BY DEF CompareAndSet, TypeOK, Touch

\* Every step of the dispatch keeps the types.
LEMMA TypeOKStep ==
  ASSUME DispatchAssumption, TypeOK, [Next]_vars
  PROVE  TypeOK'
<1> USE DEF pgVars, runVars, redisVars, workerVars, recVars, callVars
<1>1. ASSUME NEW a \in Attempts, Reserve(a) PROVE TypeOK'
  BY <1>1 DEF Reserve, TypeOK, AttemptStates, PreSend
<1>2. ASSUME NEW a \in Attempts, PublisherClaim(a) PROVE TypeOK'
  BY <1>2 DEF PublisherClaim, TypeOK
<1>3. ASSUME NEW a \in Attempts, PublisherNotify(a) PROVE TypeOK'
  BY <1>3 DEF PublisherNotify, Notify, TypeOK
<1>4. ASSUME NEW a \in Attempts, PublisherMark(a) PROVE TypeOK'
  BY <1>4 DEF PublisherMark, TypeOK
<1>5. ASSUME NEW a \in Attempts, PublisherReclaim(a) PROVE TypeOK'
  BY <1>5 DEF PublisherReclaim, Fault, TypeOK
<1>6. ASSUME NEW w \in Workers, NEW a \in Attempts, ClaimAttempt(w, a) PROVE TypeOK'
  BY <1>6 DEF ClaimAttempt, TypeOK, WorkerPcs
<1>7. ASSUME NEW w \in Workers, NEW a \in Attempts, SkipMessage(w, a) PROVE TypeOK'
  BY <1>7 DEF SkipMessage, TypeOK
<1>8. ASSUME NEW w \in Workers, ReadAttempt(w) PROVE TypeOK'
  <2>1. state[job[w]] \in AttemptStates \cup {"none"}
    BY <1>8 DEF ReadAttempt, TypeOK
  <2>2. \/ Finish(w)
        \/ \E from \in AttemptStates \cup {"none"} :
             \/ \E target \in {"cancelled", "fallback_allowed"} : GoSettle(w, from, target)
             \/ GoTo(w, "lease", from)
    BY <1>8, <2>1 DEF ReadAttempt, AttemptStates, PreSend
  <2>3. UNCHANGED <<pgVars, runVars, redisVars, inbox, recVars, callVars, faults>>
    BY <1>8 DEF ReadAttempt
  <2>4. /\ pc' \in [Workers -> WorkerPcs] /\ job' \in [Workers -> Attempts \cup {None}]
        /\ held' \in [Workers -> Nat]
        /\ snap' \in [Workers -> AttemptStates \cup {"none"}]
        /\ to' \in [Workers -> AttemptStates \cup {"none"}]
    BY <2>2 DEF Finish, GoSettle, GoTo, TypeOK, WorkerPcs, AttemptStates
  <2>5. \A v \in Workers : pc'[v] = "idle" <=> job'[v] = None
    <3>1. pc[w] = "read" BY <1>8 DEF ReadAttempt
    <3>2. QED BY <2>2, <3>1 DEF Finish, GoSettle, GoTo, TypeOK
  <2>6. QED BY <2>3, <2>4, <2>5 DEF TypeOK
<1>9. ASSUME NEW w \in Workers, SetLease(w) PROVE TypeOK'
  BY <1>9 DEF SetLease, GoTo, GoSettle, CheckProvider, TypeOK, AttemptStates, PreSend,
     WorkerPcs
<1>10. ASSUME NEW w \in Workers, RecordIntent(w) PROVE TypeOK'
  BY <1>10, CompareAndSetType, SMTT(30) DEF RecordIntent, Finish, CheckProvider,
     CompareAndSet, GoTo, GoSettle, Touch, TypeOK, DispatchAssumption, AttemptStates,
     PreSend, WorkerPcs, ReconcilerPcs, CallStates
<1>11. ASSUME NEW w \in Workers, MarkSend(w) PROVE TypeOK'
  BY <1>11, CompareAndSetType, SMTT(30) DEF MarkSend, GoTo, GoSettle, Touch, TypeOK,
     DispatchAssumption, AttemptStates, PreSend, WorkerPcs, ReconcilerPcs, CallStates
<1>12. ASSUME NEW w \in Workers, Authorize(w) PROVE TypeOK'
  BY <1>12 DEF Authorize, GoTo, GoSettle, Authorizable, TypeOK, AttemptStates, PreSend,
     WorkerPcs
<1>13. ASSUME NEW w \in Workers, Send(w) PROVE TypeOK'
  <2>1. job[w] \in Attempts BY <1>13 DEF Send, TypeOK
  <2>2. /\ sends' \in [Attempts -> Nat]
        /\ call' \in [Attempts -> CallStates]
    BY <1>13, <2>1 DEF Send, TypeOK, CallStates
  <2>3. QED BY <1>13, <2>2 DEF Send, GoTo, TypeOK, WorkerPcs, AttemptStates
<1>14. ASSUME NEW w \in Workers,
        NEW o \in {"text", "rejected", "uncertain"}, NEW f \in BOOLEAN,
        ProviderReturns(w, o, f) PROVE TypeOK'
  BY <1>14 DEF ProviderReturns, GoTo, GoSettle, Refused, TypeOK, AttemptStates, PreSend,
     WorkerPcs, CallStates
<1>15. ASSUME NEW w \in Workers, StoreResult(w) PROVE TypeOK'
  BY <1>15 DEF StoreResult, GoSettle, ChildAllowed, TypeOK, AttemptStates, WorkerPcs
<1>16. ASSUME NEW w \in Workers, Settle(w) PROVE TypeOK'
  <2>1. job[w] \in Attempts BY <1>16 DEF Settle, TypeOK
  <2>2. /\ state' \in [Attempts -> AttemptStates \cup {"none"}]
        /\ accepted' \in [Executions -> Attempts \cup {None}]
        /\ expiry' \in {"fresh", "idle", "final"}
    BY <1>16, <2>1, CompareAndSetType DEF Settle, TypeOK
  <2>3. QED BY <1>16, <2>2 DEF Settle, Finish, TypeOK, WorkerPcs
<1>17. ASSUME NEW w \in Workers, SetLeaseThrows(w) PROVE TypeOK'
  BY <1>17 DEF SetLeaseThrows, GoSettle, Fault, TypeOK, AttemptStates, WorkerPcs
<1>18. ASSUME NEW w \in Workers, StoreThrows(w) PROVE TypeOK'
  BY <1>18 DEF StoreThrows, GoSettle, Fault, ChildAllowed, TypeOK, AttemptStates,
     WorkerPcs
<1>19. ASSUME NEW w \in Workers, SettleThrows(w) PROVE TypeOK'
  BY <1>19 DEF SettleThrows, GoSettle, Fault, TypeOK, AttemptStates
<1>20. ASSUME NEW w \in Workers, StepThrows(w) PROVE TypeOK'
  BY <1>20 DEF StepThrows, Finish, Fault, TypeOK, WorkerPcs
<1>21. ASSUME NEW w \in Workers, Crash(w) PROVE TypeOK'
  BY <1>21 DEF Crash, Finish, Fault, TypeOK, WorkerPcs
<1>22. ASSUME NEW a \in Attempts, LeaseExpires(a) PROVE TypeOK'
  BY <1>22 DEF LeaseExpires, LeaseHolder, TypeOK
<1>23. ASSUME NEW a \in Attempts, LeaseStalls(a) PROVE TypeOK'
  BY <1>23 DEF LeaseStalls, Fault, LeaseHolder, TypeOK
<1>24. ASSUME NEW a \in Attempts, ReconcileStale(a) PROVE TypeOK'
  BY <1>24 DEF ReconcileStale, Stale, TypeOK
<1>25. ASSUME NEW a \in Attempts, PickCandidate(a) PROVE TypeOK'
  BY <1>25 DEF PickCandidate, Candidate, TypeOK, ReconcilerPcs
<1>26. ASSUME GetResult PROVE TypeOK'
  BY <1>26 DEF GetResult, HasResult, TypeOK, ReconcilerPcs
<1>27. ASSUME Recover PROVE TypeOK'
  BY <1>27, CompareAndSetType DEF Recover, ReconcilerDone, GoesOnWithout, Fault, CompareAndSet,
     Touch, TypeOK, DispatchAssumption, AttemptStates, PreSend, WorkerPcs, ReconcilerPcs, CallStates
<1>28. ASSUME GetMarker PROVE TypeOK'
  BY <1>28 DEF GetMarker, ReconcilerDone, TypeOK, ReconcilerPcs
<1>29. ASSUME RenotifyAttempt PROVE TypeOK'
  BY <1>29 DEF RenotifyAttempt, Notify, ReconcilerDone, TypeOK, ReconcilerPcs
<1>30. ASSUME MarkDoubt PROVE TypeOK'
  BY <1>30 DEF MarkDoubt, ReconcilerDone, CompareAndSet, Touch, TypeOK, AttemptStates,
     ReconcilerPcs
<1>31. ASSUME ReconcilerFails PROVE TypeOK'
  BY <1>31 DEF ReconcilerFails, Fault, ReconcilerDone, GoesOnWithout, TypeOK, ReconcilerPcs
<1>32. ASSUME RunGoesIdle PROVE TypeOK'
  BY <1>32 DEF RunGoesIdle, TypeOK
<1>33. ASSUME DeadlinePasses PROVE TypeOK'
  BY <1>33 DEF DeadlinePasses, TypeOK
<1>34. ASSUME SuspendRun PROVE TypeOK'
  BY <1>34 DEF SuspendRun, TypeOK
<1>35. ASSUME ResumeRun PROVE TypeOK'
  BY <1>35 DEF ResumeRun, TypeOK
<1>36. ASSUME EndRun PROVE TypeOK'
  BY <1>36 DEF EndRun, TypeOK
<1>37. ASSUME Tombstone PROVE TypeOK'
  BY <1>37 DEF Tombstone, TypeOK
<1>38. ASSUME VerifyCleanup PROVE TypeOK'
  BY <1>38 DEF VerifyCleanup, TypeOK
<1>39. ASSUME NEW a \in Attempts, PacketExpires(a) PROVE TypeOK'
  BY <1>39 DEF PacketExpires, TypeOK
<1>40. ASSUME NEW a \in Attempts, PruneBody(a) PROVE TypeOK'
  BY <1>40 DEF PruneBody, TypeOK
<1>41. ASSUME NEW a \in Attempts, RedisLeaseExpires(a) PROVE TypeOK'
  BY <1>41 DEF RedisLeaseExpires, TypeOK
<1>42. ASSUME NEW a \in Attempts, MarkerExpires(a) PROVE TypeOK'
  BY <1>42 DEF MarkerExpires, TypeOK
<1>43. ASSUME NEW a \in Attempts, ResultExpires(a) PROVE TypeOK'
  BY <1>43 DEF ResultExpires, TypeOK
<1>44. CASE UNCHANGED vars BY <1>44 DEF vars, TypeOK
<1>. QED
  BY <1>1, <1>2, <1>3, <1>4, <1>5, <1>6, <1>7, <1>8, <1>9, <1>10, <1>11, <1>12, <1>13,
     <1>14, <1>15, <1>16, <1>17, <1>18, <1>19, <1>20, <1>21, <1>22, <1>23, <1>24, <1>25,
     <1>26, <1>27, <1>28, <1>29, <1>30, <1>31, <1>32, <1>33, <1>34, <1>35, <1>36, <1>37,
     <1>38, <1>39, <1>40, <1>41, <1>42, <1>43, <1>44 DEF Next, Publisher, WorkerStep,
     WorkerFault, ReconcilerStep, RunStep, TimeStep

\* The steps of the publisher, the sweeper, the run and the clock, which touch
\* neither an attempt's state nor a worker.
Elsewhere ==
  \/ \E a \in Attempts :
       \/ PublisherClaim(a) \/ PublisherNotify(a) \/ PublisherMark(a)
       \/ PublisherReclaim(a) \/ ReconcileStale(a)
       \/ LeaseExpires(a) \/ LeaseStalls(a)
       \/ RedisLeaseExpires(a) \/ MarkerExpires(a) \/ ResultExpires(a)
       \/ PacketExpires(a) \/ PruneBody(a)
       \/ \E w \in Workers : SkipMessage(w, a)
  \/ RunGoesIdle \/ DeadlinePasses \/ SuspendRun \/ ResumeRun \/ EndRun
  \/ Tombstone \/ VerifyCleanup

\* What those steps leave alone; results they can only erase.
LEMMA ElsewhereFrame ==
  ASSUME Elsewhere
  PROVE  /\ UNCHANGED <<state, token, accepted, pc, job, held, snap, to,
                        rpc, rjob, rsnap, call, sends>>
         /\ results' \subseteq results
BY DEF Elsewhere, PublisherClaim, PublisherNotify, PublisherMark, PublisherReclaim,
   ReconcileStale, LeaseExpires, LeaseStalls, RedisLeaseExpires, MarkerExpires,
   ResultExpires, PacketExpires, PruneBody, SkipMessage, RunGoesIdle, DeadlinePasses,
   SuspendRun, ResumeRun, EndRun, Tombstone, VerifyCleanup, pgVars, runVars, redisVars,
   workerVars, recVars, callVars

\* With prompt reads the lease of a worker that has just claimed is kept.
LEMMA ReadLeaseKept ==
  ASSUME PromptRead = TRUE, TypeOK, Elsewhere, NEW w \in Workers,
         pc[w] = "read", held[w] = token[job[w]], job[w] \in leased
  PROVE  job[w] \in leased'
<1>1. \A a \in Attempts : LeaseExpires(a) => job[w] \in leased'
  BY DEF LeaseExpires, LeaseHolder
<1>2. \A a \in Attempts : LeaseStalls(a) => job[w] \in leased'
  BY DEF LeaseStalls, LeaseHolder
<1>3. CASE UNCHANGED leased BY <1>3
<1>4. QED
  BY <1>1, <1>2, <1>3 DEF Elsewhere, PublisherClaim, PublisherNotify, PublisherMark,
     PublisherReclaim, ReconcileStale, RedisLeaseExpires, MarkerExpires, ResultExpires,
     PacketExpires, PruneBody, SkipMessage, RunGoesIdle, DeadlinePasses, SuspendRun,
     ResumeRun, EndRun, Tombstone, VerifyCleanup, pgVars

\* A step is one of those or one of the worker's and the reconciler's.
LEMMA NextCases ==
  ASSUME [Next]_vars
  PROVE  \/ Elsewhere
         \/ \E a \in Attempts : Reserve(a)
         \/ \E w \in Workers, a \in Attempts : ClaimAttempt(w, a)
         \/ \E w \in Workers : ReadAttempt(w)
         \/ \E w \in Workers : SetLease(w)
         \/ \E w \in Workers : RecordIntent(w)
         \/ \E w \in Workers : MarkSend(w)
         \/ \E w \in Workers : Authorize(w)
         \/ \E w \in Workers : Send(w)
         \/ \E w \in Workers, o \in {"text", "rejected", "uncertain"}, f \in BOOLEAN : ProviderReturns(w, o, f)
         \/ \E w \in Workers : StoreResult(w)
         \/ \E w \in Workers : Settle(w)
         \/ \E w \in Workers : SetLeaseThrows(w)
         \/ \E w \in Workers : StoreThrows(w)
         \/ \E w \in Workers : SettleThrows(w)
         \/ \E w \in Workers : StepThrows(w)
         \/ \E w \in Workers : Crash(w)
         \/ \E a \in Attempts : PickCandidate(a)
         \/ GetResult
         \/ Recover
         \/ GetMarker
         \/ RenotifyAttempt
         \/ MarkDoubt
         \/ ReconcilerFails
         \/ UNCHANGED vars
BY DEF Next, Elsewhere, Publisher, WorkerStep, WorkerFault, ReconcilerStep, RunStep,
   TimeStep

-----------------------------------------------------------------------------
(* The inductive invariant, in the order in which its parts rest on each   *)
(* other.                                                                  *)

\* Two workers on one attempt hold different tokens, none newer than the row's.
Claims ==
  /\ \A w \in Workers : job[w] # None =>
       held[w] <= token[job[w]] /\ state[job[w]] # "none"
  /\ \A v, w \in Workers :
       job[v] # None /\ job[v] = job[w] /\ held[v] = held[w] => v = w
  /\ rjob # None =>
       /\ state[rjob] # "none"
       /\ rsnap \in {"dispatch_intent", "send_authorized", "outcome_unknown"}

\* Worker w has been authorised to send a and has not settled it yet.
Sender(w, a) == job[w] = a /\ pc[w] \in {"send", "await", "store"}

\* A call exists only past authorizeAttempt, for one sender at a time.
Calls ==
  \A a \in Attempts :
    /\ state[a] \in PreSend \cup {"none"} =>
         /\ call[a] = "none" /\ sends[a] = 0
         /\ \A w \in Workers : ~Sender(w, a)
    /\ \A v, w \in Workers : Sender(v, a) /\ Sender(w, a) => v = w
    /\ \A w \in Workers : Sender(w, a) =>
         /\ pc[w] = "send" => call[a] = "none" /\ sends[a] = 0
         /\ pc[w] = "await" => call[a] = "inflight"
         /\ pc[w] = "store" => call[a] = "text"
    /\ sends[a] <= 1

\* Whoever is about to record a success has an answer to record.
Answers ==
  /\ \A w \in Workers :
       /\ to[w] \notin {"queued", "dispatch_intent", "send_authorized"}
       /\ pc[w] = "settle" /\ to[w] \in {"succeeded", "result_unavailable"} =>
            snap[w] = "send_authorized" /\ call[job[w]] = "text"
  /\ \A a \in results : call[a] = "text"
  /\ rpc = "recover" => call[rjob] = "text"

\* With prompt reads, a worker that releases an attempt it believes authorised
\* is the one whose call the provider refused.
Releases ==
  /\ \A w \in Workers :
       /\ pc[w] = "read" =>
            /\ held[w] = token[job[w]] /\ job[w] \in leased
            /\ state[job[w]] # "send_authorized"
       /\ pc[w] = "lease" => snap[w] # "send_authorized"
       /\ pc[w] = "settle" /\ snap[w] = "send_authorized" /\ to[w] = "fallback_allowed" =>
            call[job[w]] = "rejected"
  /\ ReleasedUnsent

\* Steps that make no sender and no call keep Calls.
LEMMA CallsKept ==
  ASSUME Calls, UNCHANGED <<call, sends>>,
         \A a \in Attempts :
           state'[a] \in PreSend \cup {"none"} => state[a] \in PreSend \cup {"none"},
         \A a \in Attempts, w \in Workers :
           Sender(w, a)' => Sender(w, a) /\ pc'[w] = pc[w]
  PROVE  Calls'
BY DEF Calls


\* Every step keeps Claims: a claim hands out a token that nobody holds yet.
LEMMA ClaimsStep ==
  ASSUME DispatchAssumption, TypeOK, TypeOK', Claims, [Next]_vars
  PROVE  Claims'
<1> USE DEF pgVars, runVars, redisVars, workerVars, recVars, callVars
<1>1. CASE Elsewhere BY <1>1, ElsewhereFrame DEF Claims, TypeOK
<1>2. ASSUME NEW a \in Attempts, Reserve(a) PROVE Claims'
  BY <1>2 DEF Reserve, Claims, TypeOK
<1>3. ASSUME NEW w \in Workers, NEW a \in Attempts, ClaimAttempt(w, a) PROVE Claims'
  BY <1>3 DEF ClaimAttempt, Claimable, Claims, TypeOK, PreSend
<1>4. ASSUME NEW w \in Workers, ReadAttempt(w) PROVE Claims'
  BY <1>4, SuccessorsFacts DEF ReadAttempt, GoTo, GoSettle, Finish, Claims, TypeOK,
     PreSend
<1>5. ASSUME NEW w \in Workers, SetLease(w) PROVE Claims'
  BY <1>5 DEF SetLease, GoTo, GoSettle, CheckProvider, Claims, TypeOK
<1>6. ASSUME NEW w \in Workers, RecordIntent(w) PROVE Claims'
  BY <1>6, SuccessorsFacts DEF RecordIntent, Finish, CheckProvider, CompareAndSet, GoTo,
     GoSettle, Claims, TypeOK
<1>7. ASSUME NEW w \in Workers, MarkSend(w) PROVE Claims'
  BY <1>7 DEF MarkSend, GoTo, GoSettle, Claims, TypeOK
<1>8. ASSUME NEW w \in Workers, Authorize(w) PROVE Claims'
  BY <1>8 DEF Authorize, GoTo, GoSettle, Authorizable, Claims, TypeOK
<1>9. ASSUME NEW w \in Workers, Send(w) PROVE Claims'
  BY <1>9 DEF Send, GoTo, Claims, TypeOK
<1>10. ASSUME NEW w \in Workers,
        NEW o \in {"text", "rejected", "uncertain"}, NEW f \in BOOLEAN,
        ProviderReturns(w, o, f) PROVE Claims'
  BY <1>10 DEF ProviderReturns, GoTo, GoSettle, Refused, Claims, TypeOK
<1>11. ASSUME NEW w \in Workers, StoreResult(w) PROVE Claims'
  BY <1>11 DEF StoreResult, GoSettle, ChildAllowed, Claims, TypeOK
<1>12. ASSUME NEW w \in Workers, Settle(w) PROVE Claims'
  <2>1. job[w] \in Attempts BY <1>12 DEF Settle, TypeOK
  <2>2. \A b \in Attempts : state[b] # "none" => state'[b] # "none"
    BY <1>12, <2>1, NoReturn DEF Settle, TypeOK
  <2>3. QED BY <1>12, <2>2 DEF Settle, Finish, Claims, TypeOK
<1>13. ASSUME NEW w \in Workers, SetLeaseThrows(w) PROVE Claims'
  BY <1>13 DEF SetLeaseThrows, GoSettle, Fault, Claims, TypeOK
<1>14. ASSUME NEW w \in Workers, StoreThrows(w) PROVE Claims'
  BY <1>14 DEF StoreThrows, GoSettle, Fault, ChildAllowed, Claims, TypeOK
<1>15. ASSUME NEW w \in Workers, SettleThrows(w) PROVE Claims'
  BY <1>15 DEF SettleThrows, GoSettle, Fault, Claims, TypeOK
<1>16. ASSUME NEW w \in Workers, StepThrows(w) PROVE Claims'
  BY <1>16 DEF StepThrows, Finish, Fault, Claims, TypeOK
<1>17. ASSUME NEW w \in Workers, Crash(w) PROVE Claims'
  BY <1>17 DEF Crash, Finish, Fault, Claims, TypeOK
<1>18. ASSUME NEW a \in Attempts, PickCandidate(a) PROVE Claims'
  BY <1>18 DEF PickCandidate, Candidate, Claims, TypeOK
<1>19. ASSUME GetResult PROVE Claims'
  BY <1>19 DEF GetResult, HasResult, Claims, TypeOK
<1>20. ASSUME Recover PROVE Claims'
  BY <1>20 DEF Recover, ReconcilerDone, GoesOnWithout, Fault, CompareAndSet, Claims, TypeOK
<1>21. ASSUME GetMarker PROVE Claims'
  BY <1>21 DEF GetMarker, ReconcilerDone, Claims, TypeOK
<1>22. ASSUME RenotifyAttempt PROVE Claims'
  BY <1>22 DEF RenotifyAttempt, Notify, ReconcilerDone, Claims, TypeOK
<1>23. ASSUME MarkDoubt PROVE Claims'
  BY <1>23 DEF MarkDoubt, ReconcilerDone, CompareAndSet, Claims, TypeOK
<1>24. ASSUME ReconcilerFails PROVE Claims'
  BY <1>24 DEF ReconcilerFails, Fault, ReconcilerDone, GoesOnWithout, Claims, TypeOK
<1>25. CASE UNCHANGED vars BY <1>25 DEF vars, Claims, TypeOK
<1>. QED
  BY <1>1, <1>2, <1>3, <1>4, <1>5, <1>6, <1>7, <1>8, <1>9, <1>10, <1>11, <1>12, <1>13,
     <1>14, <1>15, <1>16, <1>17, <1>18, <1>19, <1>20, <1>21, <1>22, <1>23, <1>24, <1>25,
     NextCases

\* Every step keeps Calls: authorizeAttempt makes at most one sender, and only
\* from a state in which no call exists.
LEMMA CallsStep ==
  ASSUME DispatchAssumption, TypeOK, TypeOK', Claims, Calls, [Next]_vars
  PROVE  Calls'
<1> USE DEF pgVars, runVars, redisVars, workerVars, recVars, callVars
<1>1. CASE Elsewhere BY <1>1, ElsewhereFrame DEF Calls, Sender, TypeOK
<1>2. ASSUME NEW a \in Attempts, Reserve(a) PROVE Calls'
  BY <1>2 DEF Reserve, Calls, Sender, TypeOK
<1>3. ASSUME NEW w \in Workers, NEW a \in Attempts, ClaimAttempt(w, a) PROVE Calls'
  BY <1>3 DEF ClaimAttempt, Calls, Sender, TypeOK
<1>4. ASSUME NEW w \in Workers, ReadAttempt(w) PROVE Calls'
  <2>1. job[w] \in Attempts BY <1>4 DEF ReadAttempt, TypeOK
  <2>2. \A a \in Attempts :
          state'[a] \in PreSend \cup {"none"} => state[a] \in PreSend \cup {"none"}
    BY <1>4 DEF ReadAttempt
  <2>3. \A a \in Attempts, v \in Workers : Sender(v, a)' => Sender(v, a) /\ pc'[v] = pc[v]
    BY <1>4 DEF ReadAttempt, Finish, GoSettle, GoTo, Sender, TypeOK
  <2>4. QED BY <1>4, <2>2, <2>3, CallsKept DEF ReadAttempt
<1>5. ASSUME NEW w \in Workers, SetLease(w) PROVE Calls'
  <2>1. UNCHANGED <<state, call, sends>> BY <1>5 DEF SetLease
  <2>2. \A a \in Attempts, v \in Workers : Sender(v, a)' => Sender(v, a) /\ pc'[v] = pc[v]
    BY <1>5 DEF SetLease, CheckProvider, GoSettle, GoTo, Sender, TypeOK
  <2>3. QED BY <2>1, <2>2, CallsKept
<1>6. ASSUME NEW w \in Workers, RecordIntent(w) PROVE Calls'
  <2>1. job[w] \in Attempts BY <1>6 DEF RecordIntent, TypeOK
  <2>2. \A a \in Attempts :
          state'[a] \in PreSend \cup {"none"} => state[a] \in PreSend \cup {"none"}
    BY <1>6, <2>1, NoReturn DEF RecordIntent, AttemptStates, PreSend
  <2>3. \A a \in Attempts, v \in Workers : Sender(v, a)' => Sender(v, a) /\ pc'[v] = pc[v]
    BY <1>6 DEF RecordIntent, CheckProvider, Finish, GoSettle, GoTo, Sender, TypeOK
  <2>4. QED BY <1>6, <2>2, <2>3, CallsKept DEF RecordIntent
<1>7. ASSUME NEW w \in Workers, MarkSend(w) PROVE Calls'
  <2>1. job[w] \in Attempts BY <1>7 DEF MarkSend, TypeOK
  <2>2. \A a \in Attempts :
          state'[a] \in PreSend \cup {"none"} => state[a] \in PreSend \cup {"none"}
    BY <1>7 DEF MarkSend
  <2>3. \A a \in Attempts, v \in Workers : Sender(v, a)' => Sender(v, a) /\ pc'[v] = pc[v]
    BY <1>7 DEF MarkSend, GoSettle, GoTo, Sender, TypeOK
  <2>4. QED BY <1>7, <2>2, <2>3, CallsKept DEF MarkSend
<1>8. ASSUME NEW w \in Workers, Authorize(w) PROVE Calls'
  <2> DEFINE j == job[w]
  <2>1. j \in Attempts BY <1>8 DEF Authorize, Authorizable, TypeOK
  <2>2. CASE state' = state
    <3>1. \A a \in Attempts, v \in Workers : Sender(v, a)' => Sender(v, a) /\ pc'[v] = pc[v]
      BY <1>8, <2>1, <2>2 DEF Authorize, Authorizable, GoSettle, Sender, TypeOK
    <3>2. QED BY <1>8, <2>2, <3>1, CallsKept DEF Authorize, Authorizable
  <2>3. CASE /\ state[j] = "dispatch_intent"
             /\ state' = [state EXCEPT ![j] = "send_authorized"]
             /\ GoTo(w, "send", "send_authorized")
    <3>1. \A v \in Workers : ~Sender(v, j) /\ call[j] = "none" /\ sends[j] = 0
      BY <2>1, <2>3 DEF Calls, PreSend
    <3>2. \A a \in Attempts, v \in Workers :
            Sender(v, a)' => (Sender(v, a) /\ v # w /\ pc'[v] = pc[v])
                             \/ (v = w /\ a = j /\ pc'[v] = "send")
      BY <2>1, <2>3 DEF GoTo, Sender, TypeOK
    <3>3. UNCHANGED <<call, sends>> BY <1>8 DEF Authorize, Authorizable
    <3>4. QED BY <2>1, <2>3, <3>1, <3>2, <3>3 DEF Calls, PreSend, TypeOK
  <2>4. QED BY <1>8, <2>2, <2>3 DEF Authorize, Authorizable
<1>9. ASSUME NEW w \in Workers, Send(w) PROVE Calls'
  BY <1>9 DEF Send, GoTo, Calls, Sender, TypeOK
<1>10. ASSUME NEW w \in Workers,
        NEW o \in {"text", "rejected", "uncertain"}, NEW f \in BOOLEAN,
        ProviderReturns(w, o, f) PROVE Calls'
  <2> DEFINE j == job[w]
  <2>1. j \in Attempts BY <1>10 DEF ProviderReturns, Refused, TypeOK
  <2>2. Sender(w, j) /\ pc[w] = "await" BY <1>10 DEF ProviderReturns, Refused, Sender
  <2>3. state[j] \notin PreSend \cup {"none"} BY <2>1, <2>2 DEF Calls
  <2>4. \A a \in Attempts, v \in Workers :
          Sender(v, a)' => \/ Sender(v, a) /\ v # w /\ a # j /\ pc'[v] = pc[v]
                           \/ v = w /\ a = j /\ pc'[v] = "store" /\ call'[a] = "text"
    <3>1. \A v \in Workers \ {w} : pc'[v] = pc[v] /\ job'[v] = job[v]
      BY <1>10 DEF ProviderReturns, Refused, GoTo, GoSettle, TypeOK
    <3>2. job' = job /\ (pc'[w] = "settle" \/ (pc'[w] = "store" /\ call'[j] = "text"))
      BY <1>10, <2>1 DEF ProviderReturns, Refused, GoTo, GoSettle, TypeOK
    <3>3. \A v \in Workers : Sender(v, j) => v = w BY <2>1, <2>2 DEF Calls
    <3>4. QED BY <3>1, <3>2, <3>3 DEF Sender
  <2>5. UNCHANGED <<state, sends>> BY <1>10 DEF ProviderReturns, Refused
  <2>6. \A a \in Attempts \ {j} : call'[a] = call[a]
    BY <1>10 DEF ProviderReturns, Refused, TypeOK
  <2>7. QED BY <2>3, <2>4, <2>5, <2>6 DEF Calls
<1>11. ASSUME NEW w \in Workers, StoreResult(w) PROVE Calls'
  <2>1. job[w] \in Attempts BY <1>11 DEF StoreResult, ChildAllowed, TypeOK
  <2>2. \A a \in Attempts :
          state'[a] \in PreSend \cup {"none"} => state[a] \in PreSend \cup {"none"}
    BY <1>11 DEF StoreResult, ChildAllowed
  <2>3. \A a \in Attempts, v \in Workers : Sender(v, a)' => Sender(v, a) /\ pc'[v] = pc[v]
    BY <1>11 DEF StoreResult, ChildAllowed, GoSettle, Sender, TypeOK
  <2>4. QED BY <1>11, <2>2, <2>3, CallsKept DEF StoreResult, ChildAllowed
<1>12. ASSUME NEW w \in Workers, Settle(w) PROVE Calls'
  <2>1. job[w] \in Attempts BY <1>12 DEF Settle, TypeOK
  <2>2. \A a \in Attempts :
          state'[a] \in PreSend \cup {"none"} => state[a] \in PreSend \cup {"none"}
    BY <1>12, <2>1, NoReturn DEF Settle, TypeOK
  <2>3. \A a \in Attempts, v \in Workers : Sender(v, a)' => Sender(v, a) /\ pc'[v] = pc[v]
    BY <1>12 DEF Settle, Finish, Sender, TypeOK
  <2>4. QED BY <1>12, <2>2, <2>3, CallsKept DEF Settle
<1>13. ASSUME NEW w \in Workers, SetLeaseThrows(w) PROVE Calls'
  BY <1>13 DEF SetLeaseThrows, GoSettle, Fault, Calls, Sender, TypeOK
<1>14. ASSUME NEW w \in Workers, StoreThrows(w) PROVE Calls'
  BY <1>14 DEF StoreThrows, GoSettle, Fault, ChildAllowed, Calls, Sender, TypeOK
<1>15. ASSUME NEW w \in Workers, SettleThrows(w) PROVE Calls'
  BY <1>15 DEF SettleThrows, GoSettle, Fault, Calls, Sender, TypeOK
<1>16. ASSUME NEW w \in Workers, StepThrows(w) PROVE Calls'
  BY <1>16 DEF StepThrows, Finish, Fault, Calls, Sender, TypeOK
<1>17. ASSUME NEW w \in Workers, Crash(w) PROVE Calls'
  BY <1>17 DEF Crash, Finish, Fault, Calls, Sender, TypeOK
<1>18. ASSUME NEW a \in Attempts, PickCandidate(a) PROVE Calls'
  BY <1>18 DEF PickCandidate, Candidate, Calls, Sender, TypeOK
<1>19. ASSUME GetResult PROVE Calls'
  BY <1>19 DEF GetResult, HasResult, Calls, Sender, TypeOK
<1>20. ASSUME Recover PROVE Calls'
  BY <1>20 DEF Recover, ReconcilerDone, GoesOnWithout, Fault, CompareAndSet, Calls, Sender,
     TypeOK, PreSend
<1>21. ASSUME GetMarker PROVE Calls'
  BY <1>21 DEF GetMarker, ReconcilerDone, Calls, Sender, TypeOK
<1>22. ASSUME RenotifyAttempt PROVE Calls'
  BY <1>22 DEF RenotifyAttempt, Notify, ReconcilerDone, Calls, Sender, TypeOK
<1>23. ASSUME MarkDoubt PROVE Calls'
  BY <1>23 DEF MarkDoubt, ReconcilerDone, CompareAndSet, Calls, Sender, TypeOK, PreSend
<1>24. ASSUME ReconcilerFails PROVE Calls'
  BY <1>24 DEF ReconcilerFails, Fault, ReconcilerDone, GoesOnWithout, Calls, Sender, TypeOK
<1>25. CASE UNCHANGED vars BY <1>25 DEF vars, Calls, Sender, TypeOK
<1>. QED
  BY <1>1, <1>2, <1>3, <1>4, <1>5, <1>6, <1>7, <1>8, <1>9, <1>10, <1>11, <1>12, <1>13,
     <1>14, <1>15, <1>16, <1>17, <1>18, <1>19, <1>20, <1>21, <1>22, <1>23, <1>24, <1>25,
     NextCases

\* Every step keeps Answers: only a worker whose call returned a valid text, or
\* a reconciler that found a saved result, comes to record a success.
LEMMA AnswersStep ==
  ASSUME DispatchAssumption, TypeOK, TypeOK', Claims, Calls, Answers, [Next]_vars
  PROVE  Answers'
<1> USE DEF pgVars, runVars, redisVars, workerVars, recVars, callVars
<1>1. CASE Elsewhere BY <1>1, ElsewhereFrame DEF Answers, TypeOK
<1>2. ASSUME NEW a \in Attempts, Reserve(a) PROVE Answers'
  BY <1>2 DEF Reserve, Answers, TypeOK
<1>3. ASSUME NEW w \in Workers, NEW a \in Attempts, ClaimAttempt(w, a) PROVE Answers'
  BY <1>3 DEF ClaimAttempt, Answers, TypeOK
<1>4. ASSUME NEW w \in Workers, ReadAttempt(w) PROVE Answers'
  BY <1>4 DEF ReadAttempt, GoTo, GoSettle, Finish, Answers, TypeOK
<1>5. ASSUME NEW w \in Workers, SetLease(w) PROVE Answers'
  BY <1>5 DEF SetLease, GoTo, GoSettle, CheckProvider, Answers, TypeOK
<1>6. ASSUME NEW w \in Workers, RecordIntent(w) PROVE Answers'
  BY <1>6 DEF RecordIntent, Finish, CheckProvider, CompareAndSet, GoTo, GoSettle, Answers,
     TypeOK
<1>7. ASSUME NEW w \in Workers, MarkSend(w) PROVE Answers'
  BY <1>7 DEF MarkSend, GoTo, GoSettle, Answers, TypeOK
<1>8. ASSUME NEW w \in Workers, Authorize(w) PROVE Answers'
  BY <1>8 DEF Authorize, GoTo, GoSettle, Authorizable, Answers, TypeOK
<1>9. ASSUME NEW w \in Workers, Send(w) PROVE Answers'
  BY <1>9 DEF Send, GoTo, Calls, Sender, Answers, TypeOK
<1>10. ASSUME NEW w \in Workers,
        NEW o \in {"text", "rejected", "uncertain"}, NEW f \in BOOLEAN,
        ProviderReturns(w, o, f) PROVE Answers'
  <2> DEFINE j == job[w]
  <2>1. j \in Attempts BY <1>10 DEF ProviderReturns, Refused, TypeOK
  <2>2. call[j] = "inflight" BY <1>10, <2>1 DEF ProviderReturns, Refused, Calls, Sender
  <2>3. \A a \in Attempts : call[a] = "text" => call'[a] = "text"
    BY <1>10, <2>1, <2>2 DEF ProviderReturns, Refused, TypeOK
  <2>4. \A v \in Workers \ {w} :
          pc'[v] = pc[v] /\ job'[v] = job[v] /\ to'[v] = to[v] /\ snap'[v] = snap[v]
    BY <1>10 DEF ProviderReturns, Refused, GoTo, GoSettle, TypeOK
  <2>5. \/ pc'[w] = "settle" /\ to'[w] \in {"outcome_unknown", "fallback_allowed"}
        \/ pc'[w] = "store" /\ to'[w] = to[w]
    BY <1>10 DEF ProviderReturns, Refused, GoTo, GoSettle, TypeOK
  <2>6. UNCHANGED <<results, rpc, rjob>> BY <1>10 DEF ProviderReturns, Refused
  <2>7. \A v \in Workers : pc[v] = "settle" => job[v] \in Attempts BY DEF TypeOK
  <2>8. rpc = "recover" => rjob \in Attempts BY DEF TypeOK
  <2>9. QED BY <2>3, <2>4, <2>5, <2>6, <2>7, <2>8 DEF Answers, TypeOK
<1>11. ASSUME NEW w \in Workers, StoreResult(w) PROVE Answers'
  BY <1>11 DEF StoreResult, GoSettle, ChildAllowed, Calls, Sender, Answers, TypeOK
<1>12. ASSUME NEW w \in Workers, Settle(w) PROVE Answers'
  BY <1>12 DEF Settle, Finish, CompareAndSet, Answers, TypeOK
<1>13. ASSUME NEW w \in Workers, SetLeaseThrows(w) PROVE Answers'
  BY <1>13 DEF SetLeaseThrows, GoSettle, Fault, Answers, TypeOK
<1>14. ASSUME NEW w \in Workers, StoreThrows(w) PROVE Answers'
  BY <1>14 DEF StoreThrows, GoSettle, Fault, ChildAllowed, Calls, Sender, Answers, TypeOK
<1>15. ASSUME NEW w \in Workers, SettleThrows(w) PROVE Answers'
  BY <1>15 DEF SettleThrows, GoSettle, Fault, Answers, TypeOK
<1>16. ASSUME NEW w \in Workers, StepThrows(w) PROVE Answers'
  BY <1>16 DEF StepThrows, Finish, Fault, Answers, TypeOK
<1>17. ASSUME NEW w \in Workers, Crash(w) PROVE Answers'
  BY <1>17 DEF Crash, Finish, Fault, Answers, TypeOK
<1>18. ASSUME NEW a \in Attempts, PickCandidate(a) PROVE Answers'
  BY <1>18 DEF PickCandidate, Candidate, Answers, TypeOK
<1>19. ASSUME GetResult PROVE Answers'
  BY <1>19 DEF GetResult, HasResult, Answers, TypeOK
<1>20. ASSUME Recover PROVE Answers'
  BY <1>20 DEF Recover, ReconcilerDone, GoesOnWithout, Fault, CompareAndSet, Answers, TypeOK
<1>21. ASSUME GetMarker PROVE Answers'
  BY <1>21 DEF GetMarker, ReconcilerDone, Answers, TypeOK
<1>22. ASSUME RenotifyAttempt PROVE Answers'
  BY <1>22 DEF RenotifyAttempt, Notify, ReconcilerDone, Answers, TypeOK
<1>23. ASSUME MarkDoubt PROVE Answers'
  BY <1>23 DEF MarkDoubt, ReconcilerDone, CompareAndSet, Answers, TypeOK
<1>24. ASSUME ReconcilerFails PROVE Answers'
  BY <1>24 DEF ReconcilerFails, Fault, ReconcilerDone, GoesOnWithout, Answers, TypeOK
<1>25. CASE UNCHANGED vars BY <1>25 DEF vars, Answers, TypeOK
<1>. QED
  BY <1>1, <1>2, <1>3, <1>4, <1>5, <1>6, <1>7, <1>8, <1>9, <1>10, <1>11, <1>12, <1>13,
     <1>14, <1>15, <1>16, <1>17, <1>18, <1>19, <1>20, <1>21, <1>22, <1>23, <1>24, <1>25,
     NextCases

\* Every step keeps AcceptedAnswered; the steps that matter are the two that
\* record a success, the worker's Settle and the reconciler's Recover.
LEMMA AcceptedStep ==
  ASSUME DispatchAssumption, TypeOK, TypeOK', Claims, Calls, Answers, AcceptedAnswered,
         [Next]_vars
  PROVE  AcceptedAnswered'
<1> USE DEF pgVars, runVars, redisVars, workerVars, recVars, callVars
<1>1. CASE Elsewhere BY <1>1, ElsewhereFrame DEF AcceptedAnswered, TypeOK
<1>2. ASSUME NEW a \in Attempts, Reserve(a) PROVE AcceptedAnswered'
  BY <1>2 DEF Reserve, AcceptedAnswered, TypeOK
<1>3. ASSUME NEW w \in Workers, NEW a \in Attempts, ClaimAttempt(w, a) PROVE AcceptedAnswered'
  BY <1>3 DEF ClaimAttempt, AcceptedAnswered, TypeOK
<1>4. ASSUME NEW w \in Workers, ReadAttempt(w) PROVE AcceptedAnswered'
  BY <1>4 DEF ReadAttempt, Finish, AcceptedAnswered, TypeOK
<1>5. ASSUME NEW w \in Workers, SetLease(w) PROVE AcceptedAnswered'
  BY <1>5 DEF SetLease, AcceptedAnswered, TypeOK
<1>6. ASSUME NEW w \in Workers, RecordIntent(w) PROVE AcceptedAnswered'
  BY <1>6 DEF RecordIntent, Finish, CompareAndSet, AcceptedAnswered, TypeOK
<1>7. ASSUME NEW w \in Workers, MarkSend(w) PROVE AcceptedAnswered'
  BY <1>7 DEF MarkSend, AcceptedAnswered, TypeOK
<1>8. ASSUME NEW w \in Workers, Authorize(w) PROVE AcceptedAnswered'
  BY <1>8 DEF Authorize, Authorizable, AcceptedAnswered, TypeOK
<1>9. ASSUME NEW w \in Workers, Send(w) PROVE AcceptedAnswered'
  BY <1>9 DEF Send, Calls, Sender, AcceptedAnswered, TypeOK
<1>10. ASSUME NEW w \in Workers,
        NEW o \in {"text", "rejected", "uncertain"}, NEW f \in BOOLEAN,
        ProviderReturns(w, o, f) PROVE AcceptedAnswered'
  BY <1>10 DEF ProviderReturns, Refused, Calls, Sender, AcceptedAnswered, TypeOK
<1>11. ASSUME NEW w \in Workers, StoreResult(w) PROVE AcceptedAnswered'
  BY <1>11 DEF StoreResult, ChildAllowed, AcceptedAnswered, TypeOK
<1>12. ASSUME NEW w \in Workers, Settle(w) PROVE AcceptedAnswered'
  <2> DEFINE j == job[w]
  <2>1. j \in Attempts /\ to[w] \in AttemptStates \cup {"none"}
        /\ snap[w] \in AttemptStates \cup {"none"}
    BY <1>12 DEF Settle, TypeOK
  <2>2. UNCHANGED call BY <1>12 DEF Settle
  <2>3. CompareAndSet(j, snap[w], to[w]) BY <1>12 DEF Settle
  <2>4. CASE UNCHANGED <<state, accepted>> BY <2>2, <2>4 DEF AcceptedAnswered
  <2>5. CASE /\ state[j] = snap[w] /\ to[w] \in Successors[snap[w]]
             /\ state' = [state EXCEPT ![j] = to[w]]
             /\ to[w] = "succeeded"
             /\ accepted' = [accepted EXCEPT ![ExecutionOf[j]] = j]
    <3>1. call[j] = "text" BY <1>12, <2>5 DEF Settle, Answers
    <3>2. QED BY <2>1, <2>2, <2>5, <3>1 DEF AcceptedAnswered, TypeOK
  <2>6. CASE /\ state[j] = snap[w] /\ to[w] \in Successors[snap[w]]
             /\ state' = [state EXCEPT ![j] = to[w]]
             /\ to[w] # "succeeded"
             /\ accepted' = accepted
    <3>1. state[j] # "succeeded" BY <2>1, <2>6, SuccessorsFacts DEF Settled
    <3>2. QED BY <2>1, <2>2, <2>6, <3>1 DEF AcceptedAnswered, TypeOK
  <2>7. QED BY <2>1, <2>3, <2>4, <2>5, <2>6, CompareAndSetEffect
<1>13. ASSUME NEW w \in Workers, SetLeaseThrows(w) PROVE AcceptedAnswered'
  BY <1>13 DEF SetLeaseThrows, Fault, AcceptedAnswered, TypeOK
<1>14. ASSUME NEW w \in Workers, StoreThrows(w) PROVE AcceptedAnswered'
  BY <1>14 DEF StoreThrows, Fault, ChildAllowed, AcceptedAnswered, TypeOK
<1>15. ASSUME NEW w \in Workers, SettleThrows(w) PROVE AcceptedAnswered'
  BY <1>15 DEF SettleThrows, Fault, AcceptedAnswered, TypeOK
<1>16. ASSUME NEW w \in Workers, StepThrows(w) PROVE AcceptedAnswered'
  BY <1>16 DEF StepThrows, Finish, Fault, AcceptedAnswered, TypeOK
<1>17. ASSUME NEW w \in Workers, Crash(w) PROVE AcceptedAnswered'
  BY <1>17 DEF Crash, Finish, Fault, AcceptedAnswered, TypeOK
<1>18. ASSUME NEW a \in Attempts, PickCandidate(a) PROVE AcceptedAnswered'
  BY <1>18 DEF PickCandidate, Candidate, AcceptedAnswered, TypeOK
<1>19. ASSUME GetResult PROVE AcceptedAnswered'
  BY <1>19 DEF GetResult, HasResult, AcceptedAnswered, TypeOK
<1>20. ASSUME Recover PROVE AcceptedAnswered'
  BY <1>20 DEF Recover, ReconcilerDone, GoesOnWithout, Fault, CompareAndSet, Claims, Answers, AcceptedAnswered,
     TypeOK
<1>21. ASSUME GetMarker PROVE AcceptedAnswered'
  BY <1>21 DEF GetMarker, ReconcilerDone, AcceptedAnswered, TypeOK
<1>22. ASSUME RenotifyAttempt PROVE AcceptedAnswered'
  BY <1>22 DEF RenotifyAttempt, Notify, ReconcilerDone, AcceptedAnswered, TypeOK
<1>23. ASSUME MarkDoubt PROVE AcceptedAnswered'
  BY <1>23 DEF MarkDoubt, ReconcilerDone, CompareAndSet, Claims, AcceptedAnswered, TypeOK
<1>24. ASSUME ReconcilerFails PROVE AcceptedAnswered'
  BY <1>24 DEF ReconcilerFails, Fault, ReconcilerDone, GoesOnWithout, AcceptedAnswered, TypeOK
<1>25. CASE UNCHANGED vars BY <1>25 DEF vars, AcceptedAnswered, TypeOK
<1>. QED
  BY <1>1, <1>2, <1>3, <1>4, <1>5, <1>6, <1>7, <1>8, <1>9, <1>10, <1>11, <1>12, <1>13,
     <1>14, <1>15, <1>16, <1>17, <1>18, <1>19, <1>20, <1>21, <1>22, <1>23, <1>24, <1>25,
     NextCases

\* With prompt reads every step keeps Releases: a worker reads its attempt while
\* its lease lasts, so nobody else has authorised a send in between.
LEMMA ReleasesStep ==
  ASSUME DispatchAssumption, PromptRead = TRUE, TypeOK, TypeOK', Claims, Calls, Answers,
         Releases, [Next]_vars
  PROVE  Releases'
<1> USE DEF pgVars, runVars, redisVars, workerVars, recVars, callVars
<1>1. CASE Elsewhere
  <2>1. UNCHANGED <<state, token, pc, job, held, snap, to, call>> BY <1>1, ElsewhereFrame
  <2>2. \A w \in Workers : pc[w] = "read" => job[w] \in leased'
    BY <1>1, ReadLeaseKept DEF Releases
  <2>3. QED BY <2>1, <2>2 DEF Releases, ReleasedUnsent
<1>2. ASSUME NEW a \in Attempts, Reserve(a) PROVE Releases'
  BY <1>2 DEF Reserve, Releases, ReleasedUnsent, TypeOK
<1>3. ASSUME NEW w \in Workers, NEW a \in Attempts, ClaimAttempt(w, a) PROVE Releases'
  BY <1>3 DEF ClaimAttempt, Claimable, Releases, ReleasedUnsent, TypeOK, PreSend
<1>4. ASSUME NEW w \in Workers, ReadAttempt(w) PROVE Releases'
  <2> DEFINE j == job[w]
  <2>1. j \in Attempts BY <1>4 DEF ReadAttempt, TypeOK
  <2>2. state[j] # "send_authorized" BY <1>4 DEF ReadAttempt, Releases
  <2>3. UNCHANGED <<state, token, leased, call>>
    BY <1>4 DEF ReadAttempt
  <2>4. \A v \in Workers \ {w} :
          pc'[v] = pc[v] /\ job'[v] = job[v] /\ held'[v] = held[v]
          /\ snap'[v] = snap[v] /\ to'[v] = to[v]
    BY <1>4 DEF ReadAttempt, Finish, GoTo, GoSettle, TypeOK
  <2>5. /\ pc'[w] \in {"idle", "lease", "settle"}
        /\ pc'[w] \in {"lease", "settle"} => snap'[w] # "send_authorized"
    BY <1>4, <2>1, <2>2 DEF ReadAttempt, Finish, GoTo, GoSettle, TypeOK
  <2>6. QED BY <2>3, <2>4, <2>5 DEF Releases, ReleasedUnsent
<1>5. ASSUME NEW w \in Workers, SetLease(w) PROVE Releases'
  <2>2. snap[w] # "send_authorized" BY <1>5 DEF SetLease, Releases
  <2>3. UNCHANGED <<state, token, leased, call>>
    BY <1>5 DEF SetLease
  <2>4. \A v \in Workers \ {w} :
          pc'[v] = pc[v] /\ job'[v] = job[v] /\ held'[v] = held[v]
          /\ snap'[v] = snap[v] /\ to'[v] = to[v]
    BY <1>5 DEF SetLease, Finish, GoTo, GoSettle, CheckProvider, TypeOK
  <2>5. /\ pc'[w] \in {"intent", "markRedis", "settle"}
        /\ snap'[w] # "send_authorized"
    BY <1>5, <2>2 DEF SetLease, CheckProvider, GoTo, GoSettle, TypeOK
  <2>6. QED BY <2>3, <2>4, <2>5 DEF Releases, ReleasedUnsent
<1>6. ASSUME NEW w \in Workers, RecordIntent(w) PROVE Releases'
  BY <1>6 DEF RecordIntent, Finish, CheckProvider, CompareAndSet, GoTo, GoSettle,
     Releases, ReleasedUnsent, TypeOK
<1>7. ASSUME NEW w \in Workers, MarkSend(w) PROVE Releases'
  BY <1>7 DEF MarkSend, GoTo, GoSettle, Releases, ReleasedUnsent, TypeOK
<1>8. ASSUME NEW w \in Workers, Authorize(w) PROVE Releases'
  <2> DEFINE j == job[w]
  <2>1. j \in Attempts BY <1>8 DEF Authorize, Authorizable, TypeOK
  <2>3. UNCHANGED <<token, leased, call>> BY <1>8 DEF Authorize, Authorizable
  <2>4. \A v \in Workers \ {w} :
          pc'[v] = pc[v] /\ job'[v] = job[v] /\ held'[v] = held[v]
          /\ snap'[v] = snap[v] /\ to'[v] = to[v]
    BY <1>8 DEF Authorize, Authorizable, Finish, GoTo, GoSettle, TypeOK
  <2>5. job'[w] = j BY <1>8 DEF Authorize, Authorizable, GoTo, GoSettle
  <2>6. CASE state' = state /\ GoSettle(w, "dispatch_intent", "outcome_unknown")
    <3>1. pc'[w] = "settle" /\ to'[w] = "outcome_unknown" BY <2>6 DEF GoSettle, TypeOK
    <3>2. QED BY <2>3, <2>4, <2>5, <2>6, <3>1 DEF Releases, ReleasedUnsent
  <2>7. CASE /\ token[j] = held[w]
             /\ state' = [state EXCEPT ![j] = "send_authorized"]
             /\ GoTo(w, "send", "send_authorized")
    <3>1. pc'[w] = "send" BY <2>7 DEF GoTo, TypeOK
    <3>2. \A v \in Workers \ {w} : pc[v] = "read" => job[v] # j
      BY <2>1, <2>7 DEF Releases, Claims, TypeOK
    <3>3. \A a \in Attempts : state'[a] = IF a = j THEN "send_authorized" ELSE state[a]
      BY <2>1, <2>7 DEF TypeOK
    <3>4. \A v \in Workers : pc[v] = "read" => job[v] \in Attempts BY DEF TypeOK
    <3>5. \A v \in Workers : pc'[v] = "read" =>
            /\ held'[v] = token'[job'[v]] /\ job'[v] \in leased'
            /\ state'[job'[v]] # "send_authorized"
      BY <2>3, <2>4, <3>1, <3>2, <3>3, <3>4 DEF Releases
    <3>6. ReleasedUnsent' BY <2>3, <2>4, <2>5, <3>1, <3>3 DEF Releases, ReleasedUnsent
    <3>7. QED BY <2>3, <2>4, <3>1, <3>5, <3>6 DEF Releases
  <2>8. QED BY <1>8, <2>6, <2>7 DEF Authorize, Authorizable
<1>9. ASSUME NEW w \in Workers, Send(w) PROVE Releases'
  BY <1>9 DEF Send, GoTo, Calls, Sender, Releases, ReleasedUnsent, TypeOK
<1>10. ASSUME NEW w \in Workers,
        NEW o \in {"text", "rejected", "uncertain"}, NEW f \in BOOLEAN,
        ProviderReturns(w, o, f) PROVE Releases'
  BY <1>10, SuccessorsFacts DEF ProviderReturns, GoTo, GoSettle, Refused, Claims, Calls,
     Sender, Releases, ReleasedUnsent, TypeOK
<1>11. ASSUME NEW w \in Workers, StoreResult(w) PROVE Releases'
  BY <1>11 DEF StoreResult, GoSettle, ChildAllowed, Releases, ReleasedUnsent, TypeOK
<1>12. ASSUME NEW w \in Workers, Settle(w) PROVE Releases'
  <2> DEFINE j == job[w]
  <2>1. j \in Attempts /\ to[w] \in AttemptStates \cup {"none"}
        /\ snap[w] \in AttemptStates \cup {"none"}
    BY <1>12 DEF Settle, TypeOK
  <2>3. UNCHANGED <<token, leased, call>> /\ pc'[w] = "idle"
    BY <1>12 DEF Settle, Finish, TypeOK
  <2>4. \A v \in Workers \ {w} :
          pc'[v] = pc[v] /\ job'[v] = job[v] /\ held'[v] = held[v]
          /\ snap'[v] = snap[v] /\ to'[v] = to[v]
    BY <1>12 DEF Settle, Finish, TypeOK
  <2>5. CompareAndSet(j, snap[w], to[w]) BY <1>12 DEF Settle
  <2>6. CASE state' = state BY <2>3, <2>4, <2>6 DEF Releases, ReleasedUnsent
  <2>7. CASE /\ state[j] = snap[w] /\ to[w] \in Successors[snap[w]]
             /\ state' = [state EXCEPT ![j] = to[w]]
    <3>1. \A a \in Attempts : state'[a] = IF a = j THEN to[w] ELSE state[a]
      BY <2>1, <2>7 DEF TypeOK
    <3>2. to[w] # "send_authorized" BY DEF Answers
    <3>3. \A v \in Workers : pc[v] = "read" => job[v] \in Attempts BY DEF TypeOK
    <3>4. \A v \in Workers : pc'[v] = "read" =>
            /\ held'[v] = token'[job'[v]] /\ job'[v] \in leased'
            /\ state'[job'[v]] # "send_authorized"
      BY <2>3, <2>4, <3>1, <3>2, <3>3 DEF Releases
    <3>5. to[w] = "cancelled" =>
            call[j] = "none" /\ \A v \in Workers : ~(job[v] = j /\ pc[v] = "send")
      BY <2>1, <2>7, SuccessorsFacts DEF Calls, Sender
    <3>6. to[w] = "fallback_allowed" =>
            /\ call[j] \in {"none", "rejected"}
            /\ \A v \in Workers : ~(job[v] = j /\ pc[v] = "send")
      <4>1. CASE snap[w] \in PreSend BY <2>1, <2>7, <4>1 DEF Calls, Sender
      <4>2. CASE snap[w] = "send_authorized" /\ to[w] = "fallback_allowed"
        <5>1. call[j] = "rejected" BY <1>12, <4>2 DEF Settle, Releases
        <5>2. QED BY <2>1, <5>1 DEF Calls, Sender
      <4>3. QED BY <2>1, <2>7, <4>1, <4>2, SuccessorsFacts
    <3>7. ReleasedUnsent'
      BY <2>3, <2>4, <3>1, <3>5, <3>6 DEF Releases, ReleasedUnsent
    <3>8. QED BY <2>3, <2>4, <3>4, <3>7 DEF Releases
  <2>8. QED BY <2>1, <2>5, <2>6, <2>7, CompareAndSetEffect
<1>13. ASSUME NEW w \in Workers, SetLeaseThrows(w) PROVE Releases'
  BY <1>13 DEF SetLeaseThrows, GoSettle, Fault, Releases, ReleasedUnsent, TypeOK
<1>14. ASSUME NEW w \in Workers, StoreThrows(w) PROVE Releases'
  BY <1>14 DEF StoreThrows, GoSettle, Fault, ChildAllowed, Releases, ReleasedUnsent,
     TypeOK
<1>15. ASSUME NEW w \in Workers, SettleThrows(w) PROVE Releases'
  BY <1>15 DEF SettleThrows, GoSettle, Fault, Releases, ReleasedUnsent, TypeOK
<1>16. ASSUME NEW w \in Workers, StepThrows(w) PROVE Releases'
  BY <1>16 DEF StepThrows, Finish, Fault, Releases, ReleasedUnsent, TypeOK
<1>17. ASSUME NEW w \in Workers, Crash(w) PROVE Releases'
  BY <1>17 DEF Crash, Finish, Fault, Releases, ReleasedUnsent, TypeOK
<1>18. ASSUME NEW a \in Attempts, PickCandidate(a) PROVE Releases'
  BY <1>18 DEF PickCandidate, Candidate, Releases, ReleasedUnsent, TypeOK
<1>19. ASSUME GetResult PROVE Releases'
  BY <1>19 DEF GetResult, HasResult, Releases, ReleasedUnsent, TypeOK
<1>20. ASSUME Recover PROVE Releases'
  BY <1>20 DEF Recover, ReconcilerDone, GoesOnWithout, Fault, CompareAndSet, Releases, ReleasedUnsent, TypeOK
<1>21. ASSUME GetMarker PROVE Releases'
  BY <1>21 DEF GetMarker, ReconcilerDone, Releases, ReleasedUnsent, TypeOK
<1>22. ASSUME RenotifyAttempt PROVE Releases'
  BY <1>22 DEF RenotifyAttempt, Notify, ReconcilerDone, Releases, ReleasedUnsent, TypeOK
<1>23. ASSUME MarkDoubt PROVE Releases'
  BY <1>23 DEF MarkDoubt, ReconcilerDone, CompareAndSet, Releases, ReleasedUnsent, TypeOK
<1>24. ASSUME ReconcilerFails PROVE Releases'
  BY <1>24 DEF ReconcilerFails, Fault, ReconcilerDone, GoesOnWithout, Releases, ReleasedUnsent, TypeOK
<1>25. CASE UNCHANGED vars BY <1>25 DEF vars, Releases, ReleasedUnsent, TypeOK
<1>. QED
  BY <1>1, <1>2, <1>3, <1>4, <1>5, <1>6, <1>7, <1>8, <1>9, <1>10, <1>11, <1>12, <1>13,
     <1>14, <1>15, <1>16, <1>17, <1>18, <1>19, <1>20, <1>21, <1>22, <1>23, <1>24, <1>25,
     NextCases

\* Every step keeps TombstoneHolds: each Redis write looks at the tombstone in
\* the same script.
LEMMA TombstoneStep ==
  ASSUME TypeOK, TombstoneHolds, [Next]_vars
  PROVE  TombstoneHolds'
<1> USE DEF runVars, redisVars, recVars, callVars
<1>1. ASSUME NEW w \in Workers, SetLease(w) PROVE TombstoneHolds'
  BY <1>1 DEF SetLease, TombstoneHolds, TypeOK
<1>2. ASSUME NEW w \in Workers, MarkSend(w) PROVE TombstoneHolds'
  BY <1>2 DEF MarkSend, TombstoneHolds, TypeOK
<1>3. ASSUME NEW w \in Workers, StoreResult(w) PROVE TombstoneHolds'
  BY <1>3 DEF StoreResult, ChildAllowed, TombstoneHolds, TypeOK
<1>4. ASSUME NEW w \in Workers, SetLeaseThrows(w) PROVE TombstoneHolds'
  BY <1>4 DEF SetLeaseThrows, TombstoneHolds, TypeOK
<1>5. ASSUME NEW w \in Workers, StoreThrows(w) PROVE TombstoneHolds'
  BY <1>5 DEF StoreThrows, ChildAllowed, TombstoneHolds, TypeOK
<1>6. ASSUME Tombstone PROVE TombstoneHolds'
  BY <1>6 DEF Tombstone, TombstoneHolds, TypeOK
<1>7. ASSUME NEW a \in Attempts, RedisLeaseExpires(a) PROVE TombstoneHolds'
  BY <1>7 DEF RedisLeaseExpires, TombstoneHolds, TypeOK
<1>8. ASSUME NEW a \in Attempts, MarkerExpires(a) PROVE TombstoneHolds'
  BY <1>8 DEF MarkerExpires, TombstoneHolds, TypeOK
<1>9. ASSUME NEW a \in Attempts, ResultExpires(a) PROVE TombstoneHolds'
  BY <1>9 DEF ResultExpires, TombstoneHolds, TypeOK
<1>10. CASE UNCHANGED <<tombstoned, redisLease, marker, results>>
  BY <1>10 DEF TombstoneHolds
<1>. QED
  BY <1>1, <1>2, <1>3, <1>4, <1>5, <1>6, <1>7, <1>8, <1>9, <1>10 DEF Next, Publisher,
     WorkerStep, WorkerFault, ReconcilerStep, RunStep, TimeStep, Reserve, PublisherClaim,
     PublisherNotify, PublisherMark, PublisherReclaim, ClaimAttempt, SkipMessage,
     ReadAttempt, RecordIntent, Authorize, Authorizable, Send, ProviderReturns, Refused,
     Settle, SettleThrows, StepThrows, Crash, LeaseExpires, LeaseStalls, ReconcileStale,
     PickCandidate, GetResult, Recover, GetMarker, RenotifyAttempt, MarkDoubt,
     ReconcilerFails, RunGoesIdle, DeadlinePasses, SuspendRun, ResumeRun, EndRun,
     VerifyCleanup, PacketExpires, PruneBody, Notify, vars

\* A step takes an attempt in doubt to a success or nowhere, and any other
\* settled attempt nowhere.
LEMMA DoubtStep ==
  ASSUME DispatchAssumption, TypeOK, Claims, Answers, [Next]_vars
  PROVE  \A a \in Attempts :
           /\ state[a] = "outcome_unknown" => state'[a] \in {"outcome_unknown", "succeeded"}
           /\ state[a] \in Settled \ {"outcome_unknown"} => state'[a] = state[a]
<1> DEFINE Final(a) ==
      /\ state[a] = "outcome_unknown" => state'[a] \in {"outcome_unknown", "succeeded"}
      /\ state[a] \in Settled \ {"outcome_unknown"} => state'[a] = state[a]
<1> SUFFICES \A a \in Attempts : Final(a)
  OBVIOUS
<1> USE DEF pgVars
<1>1. ASSUME NEW b \in Attempts, NEW from \in AttemptStates \cup {"none"},
             NEW target \in AttemptStates \cup {"none"},
             CompareAndSet(b, from, target),
             target = "result_unavailable" => from = "send_authorized"
      PROVE  \A a \in Attempts : Final(a)
  <2>1. CASE state' = state BY <2>1
  <2>2. CASE /\ state[b] = from /\ target \in Successors[from]
             /\ state' = [state EXCEPT ![b] = target]
    BY <1>1, <2>2, SuccessorsFacts DEF TypeOK, Settled
  <2>3. QED BY <1>1, <2>1, <2>2, CompareAndSetEffect
<1>2. ASSUME NEW w \in Workers, RecordIntent(w) PROVE \A a \in Attempts : Final(a)
  BY <1>1, <1>2 DEF RecordIntent, TypeOK, AttemptStates, PreSend
<1>3. ASSUME NEW w \in Workers, Authorize(w) PROVE \A a \in Attempts : Final(a)
  BY <1>3 DEF Authorize, Authorizable, TypeOK, Settled
<1>4. ASSUME NEW w \in Workers, Settle(w) PROVE \A a \in Attempts : Final(a)
  BY <1>1, <1>4 DEF Settle, TypeOK, Answers
<1>5. CASE Recover
  BY <1>1, <1>5 DEF Recover, TypeOK, AttemptStates
<1>6. CASE MarkDoubt
  BY <1>1, <1>6 DEF MarkDoubt, TypeOK, AttemptStates
<1>7. ASSUME NEW a \in Attempts, Reserve(a) PROVE \A b \in Attempts : Final(b)
  BY <1>7 DEF Reserve, Settled, TypeOK
<1>8. CASE UNCHANGED state BY <1>8
<1>9. QED
  BY <1>2, <1>3, <1>4, <1>5, <1>6, <1>7, <1>8, NextCases, ElsewhereFrame DEF ClaimAttempt,
     ReadAttempt, SetLease, MarkSend, Send, ProviderReturns, Refused, StoreResult,
     ChildAllowed, SetLeaseThrows, StoreThrows, SettleThrows, StepThrows, Crash,
     PickCandidate, GetResult, GetMarker, RenotifyAttempt, ReconcilerFails, vars

-----------------------------------------------------------------------------
(* The theorems.  Each part of the invariant holds initially               *)
(* (InitInvariant), is kept by every step given the parts before it, and   *)
(* PTL does the rest.                                                      *)

\* The initial state is of the right type.
LEMMA InitType ==
  ASSUME DispatchAssumption, Init
  PROVE  TypeOK
<1>1. /\ state \in [Attempts -> AttemptStates \cup {"none"}]
      /\ outbox \in [Attempts -> {"none", "pending", "publishing", "notified", "published"}]
      /\ body \in [Attempts -> {"live", "expired", "gone"}]
      /\ call \in [Attempts -> CallStates]
      /\ accepted \in [Executions -> Attempts \cup {None}]
  BY DEF Init, CallStates
<1>2. /\ token \in [Attempts -> Nat]
      /\ redisLease \in [Attempts -> Nat]
      /\ marker \in [Attempts -> Nat]
      /\ sends \in [Attempts -> Nat]
      /\ held \in [Workers -> Nat]
      /\ faults \in 0..MaxFaults
  BY DEF Init
<1>3. /\ inbox \in [Workers -> SUBSET Attempts]
      /\ pc \in [Workers -> WorkerPcs]
      /\ job \in [Workers -> Attempts \cup {None}]
      /\ \A w \in Workers : pc[w] = "idle" <=> job[w] = None
      /\ snap \in [Workers -> AttemptStates \cup {"none"}]
      /\ to \in [Workers -> AttemptStates \cup {"none"}]
  BY DEF Init, WorkerPcs
<1>4. QED BY <1>1, <1>2, <1>3 DEF Init, TypeOK, ReconcilerPcs

\* Initially there is no claim, no call and no answer, and every part holds.
LEMMA InitInvariant ==
  ASSUME DispatchAssumption, Init
  PROVE  TypeOK /\ Claims /\ Calls /\ Answers /\ AcceptedAnswered /\ TombstoneHolds
         /\ Releases
<1>1. TypeOK BY InitType
<1>2. Claims BY DEF Init, Claims
<1>3. Calls BY DEF Init, Calls, Sender
<1>4. Answers BY DEF Init, Answers
<1>5. AcceptedAnswered BY DEF Init, AcceptedAnswered
<1>6. TombstoneHolds BY DEF Init, TombstoneHolds
<1>7. Releases BY DEF Init, Releases, ReleasedUnsent
<1>8. QED BY <1>1, <1>2, <1>3, <1>4, <1>5, <1>6, <1>7

\* Every variable keeps its type: the states a transition may reach are those
\* of ATTEMPT_TRANSITIONS, and a worker has an attempt exactly while it is
\* inside process().
THEOREM TypeCorrect == Spec => []TypeOK
<1>1. Init => TypeOK BY DispatchAssumption, InitInvariant
<1>2. TypeOK /\ [Next]_vars => TypeOK' BY DispatchAssumption, TypeOKStep
<1>3. QED BY <1>1, <1>2, PTL DEF Spec

\* The inductive invariant of the dispatch, for any number of attempts,
\* workers, claims and faults, whatever the reads of a worker are worth.
IInv == Claims /\ Calls /\ Answers /\ AcceptedAnswered /\ TombstoneHolds

\* The inductive invariant holds in every reachable state.
THEOREM DispatchInvariant == Spec => []IInv
<1>1. Init => IInv BY DispatchAssumption, InitInvariant DEF IInv
<1>2. TypeOK /\ TypeOK' /\ IInv /\ [Next]_vars => IInv'
  BY DispatchAssumption, ClaimsStep, CallsStep, AnswersStep, AcceptedStep, TombstoneStep
     DEF IInv
<1>3. QED BY <1>1, <1>2, TypeCorrect, PTL DEF Spec

\* The provider is called at most once for an attempt: of the workers that
\* claim it one after another, only one passes authorizeAttempt, and it sends
\* once.
THEOREM AtMostOnceSafe == Spec => []AtMostOnce
<1>1. IInv => AtMostOnce BY DEF IInv, Calls, AtMostOnce
<1>2. QED BY <1>1, DispatchInvariant, PTL

\* A success rests on an answer that passed the contracts, whether the worker
\* or the reconciler recorded it, and its stage execution has accepted it.
THEOREM AcceptedAnsweredSafe == Spec => []AcceptedAnswered
<1>1. IInv => AcceptedAnswered BY DEF IInv
<1>2. QED BY <1>1, DispatchInvariant, PTL

\* A tombstoned run gets no lease, marker or result back.
THEOREM TombstoneSafe == Spec => []TombstoneHolds
<1>1. IInv => TombstoneHolds BY DEF IInv
<1>2. QED BY <1>1, DispatchInvariant, PTL

\* An outcome in doubt only ever becomes a success, and every other settled
\* state is final, for workers and reconcilers that act on stale reads too.
THEOREM DoubtSafe == Spec => DoubtNeverReleased
<1>1. TypeOK /\ IInv /\ [Next]_vars =>
        [\A a \in Attempts :
           /\ state[a] = "outcome_unknown" => state'[a] \in {"outcome_unknown", "succeeded"}
           /\ state[a] \in Settled \ {"outcome_unknown"} => state'[a] = state[a]]_vars
  BY DispatchAssumption, DoubtStep DEF IInv
<1>2. QED BY <1>1, TypeCorrect, DispatchInvariant, PTL DEF Spec, DoubtNeverReleased

\* If getAttempt answers within the lease it follows, an attempt released to
\* the fallback chain has no call that ran or may run, unless the provider
\* refused it.  DispatchStaleRead shows the assumption is needed.
THEOREM ReleasedUnsentSafe ==
  ASSUME PromptRead = TRUE
  PROVE  Spec => []ReleasedUnsent
<1>1. Init => Releases BY DispatchAssumption, InitInvariant
<1>2. TypeOK /\ TypeOK' /\ IInv /\ Releases /\ [Next]_vars => Releases'
  BY PromptRead = TRUE, DispatchAssumption, ReleasesStep DEF IInv
<1>3. Releases => ReleasedUnsent BY DEF Releases
<1>4. QED BY <1>1, <1>2, <1>3, TypeCorrect, DispatchInvariant, PTL DEF Spec

-----------------------------------------------------------------------------
(* AttemptDispatch implements AttemptLedger, for every number of attempts,   *)
(* workers, claims and faults: each step of a worker or of the reconciler is *)
(* a step of the one-call ledger or does not show.  A worker between         *)
(* authorizeAttempt and the call holds a cleared call.                       *)

\* Worker w has the call of attempt a in hand.
Clears(w, a) == job[w] = a /\ pc[w] = "send"

\* A step after which the same workers have the same calls in hand, and which
\* is none of the provider's, leaves the mapped calls alone.
LEMMA ClearedKept ==
  ASSUME UNCHANGED call,
         \A w \in Workers, a \in Attempts : Clears(w, a)' <=> Clears(w, a)
  PROVE  clearedCall' = clearedCall
BY DEF clearedCall, Clears

\* A step that changes one mapped call.
LEMMA ClearedMoves ==
  ASSUME NEW a \in Attempts, NEW value,
         \A b \in Attempts : b # a =>
           call'[b] = call[b] /\ \A w \in Workers : Clears(w, b)' <=> Clears(w, b),
         value = IF \E w \in Workers : Clears(w, a)' THEN "cleared" ELSE call'[a]
  PROVE  clearedCall' = [clearedCall EXCEPT ![a] = value]
<1> DEFINE Seen(b) == IF \E w \in Workers : Clears(w, b) THEN "cleared" ELSE call[b]
<1>1. clearedCall = [b \in Attempts |-> Seen(b)] BY DEF clearedCall, Clears
<1>2. clearedCall' = [b \in Attempts |-> Seen(b)'] BY DEF clearedCall, Clears
<1>3. Seen(a)' = value OBVIOUS
<1>4. \A b \in Attempts : b # a => Seen(b)' = Seen(b) OBVIOUS
<1> HIDE DEF Seen
<1>5. QED BY <1>1, <1>2, <1>3, <1>4

\* What the mapped call of an attempt is.
LEMMA ClearedValue ==
  ASSUME TypeOK, Calls, NEW a \in Attempts
  PROVE  /\ (\E w \in Workers : Clears(w, a)) => clearedCall[a] = "cleared"
         /\ (\A w \in Workers : ~Clears(w, a)) => clearedCall[a] = call[a]
         /\ call[a] # "none" => clearedCall[a] = call[a]
         /\ state[a] \in PreSend \cup {"none"} => clearedCall[a] = "none"
<1>1. \A w \in Workers : Clears(w, a) => Sender(w, a) /\ call[a] = "none"
  BY DEF Clears, Sender, Calls
<1>2. QED BY <1>1 DEF Clears, clearedCall, Calls

\* Where a transition may start from.
LEMMA TransitionSources ==
  \A s \in AttemptStates \cup {"none"} :
    "outcome_unknown" \in Successors[s] => s \in PreSend \cup {"send_authorized"}
BY DEF Successors, AttemptStates, PreSend

\* transitionAttempt moves one attempt along ATTEMPT_TRANSITIONS or does nothing.
LEMMA MoveIsLedgerMove ==
  ASSUME TypeOK, NEW a \in Attempts, NEW from, NEW target, CompareAndSet(a, from, target)
  PROVE  \/ state' = state
         \/ state[a] = from /\ target \in Successors[from] /\ Ledger!Move(a, {from}, target)
BY DEF CompareAndSet, Ledger!Move

\* A step that the ledger does not see.
Silent == UNCHANGED <<state, clearedCall>>

\* Every step of the dispatch, action by action.
LEMMA RefinementStep ==
  ASSUME DispatchAssumption, TypeOK, Claims, Calls, Answers, Releases, [Next]_vars
  PROVE  Ledger!Next \/ Silent
<1> USE DEF pgVars, runVars, redisVars, workerVars, recVars, callVars
<1>1. CASE Elsewhere
  BY <1>1, ElsewhereFrame, ClearedKept DEF Clears, Silent
<1>2. ASSUME NEW a \in Attempts, Reserve(a) PROVE Ledger!Next
  <2>1. clearedCall' = clearedCall BY <1>2, ClearedKept DEF Reserve, Clears
  <2>2. Ledger!Reserve(a) BY <1>2, <2>1 DEF Reserve, Ledger!Reserve, Ledger!Move
  <2>3. QED BY <2>2 DEF Ledger!Next
<1>3. ASSUME NEW w \in Workers, NEW a \in Attempts, ClaimAttempt(w, a) PROVE Silent
  BY <1>3, ClearedKept DEF ClaimAttempt, Clears, Silent, TypeOK
<1>4. ASSUME NEW w \in Workers, ReadAttempt(w) \/ SetLease(w) \/ MarkSend(w) PROVE Silent
  BY <1>4, ClearedKept
  DEF ReadAttempt, SetLease, MarkSend, CheckProvider, GoTo, GoSettle, Finish, Clears, Silent,
      TypeOK
<1>5. ASSUME NEW w \in Workers, RecordIntent(w) PROVE Ledger!Next \/ Silent
  <2>1. clearedCall' = clearedCall
    BY <1>5, ClearedKept DEF RecordIntent, CheckProvider, GoTo, GoSettle, Finish, Clears,
       TypeOK
  <2>2. CASE state' = state BY <2>1, <2>2 DEF Silent
  <2>3. CASE Ledger!Move(job[w], {"queued"}, "dispatch_intent")
    <3>1. Ledger!Prepare(job[w]) BY <2>1, <2>3 DEF Ledger!Prepare
    <3>2. job[w] \in Attempts BY <1>5 DEF RecordIntent, TypeOK
    <3>3. QED BY <3>1, <3>2 DEF Ledger!Next
  <2>4. job[w] \in Attempts BY <1>5 DEF RecordIntent, TypeOK
  <2>5. QED BY <1>5, <2>2, <2>3, <2>4, MoveIsLedgerMove DEF RecordIntent
<1>6. ASSUME NEW w \in Workers, Authorize(w) PROVE Ledger!Next \/ Silent
  <2>1. job[w] \in Attempts BY <1>6 DEF Authorize, TypeOK
  <2>2. CASE Authorizable(w)
    <3>1. clearedCall[job[w]] = "none"
      BY <2>1, <2>2, ClearedValue DEF Authorizable, PreSend
    <3>2. clearedCall' = [clearedCall EXCEPT ![job[w]] = "cleared"]
      <4>1. call' = call BY <1>6 DEF Authorize
      <4>2. \A b \in Attempts : b # job[w] =>
              \A v \in Workers : Clears(v, b)' <=> Clears(v, b)
        BY <1>6, <2>2 DEF Authorize, GoTo, Clears, TypeOK
      <4>3. job'[w] = job[w] /\ pc'[w] = "send"
        BY <1>6, <2>2 DEF Authorize, GoTo, TypeOK
      <4>4. QED BY <2>1, <4>1, <4>2, <4>3, ClearedMoves DEF Clears
    <3>3. Ledger!Authorize(job[w])
      BY <1>6, <2>1, <2>2, <3>1, <3>2 DEF Authorize, Authorizable, Ledger!Authorize,
         Ledger!Move
    <3>4. QED BY <2>1, <3>3 DEF Ledger!Next
  <2>3. CASE ~Authorizable(w)
    BY <1>6, <2>3, ClearedKept DEF Authorize, GoSettle, Clears, Silent, TypeOK
  <2>4. QED BY <2>2, <2>3
<1>7. ASSUME NEW w \in Workers, Send(w) PROVE Ledger!Next
  <2>1. job[w] \in Attempts /\ Clears(w, job[w]) BY <1>7 DEF Send, Clears, TypeOK
  <2>2. clearedCall[job[w]] = "cleared" BY <2>1, ClearedValue
  <2>3. \A v \in Workers : Clears(v, job[w]) => v = w
    BY <2>1 DEF Clears, Calls, Sender
  <2>4. clearedCall' = [clearedCall EXCEPT ![job[w]] = "inflight"]
    BY <1>7, <2>1, <2>3 DEF Send, GoTo, Clears, clearedCall, TypeOK
  <2>5. Ledger!Send(job[w]) BY <1>7, <2>2, <2>4 DEF Send, Ledger!Send
  <2>6. QED BY <2>1, <2>5 DEF Ledger!Next
<1>8. ASSUME NEW w \in Workers, NEW o \in {"text", "rejected", "uncertain"},
             NEW f \in BOOLEAN, ProviderReturns(w, o, f)
      PROVE  Ledger!Next
  <2>1. job[w] \in Attempts /\ call[job[w]] = "inflight"
    BY <1>8 DEF ProviderReturns, Calls, Sender, TypeOK
  <2>2. clearedCall[job[w]] = "inflight" BY <2>1, ClearedValue
  <2>3. \A v \in Workers : ~Clears(v, job[w])
    BY <2>1 DEF Clears, Calls, Sender
  <2>4. clearedCall' = [clearedCall EXCEPT ![job[w]] = o]
    <3>1. call' = [call EXCEPT ![job[w]] = o] BY <1>8 DEF ProviderReturns
    <3>2. \A v \in Workers, b \in Attempts : Clears(v, b)' <=> Clears(v, b)
      BY <1>8 DEF ProviderReturns, GoTo, GoSettle, Clears, TypeOK
    <3>3. QED BY <2>1, <2>3, <3>1, <3>2, ClearedMoves DEF TypeOK
  <2>5. Ledger!Answer(job[w]) BY <1>8, <2>2, <2>4 DEF ProviderReturns, Ledger!Answer
  <2>6. QED BY <2>1, <2>5 DEF Ledger!Next
<1>9. ASSUME NEW w \in Workers,
             StoreResult(w) \/ SetLeaseThrows(w) \/ StoreThrows(w) \/ SettleThrows(w)
      PROVE  Silent
  BY <1>9, ClearedKept
  DEF StoreResult, SetLeaseThrows, StoreThrows, SettleThrows, GoSettle, Clears, Silent, TypeOK
<1>10. ASSUME NEW w \in Workers, Settle(w) PROVE Ledger!Next \/ Silent
  <2>1. job[w] \in Attempts /\ snap[w] \in AttemptStates \cup {"none"}
    BY <1>10 DEF Settle, TypeOK
  <2>2. clearedCall' = clearedCall
    BY <1>10, ClearedKept DEF Settle, Finish, Clears, TypeOK
  <2>3. CASE state' = state BY <2>2, <2>3 DEF Silent
  <2>4. CASE /\ state[job[w]] = snap[w] /\ to[w] \in Successors[snap[w]]
             /\ Ledger!Move(job[w], {snap[w]}, to[w])
    <3>1. CASE to[w] \in {"succeeded", "result_unavailable"}
      <4>1. snap[w] = "send_authorized" /\ call[job[w]] = "text"
        BY <1>10, <3>1 DEF Settle, Answers
      <4>2. clearedCall[job[w]] = "text" BY <2>1, <4>1, ClearedValue
      <4>3. Ledger!Accept(job[w]) \/ Ledger!Lose(job[w])
        BY <2>2, <2>4, <3>1, <4>1, <4>2 DEF Ledger!Accept, Ledger!Lose, Ledger!Move
      <4>4. QED BY <2>1, <4>3 DEF Ledger!Next
    <3>2. CASE to[w] \in {"cancelled", "fallback_allowed"}
      <4>1. CASE snap[w] \in PreSend
        <5>1. Ledger!Release(job[w])
          BY <2>2, <2>4, <3>2, <4>1 DEF Ledger!Release, Ledger!Move, PreSend
        <5>2. QED BY <2>1, <5>1 DEF Ledger!Next
      <4>2. CASE snap[w] = "send_authorized" /\ to[w] = "fallback_allowed"
        <5>1. call[job[w]] = "rejected" BY <1>10, <4>2 DEF Settle, Releases
        <5>2. clearedCall[job[w]] = "rejected" BY <2>1, <5>1, ClearedValue
        <5>3. Ledger!Release(job[w])
          BY <2>2, <2>4, <4>2, <5>2 DEF Ledger!Release, Ledger!Move
        <5>4. QED BY <2>1, <5>3 DEF Ledger!Next
      <4>3. QED BY <2>1, <2>4, <3>2, <4>1, <4>2, SuccessorsFacts
    <3>3. CASE to[w] = "outcome_unknown"
      <4>1. snap[w] \in PreSend \cup {"send_authorized"}
        BY <2>1, <2>4, <3>3, TransitionSources
      <4>2. Ledger!Doubt(job[w])
        BY <2>2, <2>4, <3>3, <4>1 DEF Ledger!Doubt, Ledger!Move, PreSend
      <4>3. QED BY <2>1, <4>2 DEF Ledger!Next
    <3>4. to[w] \in {"succeeded", "result_unavailable", "cancelled", "fallback_allowed",
                     "outcome_unknown"}
      <4>1. to[w] \in AttemptStates BY <2>1, <2>4, SuccessorsFacts
      <4>2. to[w] \notin {"queued", "dispatch_intent", "send_authorized"} BY DEF Answers
      <4>3. QED BY <4>1, <4>2 DEF AttemptStates, PreSend, Settled
    <3>5. QED BY <3>1, <3>2, <3>3, <3>4
  <2>5. QED BY <1>10, <2>1, <2>3, <2>4, MoveIsLedgerMove DEF Settle
<1>11. ASSUME NEW w \in Workers, StepThrows(w) \/ Crash(w) PROVE Ledger!Next \/ Silent
  <2>1. CASE pc[w] = "send"
    <3>1. job[w] \in Attempts /\ Clears(w, job[w]) /\ call[job[w]] = "none"
      BY <2>1 DEF Clears, Calls, Sender, TypeOK
    <3>2. clearedCall[job[w]] = "cleared" BY <3>1, ClearedValue
    <3>3. \A v \in Workers : Clears(v, job[w]) => v = w
      BY <3>1 DEF Clears, Calls, Sender
    <3>4. clearedCall' = [clearedCall EXCEPT ![job[w]] = "none"]
      <4>1. call' = call BY <1>11 DEF StepThrows, Crash
      <4>2. \A v \in Workers, b \in Attempts : Clears(v, b)' <=> v # w /\ Clears(v, b)
        BY <1>11 DEF StepThrows, Crash, Finish, Clears, TypeOK
      <4>3. QED BY <3>1, <3>3, <4>1, <4>2, ClearedMoves DEF Clears
    <3>5. Ledger!Abandon(job[w])
      BY <1>11, <3>2, <3>4 DEF StepThrows, Crash, Ledger!Abandon
    <3>6. QED BY <3>1, <3>5 DEF Ledger!Next
  <2>2. CASE pc[w] # "send"
    BY <1>11, <2>2, ClearedKept DEF StepThrows, Crash, Finish, Clears, Silent, TypeOK
  <2>3. QED BY <2>1, <2>2
<1>12. CASE GetResult \/ GetMarker \/ RenotifyAttempt \/ ReconcilerFails
  BY <1>12, ClearedKept DEF GetResult, GetMarker, RenotifyAttempt, ReconcilerFails, Clears,
     Silent
<1>13. ASSUME NEW a \in Attempts, PickCandidate(a) PROVE Silent
  BY <1>13, ClearedKept DEF PickCandidate, Clears, Silent
<1>14. CASE Recover
  <2>1. rjob \in Attempts /\ call[rjob] = "text" BY <1>14 DEF Recover, Answers, TypeOK
  <2>2. clearedCall' = clearedCall BY <1>14, ClearedKept DEF Recover, Clears
  <2>3. clearedCall[rjob] = "text" BY <2>1, ClearedValue
  <2>4. CASE state' = state BY <2>2, <2>4 DEF Silent
  <2>5. CASE /\ state[rjob] \in {"send_authorized", "outcome_unknown"}
             /\ state' = [state EXCEPT ![rjob] = "succeeded"]
    <3>1. Ledger!Accept(rjob) BY <2>2, <2>3, <2>5 DEF Ledger!Accept, Ledger!Move
    <3>2. QED BY <2>1, <3>1 DEF Ledger!Next
  <2>6. QED BY <1>14, <2>4, <2>5 DEF Recover, CompareAndSet
<1>15. CASE MarkDoubt
  <2>1. rjob \in Attempts /\ rsnap \in AttemptStates \cup {"none"}
    BY <1>15 DEF MarkDoubt, TypeOK
  <2>2. clearedCall' = clearedCall BY <1>15, ClearedKept DEF MarkDoubt, Clears
  <2>3. CASE state' = state BY <2>2, <2>3 DEF Silent
  <2>4. CASE /\ "outcome_unknown" \in Successors[rsnap]
             /\ Ledger!Move(rjob, {rsnap}, "outcome_unknown")
    <3>1. rsnap \in PreSend \cup {"send_authorized"}
      BY <2>1, <2>4, TransitionSources
    <3>2. Ledger!Doubt(rjob) BY <2>2, <2>4, <3>1 DEF Ledger!Doubt, Ledger!Move, PreSend
    <3>3. QED BY <2>1, <3>2 DEF Ledger!Next
  <2>5. QED BY <1>15, <2>1, <2>3, <2>4, MoveIsLedgerMove DEF MarkDoubt
<1>16. CASE UNCHANGED vars
  BY <1>16, ClearedKept DEF vars, Clears, Silent
<1>17. QED
  BY <1>1, <1>2, <1>3, <1>4, <1>5, <1>6, <1>7, <1>8, <1>9, <1>10, <1>11, <1>12, <1>13, <1>14,
     <1>15, <1>16, NextCases

\* If getAttempt answers within the lease it follows, the dispatch implements
\* the one-call ledger: redeliveries, lost leases, crashes and the reconciler
\* never show as a second send, a release after a send, or a success without an
\* answer.
THEOREM DispatchImplementsLedger ==
  ASSUME PromptRead = TRUE
  PROVE  Spec => ImplementsLedger
<1>1. Init => Ledger!Init
  BY DEF Init, Ledger!Init, clearedCall
<1>2. Init => Releases
  BY DispatchAssumption, InitInvariant
<1>3. TypeOK /\ TypeOK' /\ IInv /\ Releases /\ [Next]_vars => Releases'
  BY PromptRead = TRUE, DispatchAssumption, ReleasesStep DEF IInv
<1>4. TypeOK /\ IInv /\ Releases /\ [Next]_vars => [Ledger!Next]_(Ledger!vars)
  BY DispatchAssumption, RefinementStep DEF IInv, Silent, Ledger!vars
<1>5. QED
  BY <1>1, <1>2, <1>3, <1>4, TypeCorrect, DispatchInvariant, PTL
  DEF Spec, ImplementsLedger, Ledger!Spec
=============================================================================
