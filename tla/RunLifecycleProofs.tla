------------------------- MODULE RunLifecycleProofs -------------------------
(***************************************************************************)
(* Theorems about RunLifecycle for every set of packets, checkpoints and   *)
(* cleaners and every bound on claims and faults: the types, the evidence  *)
(* of a cleanup, what a verified cleanup has erased, when a deletion is     *)
(* recorded, that a saved checkpoint stays readable, that an ended run       *)
(* stays ended, and that RunLifecycle implements RunContract.              *)
(***************************************************************************)
EXTENDS RunLifecycle, FiniteSetTheorems, TLAPS

-----------------------------------------------------------------------------
(* The inductive invariant *)

\* One attempt at a time has the cleanup, and one has verified it.  The
\* attempts are numbered by their claims.
OneAttempt ==
  /\ \A i \in Claims : i > claims => evidence[i] = "none"
  /\ \A i, j \in Claims :
       evidence[i] = "in_progress" /\ evidence[j] = "in_progress" => i = j
  /\ \A i, j \in Claims :
       evidence[i] = "verified" /\ evidence[j] = "verified" => i = j
  /\ cleanup = "in_progress" <=> \E i \in Claims : evidence[i] = "in_progress"
  /\ cleanup = "verified" <=> \E i \in Claims : evidence[i] = "verified"
  /\ cleanup # "null" <=> state \in Ended

\* Only an ended run is tombstoned, a tombstoned run lists no key, and a
\* cleaner records a verified cleanup only after the tombstone.
Tombstones ==
  /\ tombstoned => state \in Ended /\ listed = {}
  /\ \A c \in Cleaners : cpc[c] \in {"tombstone", "record"} => state \in Ended
  /\ \A c \in Cleaners : cpc[c] = "record" => tombstoned

\* The content of a checkpoint is there before its row is committed.
Kept ==
  state \in Open /\ expiry # "final" =>
    \A k \in Checkpoints :
      /\ wpc[k] = "commit" => k \in contents
      /\ wpc[k] = "saved" => row[k] = "available" /\ k \in contents

IInv ==
  /\ TypeOK
  /\ OneAttempt
  /\ Tombstones
  /\ VerifiedErased
  /\ DeletedVerified
  /\ Kept

-----------------------------------------------------------------------------
(* Steps *)

\* What the requests and the clock do: they leave the stores alone and move
\* the run and its cleanup together, and an ended run only towards deletion.
RunMoves ==
  /\ UNCHANGED <<claimVars, storeVars, redisVars, wpc, faults, claim>>
  /\ expiry' \in {"fresh", "idle", "final"}
  /\ expiry = "final" => expiry' = "final"
  /\ cpc' \in [Cleaners -> CleanerPcs]
  /\ \A c \in Cleaners : cpc'[c] \in {cpc[c], "claim"}
  /\ \/ state \in Open /\ state' \in Open /\ cleanup' = cleanup
     \/ state \in Open /\ state' \in Ended \ {"deletion_requested", "deleted"}
          /\ cleanup' = "pending"
     \/ state \in Open /\ state' = "deletion_requested" /\ cleanup' = "pending"
     \/ state \in Ended /\ state' = state /\ cleanup' = cleanup
     \/ /\ state \in Ended /\ cleanup' = cleanup
        /\ state' = DeletionState

\* The steps of the run itself move its status as RunMoves says and touch no
\* packet, checkpoint or key.
LEMMA RunStep ==
  ASSUME TypeOK, OneAttempt,
         \/ Suspend \/ Resume \/ ExpireRun \/ RunGoesIdle \/ DeadlinePasses
         \/ \E c \in Cleaners : Request(c)
  PROVE  RunMoves
<1> USE DEF TypeOK, OneAttempt, Open, Working, Ended, RunMoves, runVars
<1>1. CASE Suspend BY <1>1 DEF Suspend
<1>2. CASE Resume BY <1>2 DEF Resume
<1>3. CASE RunGoesIdle BY <1>3 DEF RunGoesIdle
<1>4. CASE DeadlinePasses BY <1>4 DEF DeadlinePasses
<1>5. CASE ExpireRun BY <1>5 DEF ExpireRun, Sweepable
<1>6. ASSUME NEW c \in Cleaners, Ready(c) PROVE RunMoves
  BY <1>6 DEF Ready, Refreshed
<1>7. ASSUME NEW c \in Cleaners, Acknowledge(c) PROVE RunMoves
  BY <1>7 DEF Acknowledge, CleanupDue, FinishCleanup, GoTo, CleanerPcs
<1>8. ASSUME NEW c \in Cleaners, Complete(c) PROVE RunMoves
  BY <1>8 DEF Complete, CleanupDue, FinishCleanup, GoTo, CleanerPcs
<1>9. ASSUME NEW c \in Cleaners, Fail(c) PROVE RunMoves
  BY <1>9 DEF Fail, CleanupDue, FinishCleanup, GoTo, CleanerPcs
<1>10. ASSUME NEW c \in Cleaners, Delete(c) PROVE RunMoves
  BY <1>10 DEF Delete, DeletionState, CleanupDue, FinishCleanup, GoTo, CleanerPcs
<1>11. QED
  BY <1>1, <1>2, <1>3, <1>4, <1>5, <1>6, <1>7, <1>8, <1>9, <1>10 DEF Request

-----------------------------------------------------------------------------
(* Types *)

\* Every step keeps the types; a claim is numbered within the bound because a
\* cleanup is claimable only below it.
LEMMA TypeOKStep ==
  ASSUME LifecycleAssumption, TypeOK, OneAttempt, [Next]_vars
  PROVE  TypeOK'
<1> USE DEF TypeOK
<1>1. CASE RunMoves
  BY <1>1 DEF RunMoves, claimVars, storeVars, redisVars, DeletionState, Open, Working, Ended
<1>2. ASSUME NEW c \in Cleaners, ListCandidate(c) PROVE TypeOK'
  BY <1>2 DEF ListCandidate, runVars, claimVars, storeVars, redisVars, GoTo, CleanerPcs
<1>3. ASSUME NEW c \in Cleaners, ClaimCleanup(c) PROVE TypeOK'
  <2>1. [i \in Claims |-> IF i \in InProgress \cap aged THEN "retryable_failure"
                                                       ELSE evidence[i]]
          \in [Claims -> {"none", "in_progress", "verified", "retryable_failure"}]
    OBVIOUS
  <2>2. CASE Claimable
    <3>1. claims + 1 \in Claims /\ claims + 1 \in 0..MaxClaims
      BY <1>3, <2>2 DEF ClaimCleanup, Claims, LifecycleAssumption
    <3>2. QED
      BY <1>3, <2>1, <2>2, <3>1 DEF ClaimCleanup, storeVars, redisVars, CleanerPcs
  <2>3. CASE ~Claimable
    BY <1>3, <2>1, <2>3 DEF ClaimCleanup, storeVars, redisVars, Finish, CleanerPcs,
                            LifecycleAssumption
  <2>4. QED BY <2>2, <2>3
<1>4. ASSUME NEW c \in Cleaners, Tombstone(c) \/ TombstoneThrows(c) PROVE TypeOK'
  <2>1. /\ tombstoned' \in BOOLEAN
        /\ contents' \in SUBSET Checkpoints
        /\ listed' \in SUBSET Checkpoints
    BY <1>4 DEF Tombstone, TombstoneThrows, Erase, redisVars
  <2>2. faults' \in 0..MaxFaults
    BY <1>4 DEF Tombstone, TombstoneThrows, Fault, LifecycleAssumption
  <2>3. QED
    BY <1>4, <2>1, <2>2 DEF Tombstone, TombstoneThrows, runVars, claimVars, storeVars,
                            GoTo, CleanerPcs
<1>5. ASSUME NEW c \in Cleaners, RecordVerified(c) \/ RecordThrows(c) PROVE TypeOK'
  <2>1. WriteVerified(c) \/ UNCHANGED <<evidence, cleanup, state, storeVars>>
    BY <1>5 DEF RecordVerified, RecordThrows
  <2>2. /\ state' \in Open \cup Ended
        /\ cleanup' \in {"null", "pending", "in_progress", "verified", "retryable_failure"}
        /\ evidence' \in [Claims -> {"none", "in_progress", "verified", "retryable_failure"}]
        /\ packet' \in [Packets -> {"none", "approved", "claimed"} \cup Closed]
        /\ bodies' \in SUBSET Packets
        /\ row' \in [Checkpoints -> {"none", "available", "deleted", "expired"}]
    BY <2>1 DEF WriteVerified, HoldsClaim, storeVars, PacketStateIn, RowStateIn,
                Closed, Open, Working, Ended
  <2>3. QED
    BY <1>5, <2>2 DEF RecordVerified, RecordThrows, Finish, GoTo, CleanerPcs, redisVars,
                      Fault, LifecycleAssumption
<1>6. ASSUME NEW c \in Cleaners, RecordRetryable(c) PROVE TypeOK'
  BY <1>6 DEF RecordRetryable, HoldsClaim, storeVars, redisVars, Finish, CleanerPcs
<1>7. ASSUME NEW c \in Cleaners, CleanerDies(c) PROVE TypeOK'
  BY <1>7 DEF CleanerDies, runVars, claimVars, storeVars, redisVars, Finish, Fault,
              CleanerPcs, LifecycleAssumption
<1>8. ASSUME NEW i \in Claims, AttemptAges(i) \/ CleanerStalls(i) PROVE TypeOK'
  BY <1>8 DEF AttemptAges, CleanerStalls, runVars, storeVars, redisVars, Fault,
              LifecycleAssumption
<1>9. ASSUME NEW p \in Packets, CommitPacket(p) \/ ClaimPacket(p) \/ PruneBody(p)
      PROVE  TypeOK'
  BY <1>9 DEF CommitPacket, ClaimPacket, PruneBody, runVars, claimVars, redisVars
<1>10. ASSUME NEW k \in Checkpoints, WriterStep(k) PROVE TypeOK'
  BY <1>10 DEF WriterStep, CheckRun, StoreCheckpoint, CommitCheckpoint, UnlistCheckpoint,
               DeleteCheckpoint, WriterGoes, WriterPcs, runVars, claimVars, storeVars, redisVars
<1>11. ASSUME NEW k \in Checkpoints, WriterFault(k) \/ CheckpointExpires(k) PROVE TypeOK'
  BY <1>11 DEF WriterFault, StoreThrows, CommitThrows, WriterDies, CheckpointExpires,
               WriterGoes, WriterPcs, runVars, claimVars, storeVars, redisVars, Fault,
               LifecycleAssumption
<1>12. CASE UNCHANGED vars
  BY <1>12 DEF vars, runVars, claimVars, storeVars, redisVars
<1>13. QED
  BY <1>1, <1>2, <1>3, <1>4, <1>5, <1>6, <1>7, <1>8, <1>9, <1>10, <1>11, <1>12, RunStep
  DEF Next, CleanerStep, CleanerFault

-----------------------------------------------------------------------------
(* Steps that change neither the run nor the evidence, the writers' and the *)
(* cleaners' bookkeeping among them.                                        *)

Bookkeeping ==
  \/ \E c \in Cleaners :
       ListCandidate(c) \/ Tombstone(c) \/ TombstoneThrows(c) \/ CleanerDies(c)
  \/ \E i \in Claims : AttemptAges(i) \/ CleanerStalls(i)
  \/ \E p \in Packets : CommitPacket(p) \/ ClaimPacket(p) \/ PruneBody(p)
  \/ \E k \in Checkpoints : WriterStep(k) \/ WriterFault(k) \/ CheckpointExpires(k)
  \/ UNCHANGED vars

\* The steps of the clock, the packets, the checkpoints and of a cleaner between
\* its claim and its record leave the run, its cleanup and the evidence alone.
LEMMA BookkeepingFrame ==
  ASSUME Bookkeeping
  PROVE  UNCHANGED <<state, cleanup, expiry, evidence, claims>>
<1> USE DEF runVars, claimVars
<1>1. ASSUME NEW c \in Cleaners,
             ListCandidate(c) \/ Tombstone(c) \/ TombstoneThrows(c) \/ CleanerDies(c)
      PROVE  UNCHANGED <<state, cleanup, expiry, evidence, claims>>
  BY <1>1 DEF ListCandidate, Tombstone, TombstoneThrows, CleanerDies
<1>2. ASSUME NEW i \in Claims, AttemptAges(i) \/ CleanerStalls(i)
      PROVE  UNCHANGED <<state, cleanup, expiry, evidence, claims>>
  BY <1>2 DEF AttemptAges, CleanerStalls
<1>3. ASSUME NEW p \in Packets, CommitPacket(p) \/ ClaimPacket(p) \/ PruneBody(p)
      PROVE  UNCHANGED <<state, cleanup, expiry, evidence, claims>>
  BY <1>3 DEF CommitPacket, ClaimPacket, PruneBody
<1>4. ASSUME NEW k \in Checkpoints, WriterStep(k) \/ WriterFault(k) \/ CheckpointExpires(k)
      PROVE  UNCHANGED <<state, cleanup, expiry, evidence, claims>>
  BY <1>4 DEF WriterStep, CheckRun, StoreCheckpoint, CommitCheckpoint, UnlistCheckpoint,
              DeleteCheckpoint, WriterFault, StoreThrows, CommitThrows, WriterDies,
              CheckpointExpires
<1>5. CASE UNCHANGED vars BY <1>5 DEF vars
<1>6. QED BY <1>1, <1>2, <1>3, <1>4, <1>5 DEF Bookkeeping

\* The steps of the run, what only keeps books, and the three steps that
\* write evidence.
LEMMA NextCases ==
  ASSUME TypeOK, OneAttempt, [Next]_vars
  PROVE  \/ RunMoves
         \/ Bookkeeping
         \/ \E c \in Cleaners : ClaimCleanup(c)
         \/ \E c \in Cleaners : RecordVerified(c) \/ RecordThrows(c)
         \/ \E c \in Cleaners : RecordRetryable(c)
BY RunStep DEF Next, CleanerStep, CleanerFault, Bookkeeping

-----------------------------------------------------------------------------
(* The evidence *)

\* Every step keeps OneAttempt: a claim that supersedes aged attempts fails them
\* first, and only the attempt in progress can be verified.
LEMMA OneAttemptStep ==
  ASSUME LifecycleAssumption, TypeOK, OneAttempt, [Next]_vars
  PROVE  OneAttempt'
<1> USE DEF OneAttempt
<1>1. CASE RunMoves
  BY <1>1 DEF RunMoves, claimVars, DeletionState, Open, Working, Ended
<1>2. CASE Bookkeeping
  BY <1>2, BookkeepingFrame
<1>3. ASSUME NEW c \in Cleaners, ClaimCleanup(c) PROVE OneAttempt'
  <2>1. CASE Claimable
    <3>1. /\ claims' = claims + 1 /\ claims \in Nat /\ claims + 1 \in Claims
          /\ cleanup' = "in_progress" /\ state' = state
          /\ cleanup \in {"pending", "retryable_failure", "in_progress"}
      BY <1>3, <2>1 DEF ClaimCleanup, Claimable, Claims, TypeOK, LifecycleAssumption
    <3>2. \A i \in Claims :
            /\ i = claims + 1 => evidence'[i] = "in_progress"
            /\ i # claims + 1 => evidence'[i] # "in_progress"
            /\ i # claims + 1 /\ evidence[i] # "in_progress" => evidence'[i] = evidence[i]
            /\ i # claims + 1 /\ evidence[i] = "in_progress"
                 => evidence'[i] = "retryable_failure"
      BY <1>3, <2>1, <3>1 DEF ClaimCleanup, Claimable, InProgress, TypeOK
    <3>3. QED
      BY <3>1, <3>2 DEF Claims
  <2>2. CASE ~Claimable
    <3>1. InProgress \cap aged = {}
      BY <2>2 DEF Claimable, InProgress
    <3>2. evidence' = evidence
      BY <1>3, <2>2, <3>1 DEF ClaimCleanup, TypeOK
    <3>3. QED
      BY <1>3, <2>2, <3>2 DEF ClaimCleanup
  <2>3. QED BY <2>1, <2>2
<1>4. ASSUME NEW c \in Cleaners, RecordVerified(c) \/ RecordThrows(c) PROVE OneAttempt'
  <2>1. CASE UNCHANGED <<evidence, cleanup, state>>
    BY <1>4, <2>1 DEF RecordVerified, RecordThrows
  <2>2. CASE /\ HoldsClaim(c)
             /\ evidence' = [evidence EXCEPT ![claim[c]] = "verified"]
             /\ cleanup' = "verified"
             /\ state' = IF state = "deletion_requested" THEN "deleted" ELSE state
    <3>1. claim[c] \in Claims /\ claims' = claims
      BY <1>4, <2>2 DEF RecordVerified, RecordThrows, HoldsClaim, Claims, TypeOK
    <3>2. QED
      BY <2>2, <3>1 DEF HoldsClaim, Ended, TypeOK
  <2>3. QED
    BY <1>4, <2>1, <2>2 DEF RecordVerified, RecordThrows, WriteVerified
<1>5. ASSUME NEW c \in Cleaners, RecordRetryable(c) PROVE OneAttempt'
  <2>1. CASE HoldsClaim(c)
    <3>1. claim[c] \in Claims
      BY <2>1 DEF HoldsClaim, Claims, TypeOK
    <3>2. QED
      BY <1>5, <2>1, <3>1 DEF RecordRetryable, HoldsClaim, TypeOK
  <2>2. CASE ~HoldsClaim(c)
    BY <1>5, <2>2 DEF RecordRetryable
  <2>3. QED BY <2>1, <2>2
<1>6. QED
  BY <1>1, <1>2, <1>3, <1>4, <1>5, NextCases

-----------------------------------------------------------------------------
(* Tombstones *)

\* Every step keeps Tombstones: the claim moves the run to an ended state before
\* any cleaner can tombstone it, and no ended run is opened again.
LEMMA TombstonesStep ==
  ASSUME LifecycleAssumption, TypeOK, OneAttempt, Tombstones, [Next]_vars
  PROVE  Tombstones'
<1> USE DEF Tombstones
<1>1. CASE RunMoves
  BY <1>1 DEF RunMoves, redisVars, DeletionState, Open, Working, Ended
<1>2. ASSUME NEW c \in Cleaners, ListCandidate(c) \/ CleanerDies(c) PROVE Tombstones'
  BY <1>2 DEF ListCandidate, CleanerDies, GoTo, Finish, runVars, redisVars, TypeOK
<1>3. ASSUME NEW c \in Cleaners, ClaimCleanup(c) PROVE Tombstones'
  <2>1. cleanup \in {"pending", "retryable_failure", "in_progress"} => state \in Ended
    BY DEF OneAttempt
  <2>2. QED
    BY <1>3, <2>1 DEF ClaimCleanup, Claimable, Finish, redisVars, TypeOK
<1>4. ASSUME NEW c \in Cleaners, Tombstone(c) \/ TombstoneThrows(c) PROVE Tombstones'
  BY <1>4 DEF Tombstone, TombstoneThrows, Erase, GoTo, runVars, redisVars, TypeOK
<1>5. ASSUME NEW c \in Cleaners,
             RecordVerified(c) \/ RecordThrows(c) \/ RecordRetryable(c)
      PROVE  Tombstones'
  <2>1. state \in Ended => state' \in Ended
    BY <1>5 DEF RecordVerified, RecordThrows, RecordRetryable, WriteVerified, Ended
  <2>2. QED
    BY <1>5, <2>1 DEF RecordVerified, RecordThrows, RecordRetryable, Finish, GoTo,
                      redisVars, TypeOK
<1>6. ASSUME NEW i \in Claims, AttemptAges(i) \/ CleanerStalls(i) PROVE Tombstones'
  BY <1>6 DEF AttemptAges, CleanerStalls, runVars, redisVars
<1>7. ASSUME NEW p \in Packets, CommitPacket(p) \/ ClaimPacket(p) \/ PruneBody(p)
      PROVE  Tombstones'
  BY <1>7 DEF CommitPacket, ClaimPacket, PruneBody, runVars, redisVars
<1>8. ASSUME NEW k \in Checkpoints, WriterStep(k) \/ WriterFault(k) \/ CheckpointExpires(k)
      PROVE  Tombstones'
  <2>1. state' = state /\ tombstoned' = tombstoned /\ cpc' = cpc
    BY <1>8 DEF WriterStep, CheckRun, StoreCheckpoint, CommitCheckpoint, UnlistCheckpoint,
                DeleteCheckpoint, WriterFault, StoreThrows, CommitThrows, WriterDies,
                CheckpointExpires, runVars, redisVars
  <2>2. tombstoned => listed' \subseteq listed
    BY <1>8 DEF WriterStep, CheckRun, StoreCheckpoint, CommitCheckpoint, UnlistCheckpoint,
                DeleteCheckpoint, WriterFault, StoreThrows, CommitThrows, WriterDies,
                CheckpointExpires, ChildAllowed, redisVars
  <2>3. QED
    BY <2>1, <2>2
<1>9. CASE UNCHANGED vars
  BY <1>9 DEF vars, runVars, redisVars
<1>10. QED
  BY <1>1, <1>2, <1>3, <1>4, <1>5, <1>6, <1>7, <1>8, <1>9, RunStep
  DEF Next, CleanerStep, CleanerFault

-----------------------------------------------------------------------------
(* What a verified cleanup has erased *)

\* Every step keeps VerifiedErased: after the tombstone no key is listed again,
\* and the record of a verified cleanup erases the rest in one statement.
LEMMA VerifiedErasedStep ==
  ASSUME LifecycleAssumption, TypeOK, OneAttempt, Tombstones, VerifiedErased, [Next]_vars
  PROVE  VerifiedErased'
<1> USE DEF VerifiedErased
<1>0. cleanup = "verified" => state \in Ended
  BY DEF OneAttempt
<1>1. CASE RunMoves
  BY <1>1 DEF RunMoves, storeVars, redisVars
<1>2. ASSUME NEW c \in Cleaners, ListCandidate(c) \/ CleanerDies(c) PROVE VerifiedErased'
  BY <1>2 DEF ListCandidate, CleanerDies, runVars, storeVars, redisVars
<1>3. ASSUME NEW c \in Cleaners, ClaimCleanup(c) \/ RecordRetryable(c) PROVE VerifiedErased'
  BY <1>3 DEF ClaimCleanup, Claimable, RecordRetryable, storeVars, redisVars
<1>4. ASSUME NEW c \in Cleaners, Tombstone(c) \/ TombstoneThrows(c) PROVE VerifiedErased'
  BY <1>4 DEF Tombstone, TombstoneThrows, Erase, runVars, storeVars, redisVars
<1>5. ASSUME NEW c \in Cleaners, RecordVerified(c) \/ RecordThrows(c) PROVE VerifiedErased'
  <2>1. UNCHANGED redisVars /\ cpc[c] = "record"
    BY <1>5 DEF RecordVerified, RecordThrows
  <2>2. CASE UNCHANGED <<evidence, cleanup, state, storeVars>>
    BY <2>1, <2>2 DEF storeVars, redisVars
  <2>3. CASE HoldsClaim(c) /\ WriteVerified(c)
    <3>1. tombstoned /\ listed = {}
      BY <2>1 DEF Tombstones
    <3>2. bodies' = {} /\ \A p \in Packets : packet'[p] \in Closed \cup {"none"}
      BY <2>3 DEF WriteVerified, PacketStateIn, Closed
    <3>3. \A k \in Checkpoints : row'[k] # "available"
      BY <2>3 DEF WriteVerified, RowStateIn
    <3>4. QED BY <2>1, <3>1, <3>2, <3>3 DEF redisVars
  <2>4. QED
    BY <1>5, <2>2, <2>3 DEF RecordVerified, RecordThrows, WriteVerified
<1>6. ASSUME NEW i \in Claims, AttemptAges(i) \/ CleanerStalls(i) PROVE VerifiedErased'
  BY <1>6 DEF AttemptAges, CleanerStalls, runVars, storeVars, redisVars
<1>7. ASSUME NEW p \in Packets, CommitPacket(p) \/ ClaimPacket(p) \/ PruneBody(p)
      PROVE  VerifiedErased'
  BY <1>0, <1>7 DEF CommitPacket, ClaimPacket, PruneBody, runVars, redisVars, Ended, TypeOK
<1>8. ASSUME NEW k \in Checkpoints, WriterStep(k) \/ WriterFault(k) \/ CheckpointExpires(k)
      PROVE  VerifiedErased'
  <2>1. UNCHANGED <<cleanup, packet, bodies, tombstoned>>
    BY <1>8 DEF WriterStep, CheckRun, StoreCheckpoint, CommitCheckpoint, UnlistCheckpoint,
                DeleteCheckpoint, WriterFault, StoreThrows, CommitThrows, WriterDies,
                CheckpointExpires, runVars, storeVars, redisVars
  <2>2. tombstoned => listed' \subseteq listed
    BY <1>8 DEF WriterStep, CheckRun, StoreCheckpoint, CommitCheckpoint, UnlistCheckpoint,
                DeleteCheckpoint, WriterFault, StoreThrows, CommitThrows, WriterDies,
                CheckpointExpires, ChildAllowed, redisVars
  <2>3. state \in Ended => row' = row
    BY <1>8 DEF WriterStep, CheckRun, StoreCheckpoint, CommitCheckpoint, UnlistCheckpoint,
                DeleteCheckpoint, WriterFault, StoreThrows, CommitThrows, WriterDies,
                CheckpointExpires, CommitAllowed, Working, Ended, storeVars
  <2>4. QED
    BY <1>0, <2>1, <2>2, <2>3
<1>9. CASE UNCHANGED vars
  BY <1>9 DEF vars, runVars, storeVars, redisVars
<1>10. QED
  BY <1>1, <1>2, <1>3, <1>4, <1>5, <1>6, <1>7, <1>8, <1>9, RunStep
  DEF Next, CleanerStep, CleanerFault

-----------------------------------------------------------------------------
(* Deletion *)

\* Every step keeps DeletedVerified: only the record of a verified cleanup moves
\* a run to deleted.
LEMMA DeletedVerifiedStep ==
  ASSUME LifecycleAssumption, TypeOK, OneAttempt, DeletedVerified, [Next]_vars
  PROVE  DeletedVerified'
<1> USE DEF DeletedVerified
<1>1. CASE RunMoves
  BY <1>1 DEF RunMoves, DeletionState, OneAttempt, Open, Working, Ended
<1>2. CASE Bookkeeping
  BY <1>2, BookkeepingFrame
<1>3. ASSUME NEW c \in Cleaners, ClaimCleanup(c) \/ RecordRetryable(c) PROVE DeletedVerified'
  BY <1>3 DEF ClaimCleanup, Claimable, RecordRetryable, HoldsClaim
<1>4. ASSUME NEW c \in Cleaners, RecordVerified(c) \/ RecordThrows(c) PROVE DeletedVerified'
  BY <1>4 DEF RecordVerified, RecordThrows, WriteVerified, HoldsClaim
<1>5. QED
  BY <1>1, <1>2, <1>3, <1>4, NextCases

-----------------------------------------------------------------------------
(* Saved checkpoints *)

\* Every step keeps Kept: a pointer is written after its object and goes before
\* it.
LEMMA KeptStep ==
  ASSUME LifecycleAssumption, TypeOK, OneAttempt, Tombstones, Kept, [Next]_vars
  PROVE  Kept'
<1> USE DEF Kept
<1>1. CASE RunMoves
  BY <1>1 DEF RunMoves, storeVars, redisVars, DeletionState, Open, Working, Ended
<1>2. ASSUME NEW c \in Cleaners,
             ListCandidate(c) \/ CleanerDies(c) \/ ClaimCleanup(c) \/ RecordRetryable(c)
      PROVE  Kept'
  BY <1>2 DEF ListCandidate, CleanerDies, ClaimCleanup, RecordRetryable, runVars, storeVars,
              redisVars
<1>3. ASSUME NEW c \in Cleaners, Tombstone(c) \/ TombstoneThrows(c) PROVE Kept'
  <2>1. state' = state /\ state \in Ended
    BY <1>3 DEF Tombstone, TombstoneThrows, Tombstones, runVars
  <2>2. QED BY <2>1 DEF Open, Working, Ended
<1>4. ASSUME NEW c \in Cleaners, RecordVerified(c) \/ RecordThrows(c) PROVE Kept'
  <2>1. state' \in Ended
    BY <1>4 DEF RecordVerified, RecordThrows, WriteVerified, Tombstones, Ended
  <2>2. QED BY <2>1 DEF Open, Working, Ended
<1>5. ASSUME NEW i \in Claims, AttemptAges(i) \/ CleanerStalls(i) PROVE Kept'
  BY <1>5 DEF AttemptAges, CleanerStalls, runVars, storeVars, redisVars
<1>6. ASSUME NEW p \in Packets, CommitPacket(p) \/ ClaimPacket(p) \/ PruneBody(p)
      PROVE  Kept'
  BY <1>6 DEF CommitPacket, ClaimPacket, PruneBody, runVars, redisVars
<1>7. ASSUME NEW k \in Checkpoints, WriterStep(k) PROVE Kept'
  <2>1. ASSUME CheckRun(k) \/ StoreCheckpoint(k) PROVE Kept'
    BY <2>1 DEF CheckRun, StoreCheckpoint, WriterGoes, runVars, storeVars, redisVars, TypeOK
  <2>2. ASSUME CommitCheckpoint(k) PROVE Kept'
    BY <2>2 DEF CommitCheckpoint, WriterGoes, runVars, redisVars, TypeOK
  <2>3. ASSUME UnlistCheckpoint(k) \/ DeleteCheckpoint(k) PROVE Kept'
    BY <2>3 DEF UnlistCheckpoint, DeleteCheckpoint, WriterGoes, runVars, storeVars, TypeOK
  <2>4. QED BY <1>7, <2>1, <2>2, <2>3 DEF WriterStep
<1>8. ASSUME NEW k \in Checkpoints, WriterFault(k) \/ CheckpointExpires(k) PROVE Kept'
  <2>1. ASSUME StoreThrows(k) \/ WriterDies(k) PROVE Kept'
    BY <2>1 DEF StoreThrows, WriterDies, WriterGoes, runVars, storeVars, redisVars, TypeOK
  <2>2. ASSUME CommitThrows(k) PROVE Kept'
    BY <2>2 DEF CommitThrows, WriterGoes, runVars, redisVars, TypeOK
  <2>3. ASSUME CheckpointExpires(k) PROVE Kept'
    BY <2>3 DEF CheckpointExpires, runVars
  <2>4. QED BY <1>8, <2>1, <2>2, <2>3 DEF WriterFault
<1>9. CASE UNCHANGED vars
  BY <1>9 DEF vars, runVars, storeVars, redisVars
<1>10. QED
  BY <1>1, <1>2, <1>3, <1>4, <1>5, <1>6, <1>7, <1>8, <1>9, RunStep
  DEF Next, CleanerStep, CleanerFault

-----------------------------------------------------------------------------
(* Theorems *)

\* The run that createRun leaves satisfies every part of the invariant.
LEMMA InitInvariant ==
  ASSUME LifecycleAssumption, Init
  PROVE  IInv
<1>1. TypeOK
  <2>1. claims \in 0..MaxClaims /\ faults \in 0..MaxFaults /\ claim \in [Cleaners -> 0..MaxClaims]
    BY DEF LifecycleAssumption, Init
  <2>2. /\ cpc \in [Cleaners -> CleanerPcs] /\ wpc \in [Checkpoints -> WriterPcs]
        /\ packet \in [Packets -> {"none", "approved", "claimed"} \cup Closed]
    BY DEF Init, CleanerPcs, WriterPcs
  <2>3. /\ evidence \in [Claims -> {"none", "in_progress", "verified", "retryable_failure"}]
        /\ row \in [Checkpoints -> {"none", "available", "deleted", "expired"}]
    BY DEF Init
  <2>4. QED BY <2>1, <2>2, <2>3 DEF Init, TypeOK, Open, Working
<1>2. OneAttempt
  BY DEF Init, OneAttempt, Ended
<1>3. Tombstones /\ VerifiedErased /\ DeletedVerified
  BY DEF Init, Tombstones, VerifiedErased, DeletedVerified
<1>4. Kept
  BY DEF Init, Kept
<1>5. QED BY <1>1, <1>2, <1>3, <1>4 DEF IInv

\* The inductive invariant holds for every number of packets, checkpoints,
\* cleaners, claims and faults.
THEOREM LifecycleInvariant == Spec => []IInv
<1>1. Init => IInv
  BY InitInvariant, LifecycleAssumption
<1>2. IInv /\ [Next]_vars => IInv'
  BY LifecycleAssumption, TypeOKStep, OneAttemptStep, TombstonesStep, VerifiedErasedStep,
     DeletedVerifiedStep, KeptStep
  DEF IInv
<1>3. QED BY <1>1, <1>2, PTL DEF Spec

\* Every variable keeps its type.
THEOREM LifecycleTypeCorrect == Spec => []TypeOK
<1>1. IInv => TypeOK BY DEF IInv
<1>2. QED BY <1>1, LifecycleInvariant, PTL

\* OneAttempt, said with the cardinalities that EvidenceMatches counts.
LEMMA EvidenceCounts ==
  ASSUME OneAttempt
  PROVE  EvidenceMatches
<1>1. ASSUME NEW S, NEW i \in S, \A j \in S : j = i
      PROVE  Cardinality(S) = 1
  <2>1. S = {i} BY <1>1
  <2>2. QED BY <2>1, FS_Singleton
<1>2. Cardinality({}) # 1
  BY FS_EmptySet
<1>3. CASE cleanup = "in_progress"
  <2>1. PICK i \in InProgress : TRUE BY <1>3 DEF OneAttempt, InProgress
  <2>2. Cardinality(InProgress) = 1 BY <1>1, <2>1 DEF OneAttempt, InProgress
  <2>3. {j \in Claims : evidence[j] = "verified"} = {} BY <1>3 DEF OneAttempt
  <2>4. QED BY <1>2, <1>3, <2>2, <2>3 DEF EvidenceMatches, OneAttempt
<1>4. CASE cleanup = "verified"
  <2> DEFINE V == {j \in Claims : evidence[j] = "verified"}
  <2>1. PICK i \in V : TRUE BY <1>4 DEF OneAttempt
  <2>2. Cardinality(V) = 1
    <3>1. \A j \in V : j = i BY <2>1 DEF OneAttempt
    <3>2. QED BY <1>1, <2>1, <3>1
  <2>3. InProgress = {} BY <1>4 DEF OneAttempt, InProgress
  <2>4. QED BY <1>2, <1>4, <2>2, <2>3 DEF EvidenceMatches, OneAttempt
<1>5. CASE cleanup \notin {"in_progress", "verified"}
  <2>1. InProgress = {} BY <1>5 DEF OneAttempt, InProgress
  <2>2. {j \in Claims : evidence[j] = "verified"} = {} BY <1>5 DEF OneAttempt
  <2>3. QED BY <1>2, <1>5, <2>1, <2>2 DEF EvidenceMatches, OneAttempt
<1>6. QED BY <1>3, <1>4, <1>5

\* The cleanup attempts tell the run's story: one at a time has the cleanup,
\* and exactly one has verified a verified run.
THEOREM EvidenceSafe == Spec => []EvidenceMatches
<1>1. IInv => EvidenceMatches BY EvidenceCounts DEF IInv
<1>2. QED BY <1>1, LifecycleInvariant, PTL

\* Nothing of a run whose cleanup is verified can be read or found again.
THEOREM ErasureSafe == Spec => []VerifiedErased
<1>1. IInv => VerifiedErased BY DEF IInv
<1>2. QED BY <1>1, LifecycleInvariant, PTL

\* A run is recorded as deleted only after its cleanup was verified.
THEOREM DeletionSafe == Spec => []DeletedVerified
<1>1. IInv => DeletedVerified BY DEF IInv
<1>2. QED BY <1>1, LifecycleInvariant, PTL

\* A checkpoint whose save was confirmed stays readable while the run is open.
THEOREM SavedSafe == Spec => []SavedRecoverable
<1>1. IInv => SavedRecoverable BY DEF IInv, Kept, SavedRecoverable
<1>2. QED BY <1>1, LifecycleInvariant, PTL

\* A run that has ended stays ended, and a verified cleanup stays verified.
THEOREM EndSafe == Spec => EndIsFinal
<1> DEFINE Final ==
      /\ state \in Ended => state' \in {state, "deletion_requested", "deleted"}
      /\ state = "deleted" => state' = "deleted"
      /\ cleanup = "verified" => cleanup' = "verified"
<1>1. IInv /\ [Next]_vars => [Final]_vars
  <2> SUFFICES ASSUME TypeOK, OneAttempt, [Next]_vars PROVE Final
    BY DEF IInv
  <2>1. CASE RunMoves
    BY <2>1 DEF RunMoves, DeletionState, OneAttempt, Open, Working, Ended
  <2>2. CASE Bookkeeping
    BY <2>2, BookkeepingFrame
  <2>3. ASSUME NEW c \in Cleaners, ClaimCleanup(c) \/ RecordRetryable(c) PROVE Final
    BY <2>3 DEF ClaimCleanup, Claimable, RecordRetryable, HoldsClaim
  <2>4. ASSUME NEW c \in Cleaners, RecordVerified(c) \/ RecordThrows(c) PROVE Final
    BY <2>4 DEF RecordVerified, RecordThrows, WriteVerified
  <2>5. QED BY <2>1, <2>2, <2>3, <2>4, NextCases
<1>2. QED BY <1>1, LifecycleInvariant, PTL DEF Spec, EndIsFinal

-----------------------------------------------------------------------------
(* RunContract: what a browser sees of the run *)

\* A step the browser does not see.
Unseen == UNCHANGED <<state, cleanup = "verified", expiry = "final", Readable>>

\* What can be read back depends on the writers, the rows and the keys alone.
LEMMA ReadableKept ==
  ASSUME UNCHANGED <<wpc, row, contents>>
  PROVE  Readable' = Readable
BY DEF Readable

\* Every step of the requests that move the run, and of its clock, is the
\* contract's step of the same name, or repeats what has been done.
LEMMA ContractRunStep ==
  ASSUME TypeOK, OneAttempt, DeletedVerified,
         \/ Suspend \/ Resume \/ ExpireRun \/ RunGoesIdle \/ DeadlinePasses
         \/ \E c \in Cleaners : Request(c)
  PROVE  Contract!Next \/ Unseen
<1> USE DEF Unseen, storeVars, redisVars
<1>0. Readable' = Readable
  BY ReadableKept
  DEF Suspend, Resume, ExpireRun, RunGoesIdle, DeadlinePasses, Request, Ready, Acknowledge,
      Complete, Fail, Delete
<1>1. CASE Suspend
  <2>1. Contract!Suspend
    BY <1>0, <1>1 DEF Suspend, Working, Contract!Suspend, Contract!Move, Contract!Working
  <2>2. QED BY <2>1 DEF Contract!Next
<1>2. CASE Resume
  <2>1. Contract!Resume
    BY <1>0, <1>2 DEF Resume, Contract!Resume, Contract!Move
  <2>2. QED BY <2>1 DEF Contract!Next
<1>3. CASE ExpireRun
  <2>1. cleanup = "null" BY <1>3 DEF ExpireRun, Sweepable, OneAttempt, Open, Working, Ended
  <2>2. Contract!Expire
    BY <1>0, <1>3, <2>1
    DEF ExpireRun, Sweepable, Open, Working, Contract!Expire, Contract!Move, Contract!Open,
        Contract!Working
  <2>3. QED BY <2>2 DEF Contract!Next
<1>4. CASE RunGoesIdle
  BY <1>0, <1>4 DEF RunGoesIdle
<1>5. CASE DeadlinePasses
  <2>1. Contract!DeadlinePasses
    BY <1>0, <1>5 DEF DeadlinePasses, Contract!DeadlinePasses
  <2>2. QED BY <2>1 DEF Contract!Next
<1>6. ASSUME NEW c \in Cleaners, Ready(c) PROVE Contract!Next
  <2>1. Contract!Ready
    BY <1>0, <1>6 DEF Ready, Refreshed, Contract!Ready, Contract!Move
  <2>2. QED BY <2>1 DEF Contract!Next
<1>7. ASSUME NEW c \in Cleaners, Acknowledge(c) PROVE Contract!Next \/ Unseen
  <2>1. CASE state = "ready_for_delivery"
    <3>1. Contract!Acknowledge
      BY <1>0, <1>7, <2>1 DEF Acknowledge, CleanupDue, Contract!Acknowledge, Contract!Move
    <3>2. QED BY <3>1 DEF Contract!Next
  <2>2. CASE state = "completed"
    BY <1>0, <1>7, <2>2 DEF Acknowledge, CleanupDue
  <2>3. QED BY <1>7, <2>1, <2>2 DEF Acknowledge
<1>8. ASSUME NEW c \in Cleaners, Complete(c) PROVE Contract!Next \/ Unseen
  <2>1. CASE state = "active"
    <3>1. Contract!Complete
      BY <1>0, <1>8, <2>1 DEF Complete, CleanupDue, Contract!Complete, Contract!Move
    <3>2. QED BY <3>1 DEF Contract!Next
  <2>2. CASE state = "completed"
    BY <1>0, <1>8, <2>2 DEF Complete, CleanupDue
  <2>3. QED BY <1>8, <2>1, <2>2 DEF Complete
<1>9. ASSUME NEW c \in Cleaners, Fail(c) PROVE Contract!Next \/ Unseen
  <2>1. CASE state \in Working
    <3>1. Contract!Fail
      BY <1>0, <1>9, <2>1
      DEF Fail, CleanupDue, Working, Contract!Fail, Contract!Move, Contract!Working
    <3>2. QED BY <3>1 DEF Contract!Next
  <2>2. CASE state = "failed"
    BY <1>0, <1>9, <2>2 DEF Fail, CleanupDue
  <2>3. QED BY <1>9, <2>1, <2>2 DEF Fail
<1>10. ASSUME NEW c \in Cleaners, Delete(c) PROVE Contract!Next
  <2>1. state' = IF cleanup = "verified" THEN "deleted" ELSE "deletion_requested"
    BY <1>10 DEF Delete, DeletionState, DeletedVerified
  <2>2. state # "none" BY DEF TypeOK, Open, Working, Ended
  <2>3. Contract!Delete
    BY <1>0, <1>10, <2>1, <2>2 DEF Delete, CleanupDue, Contract!Delete
  <2>4. QED BY <2>3 DEF Contract!Next
<1>11. QED
  BY <1>1, <1>2, <1>3, <1>4, <1>5, <1>6, <1>7, <1>8, <1>9, <1>10 DEF Request

\* The steps of a cleaner after its request: a tombstone may take what can be
\* read back, because the run has ended; the record of a verified cleanup is
\* the contract's erasure; the others do not show.
LEMMA ContractCleanerStep ==
  ASSUME TypeOK, OneAttempt, Tombstones, NEW c \in Cleaners,
         ListCandidate(c) \/ CleanerStep(c) \/ CleanerFault(c)
  PROVE  Contract!Next \/ Unseen
<1> USE DEF Unseen, runVars, claimVars, storeVars, redisVars
<1>1. CASE ListCandidate(c) \/ CleanerDies(c)
  BY <1>1, ReadableKept DEF ListCandidate, CleanerDies
<1>2. CASE ClaimCleanup(c) \/ RecordRetryable(c)
  BY <1>2, ReadableKept DEF ClaimCleanup, Claimable, RecordRetryable, HoldsClaim
<1>3. CASE Tombstone(c) \/ TombstoneThrows(c)
  <2>1. state \in Ended BY <1>3 DEF Tombstone, TombstoneThrows, Tombstones
  <2>2. Readable' \in SUBSET Readable
    BY <1>3 DEF Tombstone, TombstoneThrows, Erase, Readable
  <2>3. Contract!Forget
    BY <1>3, <2>1, <2>2 DEF Tombstone, TombstoneThrows, Ended, Contract!Forget, Contract!Ended
  <2>4. QED BY <2>3 DEF Contract!Next
<1>4. CASE RecordVerified(c) \/ RecordThrows(c)
  <2>1. UNCHANGED <<wpc, contents, expiry>> /\ cpc[c] = "record"
    BY <1>4 DEF RecordVerified, RecordThrows
  <2>2. CASE UNCHANGED <<evidence, cleanup, state, storeVars>>
    BY <2>1, <2>2, ReadableKept
  <2>3. CASE HoldsClaim(c) /\ WriteVerified(c)
    <3>1. state \in Ended BY <2>1 DEF Tombstones
    <3>2. Readable' = {} BY <2>3 DEF WriteVerified, RowStateIn, Readable
    <3>3. Contract!Erase
      BY <2>1, <2>3, <3>1, <3>2 DEF WriteVerified, HoldsClaim, Ended, Contract!Erase, Contract!Ended
    <3>4. QED BY <3>3 DEF Contract!Next
  <2>4. QED BY <1>4, <2>2, <2>3 DEF RecordVerified, RecordThrows, WriteVerified
<1>5. QED BY <1>1, <1>2, <1>3, <1>4 DEF CleanerStep, CleanerFault

\* A checkpoint can be read back from the commit that saves it, which the run's
\* state allows; every other await of its writer is out of sight.
LEMMA ContractWriterStep ==
  ASSUME TypeOK, Kept, NEW k \in Checkpoints,
         WriterStep(k) \/ WriterFault(k) \/ CheckpointExpires(k)
  PROVE  Contract!Next \/ Unseen
<1> USE DEF Unseen, runVars, claimVars, storeVars, redisVars
<1>1. UNCHANGED <<state, cleanup, expiry>>
  BY DEF WriterStep, CheckRun, StoreCheckpoint, CommitCheckpoint, UnlistCheckpoint,
         DeleteCheckpoint, WriterFault, StoreThrows, CommitThrows, WriterDies, CheckpointExpires
<1>2. CASE CheckRun(k) \/ StoreCheckpoint(k) \/ StoreThrows(k)
  BY <1>1, <1>2 DEF CheckRun, StoreCheckpoint, StoreThrows, WriterGoes, Readable, TypeOK
<1>3. CASE UnlistCheckpoint(k) \/ DeleteCheckpoint(k) \/ WriterDies(k) \/ CommitThrows(k)
  BY <1>1, <1>3 DEF UnlistCheckpoint, DeleteCheckpoint, WriterDies, CommitThrows, WriterGoes,
                    Readable, TypeOK
<1>4. CASE CommitCheckpoint(k)
  <2>1. CASE CommitAllowed
    <3>1. state \in Working /\ expiry # "final" BY <2>1 DEF CommitAllowed
    <3>2. k \in contents BY <1>4, <3>1 DEF Kept, CommitCheckpoint, Open
    <3>3. Readable' = Readable \cup {k}
      BY <1>4, <2>1, <3>2 DEF CommitCheckpoint, WriterGoes, Readable, TypeOK
    <3>4. Contract!Save
      BY <1>1, <3>1, <3>3 DEF Working, Contract!Save, Contract!Working
    <3>5. QED BY <3>4 DEF Contract!Next
  <2>2. CASE ~CommitAllowed
    BY <1>1, <1>4, <2>2 DEF CommitCheckpoint, WriterGoes, Readable, TypeOK
  <2>3. QED BY <2>1, <2>2
<1>5. CASE CheckpointExpires(k)
  <2>1. Readable' \in SUBSET Readable BY <1>5 DEF CheckpointExpires, Readable
  <2>2. Contract!Forget BY <1>1, <1>5, <2>1 DEF CheckpointExpires, Contract!Forget
  <2>3. QED BY <2>2 DEF Contract!Next
<1>6. QED BY <1>2, <1>3, <1>4, <1>5 DEF WriterStep, WriterFault

\* Every step is one of the contract's or out of the browser's sight.
LEMMA ContractStep ==
  ASSUME IInv, [Next]_vars
  PROVE  Contract!Next \/ Unseen
<1>1. CASE \/ Suspend \/ Resume \/ ExpireRun \/ RunGoesIdle \/ DeadlinePasses
           \/ \E c \in Cleaners : Request(c)
  BY <1>1, ContractRunStep DEF IInv
<1>2. ASSUME NEW c \in Cleaners, ListCandidate(c) \/ CleanerStep(c) \/ CleanerFault(c)
      PROVE  Contract!Next \/ Unseen
  BY <1>2, ContractCleanerStep DEF IInv
<1>3. ASSUME NEW i \in Claims, AttemptAges(i) \/ CleanerStalls(i) PROVE Unseen
  BY <1>3, ReadableKept DEF AttemptAges, CleanerStalls, Unseen, runVars, storeVars, redisVars
<1>4. ASSUME NEW p \in Packets, CommitPacket(p) \/ ClaimPacket(p) \/ PruneBody(p)
      PROVE  Unseen
  BY <1>4, ReadableKept DEF CommitPacket, ClaimPacket, PruneBody, Unseen, runVars, redisVars
<1>5. ASSUME NEW k \in Checkpoints, WriterStep(k) \/ WriterFault(k) \/ CheckpointExpires(k)
      PROVE  Contract!Next \/ Unseen
  BY <1>5, ContractWriterStep DEF IInv
<1>6. CASE UNCHANGED vars
  BY <1>6, ReadableKept DEF vars, runVars, storeVars, redisVars, Unseen
<1>7. QED BY <1>1, <1>2, <1>3, <1>4, <1>5, <1>6 DEF Next

\* To a browser the run behaves as RunContract says, for every set of cleaners
\* and checkpoints: what can be read back shrinks only when the run has ended or
\* is past its deadline, and is gone when its cleanup is verified.
THEOREM LifecycleKeepsContract == Spec => KeepsContract
<1>1. Init => Contract!Init
  BY DEF Init, Contract!Init, Readable
<1>2. IInv /\ [Next]_vars => [Contract!Next]_(Contract!vars)
  BY ContractStep DEF Unseen, Contract!vars
<1>3. QED
  BY <1>1, <1>2, LifecycleInvariant, PTL DEF Spec, KeepsContract, Contract!Spec
=============================================================================
