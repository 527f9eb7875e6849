---------------------------- MODULE BrowserProofs ----------------------------
(***************************************************************************)
(* Theorems about what the browser does.                                    *)
(*                                                                         *)
(* About ReportDelivery for every number of runs, mishaps and turns of the  *)
(* user: the types, that a report the user has not cleared can be opened    *)
(* again, that a run is acknowledged only after a report of it was shown,   *)
(* and that the server's runs keep RunContract.                             *)
(*                                                                         *)
(* About StageClient for every length of the chain and every number of      *)
(* faults, however slow the gateway: the types, and that only an attempt    *)
(* left because it was not found in time can be at work beside another, be  *)
(* accepted in the place of the one whose text was returned, or replace it. *)
(***************************************************************************)
EXTENDS ReportDelivery, StageClient, TLAPS

-----------------------------------------------------------------------------
(* The delivery of reports: the inductive invariant *)

\* The run an analysis works on has been created; the page knows of no run
\* that has not, and what is on the screen or saved has been on the screen.
Known ==
  /\ pipeline.at \notin {"none", "create"} => pipeline.run \in Runs /\ state[pipeline.run] # "none"
  /\ key # 0 => state[key] # "none"
  /\ \A j \in recoveries : state[j.run] # "none"
  /\ \A q \in shown : q.run # 0 /\ state[q.run] # "none"
  /\ \A q \in result \cup safe \cup saved :
       q.run # 0 => Unedited(q.run, q.complete) \in shown

\* The last report is the saved one, the report of the recovery view is the
\* saved one, and so is the report on the screen unless it was cleared; a
\* report that is being imported is not on the screen yet.
Saved ==
  /\ broken => result # {}
  /\ ~full =>
       /\ last \subseteq saved
       /\ safe # {} => safe = saved
       /\ result # {} => saved \subseteq result
       /\ importing => Unedited(0, TRUE) \notin result \cup safe

\* Somebody has seen a report of run r.
Seen(r) == Unedited(r, TRUE) \in shown \/ Unedited(r, FALSE) \in shown

\* Whoever is about to acknowledge a run has shown a report of it, and a run's
\* report is shown in part only when its analysis is over and saved no final
\* one.
Acknowledging ==
  /\ pipeline.at = "work" =>
       /\ \A q \in shown : q.run # pipeline.run
       /\ \A j \in recoveries : j.run # pipeline.run
  /\ pipeline.at = "acknowledge" => Seen(pipeline.run)
  /\ \A j \in recoveries : j.at = "acknowledge" => Seen(j.run)
  /\ \A j \in confirmations : Seen(j.run)
  /\ \A q \in requests : q.op = "acknowledge" => Seen(q.run)
  /\ \A r \in Runs : Unedited(r, FALSE) \in shown => "final_report" \notin kept[r]

IInv == TypeOK /\ Known /\ Saved /\ Acknowledging

-----------------------------------------------------------------------------
(* Facts about the operators of the model *)

RecoveryJobs     == [run : Runs, at : {"get", "read", "acknowledge"}, ready : BOOLEAN]
ConfirmationJobs == [run : Runs, at : {"get", "acknowledge"}]
Ops              == {"ready", "acknowledge", "suspend", "fail", "delete"}

\* A slot is empty or holds one report.
LEMMA SlotFacts ==
  /\ {} \in Slot
  /\ \A q \in Reports : {q} \in Slot
  /\ \A slot \in Slot : slot = {} \/ \E q \in Reports : slot = {q}
BY DEF Slot

\* The runs of the reports in a slot are runs.
LEMMA RunOfFacts ==
  ASSUME NEW slot \in Slot
  PROVE  RunOf(slot) \subseteq Runs
<1>1. slot \subseteq Reports BY SlotFacts
<1>2. \A q \in Reports : q.run \in {0} \cup Runs BY DEF Reports
<1>3. QED BY <1>1, <1>2 DEF RunOf

\* The report of a run, or of an import, is a report.
LEMMA UneditedFacts ==
  ASSUME NEW run \in {0} \cup Runs, NEW complete \in BOOLEAN
  PROVE  /\ Unedited(run, complete) \in Reports
         /\ Unedited(run, complete).run = run
         /\ Unedited(run, complete).complete = complete
         /\ ~Unedited(run, complete).edited
BY DEF Unedited, Reports

\* There are four kinds of checkpoints.
LEMMA KindsFacts ==
  /\ Len(Kinds) = 4 /\ DOMAIN Kinds = 1..4
  /\ \A i \in 1..4 : Kinds[i] \in {Kinds[k] : k \in DOMAIN Kinds}
BY DEF Kinds

\* Serving a request moves one run between states and leaves the other runs and
\* the checkpoints alone; the run is not one that has never been created.
LEMMA ServeFacts ==
  ASSUME TypeOK, NEW op \in Ops, NEW r \in Runs, Serve(op, r)
  PROVE  /\ state' \in [Runs -> States]
         /\ \A q \in Runs : state[q] # "none" => state'[q] # "none"
         /\ UNCHANGED <<erased, kept>>
BY DEF Serve, Leads, Ops, TypeOK, States

\* What becomes of a request somebody waits for.
LEMMA RequestFacts ==
  ASSUME DeliveryAssumption, TypeOK, NEW op \in Ops, NEW r \in Runs,
         Answered(op, r) \/ Refused(op, r)
  PROVE  /\ state' \in [Runs -> States]
         /\ \A q \in Runs : state[q] # "none" => state'[q] # "none"
         /\ UNCHANGED <<erased, kept>>
         /\ mishaps' \in 0..MaxMishaps /\ turns' \in 0..MaxTurns
<1>1. Serve(op, r) \/ UNCHANGED serverVars
  BY DEF Answered, Refused
<1>2. mishaps' \in 0..MaxMishaps /\ turns' \in 0..MaxTurns
  BY DEF Answered, Refused, Mishap, boundVars, TypeOK, DeliveryAssumption
<1>3. QED BY <1>1, <1>2, ServeFacts DEF serverVars, TypeOK

\* What the effects leave is of its type, and a job that an effect starts is
\* about the run the browser may recover.
LEMMA EffectsFacts ==
  ASSUME key' \in {0} \cup Runs, result' \in Slot,
         NEW stored \in Slot,
         NEW recovering \in SUBSET RecoveryJobs,
         NEW confirming \in SUBSET ConfirmationJobs,
         Effects(stored, recovering, confirming)
  PROVE  /\ saved' \in Slot /\ saved' \in {stored, result'}
         /\ recoveries' \in SUBSET RecoveryJobs
         /\ confirmations' \in SUBSET ConfirmationJobs
         /\ \A j \in recoveries' :
              j \in recovering \/ (j.run = key' /\ j.at = "get" /\ ~loading')
         /\ \A j \in confirmations' :
              j \in confirming \/ (j.run = key' /\ j.at = "get" /\ key' \in RunOf(result'))
<1>1. saved' \in {stored, result'}
  BY DEF Effects, SavedByEffect
<1>2. Recovering \in SUBSET RecoveryJobs /\ \A j \in Recovering : j.run = key' /\ j.at = "get" /\ ~loading'
  BY DEF Recovering, RecoveryJobs
<1>3. 0 \notin RunOf(result')
  BY DEF RunOf
<1>4. /\ Confirming \in SUBSET ConfirmationJobs
      /\ \A j \in Confirming : j.run = key' /\ j.at = "get" /\ key' \in RunOf(result')
  BY <1>3 DEF Confirming, ConfirmationJobs
<1>5. QED BY <1>1, <1>2, <1>4 DEF Effects

\* What is shown is the report, and one of a run is remembered.
LEMMA ShowFacts ==
  ASSUME TypeOK, NEW report \in Reports, Show(report)
  PROVE  /\ result' = {report} /\ result' \in Slot /\ safe' = {} /\ last' = {report}
         /\ last' \in Slot /\ safe' \in Slot
         /\ shown' \in SUBSET Reports
         /\ shown' = shown \cup (IF report.run = 0 THEN {} ELSE {report})
         /\ Stored(report) \in Slot
BY SlotFacts DEF Show, Stored, TypeOK

-----------------------------------------------------------------------------
(* Types *)

\* The pipeline's record.
Pipelines ==
  [at : {"none", "create", "work", "stop", "ready", "acknowledge"},
   run : {0} \cup Runs, next : 1..Len(Kinds) + 1, recoverable : BOOLEAN]

\* A saved or refused checkpoint brings the pipeline to its next one.
LEMMA AdvanceFacts ==
  ASSUME pipeline \in Pipelines, pipeline.next \in 1..Len(Kinds),
         NEW yes \in BOOLEAN, Advance(yes)
  PROVE  /\ pipeline' \in Pipelines
         /\ pipeline'.run = pipeline.run
         /\ pipeline'.at \in {"work", "ready"}
<1> DEFINE p1 == [pipeline EXCEPT !.next = pipeline.next + 1]
           p2 == [p1 EXCEPT !.recoverable = yes]
           at == IF pipeline.next = Len(Kinds) THEN "ready" ELSE "work"
           p3 == [p2 EXCEPT !.at = at]
<1>1. pipeline' = p3 BY DEF Advance
<1>2. p1 \in Pipelines /\ p1.run = pipeline.run
  BY KindsFacts DEF Pipelines
<1>3. p2 \in Pipelines /\ p2.run = p1.run
  <2> HIDE DEF p1
  <2> QED BY <1>2 DEF Pipelines
<1>4. p3 \in Pipelines /\ p3.run = p2.run /\ p3.at = at
  <2> HIDE DEF p2
  <2> QED BY <1>3 DEF Pipelines
<1>5. QED BY <1>1, <1>2, <1>3, <1>4

\* Every step of the analysis keeps the types.
LEMMA PipelineTypes ==
  ASSUME DeliveryAssumption, TypeOK, Known, PipelineStep
  PROVE  TypeOK'
<1> USE DEF TypeOK, serverVars, storageVars, screenVars, waitVars, seenVars, boundVars
<1>0. NoPipeline \in Pipelines /\ NoPipeline.at = "none"
  BY KindsFacts DEF NoPipeline, Pipelines
<1>a. ASSUME GiveUp, key' \in {0} \cup Runs
      PROVE  /\ key' \in {0} \cup Runs /\ saved' \in Slot
             /\ pipeline' = NoPipeline /\ loading' = FALSE
             /\ UNCHANGED <<authenticated, result, safe, broken, crash, full, importing,
                            requests, seenVars>>
             /\ recoveries' \in SUBSET RecoveryJobs
             /\ confirmations' \in SUBSET ConfirmationJobs
  BY <1>a, EffectsFacts, SlotFacts DEF GiveUp, RecoveryJobs, ConfirmationJobs
<1>1. ASSUME StartAnalysis \/ LoginAndStart PROVE TypeOK'
  <2>1. pipeline' \in Pipelines /\ pipeline'.at = "create"
    BY <1>0, <1>1 DEF StartAnalysis, LoginAndStart, Analyze, Pipelines
  <2>2. Effects(saved, recoveries, confirmations) /\ UNCHANGED <<key, result>>
    BY <1>1 DEF StartAnalysis, LoginAndStart
  <2>3. saved' \in Slot /\ recoveries' \in SUBSET RecoveryJobs
        /\ confirmations' \in SUBSET ConfirmationJobs
    BY <2>2, EffectsFacts DEF RecoveryJobs, ConfirmationJobs
  <2>4. QED
    BY <1>1, <2>1, <2>3 DEF StartAnalysis, LoginAndStart, Analyze, Pipelines, RecoveryJobs,
       ConfirmationJobs
<1>2. ASSUME NEW r \in Runs, CreateRun(r) PROVE TypeOK'
  BY <1>2 DEF CreateRun, States
<1>3. ASSUME CreateFails PROVE TypeOK'
  <2>1. state' \in [Runs -> States] /\ UNCHANGED <<erased, kept>>
    BY <1>3 DEF CreateFails, States
  <2>2. mishaps' \in 0..MaxMishaps /\ turns' = turns
    BY <1>3 DEF CreateFails, Mishap, DeliveryAssumption
  <2>3. QED
    BY <1>0, <1>a, <1>3, <2>1, <2>2 DEF CreateFails, Pipelines, RecoveryJobs, ConfirmationJobs
<1>4. ASSUME SaveCheckpoint PROVE TypeOK'
  <2>1. pipeline.run \in Runs /\ pipeline.next \in 1..4 /\ pipeline.at = "work"
    BY <1>4, KindsFacts DEF SaveCheckpoint, Known
  <2>2. SaveReaches(pipeline.run) \/ UNCHANGED kept
    BY <1>4 DEF SaveCheckpoint
  <2>3. kept' \in [Runs -> SUBSET {Kinds[i] : i \in DOMAIN Kinds}]
    <3>1. CASE SaveReaches(pipeline.run) BY <2>1, <3>1, KindsFacts DEF SaveReaches
    <3>2. CASE UNCHANGED kept BY <3>2
    <3>3. QED BY <2>2, <3>1, <3>2
  <2>4. \E yes \in BOOLEAN : Advance(yes)
    BY <1>4 DEF SaveCheckpoint
  <2>5. pipeline' \in Pipelines /\ pipeline'.at # "none"
    BY <2>1, <2>4, KindsFacts, AdvanceFacts DEF Pipelines
  <2>6. Mishap \/ UNCHANGED boundVars
    BY <1>4 DEF SaveCheckpoint
  <2>7. mishaps' \in 0..MaxMishaps /\ turns' \in 0..MaxTurns
    BY <2>6 DEF Mishap, DeliveryAssumption
  <2>8. QED
    BY <1>4, <2>1, <2>3, <2>5, <2>7 DEF SaveCheckpoint, Pipelines
<1>5. ASSUME PipelineFails PROVE TypeOK'
  BY <1>5 DEF PipelineFails
<1>6. ASSUME StopRun \/ AcknowledgeRun PROVE TypeOK'
  <2>1. pipeline.run \in Runs BY <1>6 DEF StopRun, AcknowledgeRun, Known
  <2>2. \E op \in Ops : Answered(op, pipeline.run) \/ Refused(op, pipeline.run)
    BY <1>6 DEF StopRun, AcknowledgeRun, StopRequest, Ops
  <2>3. /\ state' \in [Runs -> States] /\ UNCHANGED <<erased, kept>>
        /\ mishaps' \in 0..MaxMishaps /\ turns' \in 0..MaxTurns
    BY <2>1, <2>2, RequestFacts
  <2>4. GiveUp /\ key' \in {0} \cup Runs BY <1>6 DEF StopRun, AcknowledgeRun
  <2>5. QED
    BY <1>0, <1>a, <2>3, <2>4 DEF Pipelines, RecoveryJobs, ConfirmationJobs
<1>7. ASSUME DeliverReport PROVE TypeOK'
  <2> DEFINE report == Unedited(pipeline.run, TRUE)
  <2>1. pipeline.run \in Runs /\ pipeline.at = "ready" BY <1>7 DEF DeliverReport, Known
  <2>2. /\ state' \in [Runs -> States] /\ UNCHANGED <<erased, kept>>
        /\ mishaps' \in 0..MaxMishaps /\ turns' \in 0..MaxTurns
    BY <1>7, <2>1, RequestFacts DEF DeliverReport, Ops
  <2>3. report \in Reports BY <2>1, UneditedFacts
  <2>4. /\ result' \in Slot /\ safe' = {} /\ last' = {report} /\ shown' \in SUBSET Reports
        /\ Stored(report) \in Slot
    BY <1>7, <2>3, ShowFacts DEF DeliverReport
  <2>5. saved' \in Slot /\ recoveries' \in SUBSET RecoveryJobs
        /\ confirmations' \in SUBSET ConfirmationJobs
    BY <1>7, <2>4, EffectsFacts DEF DeliverReport, RecoveryJobs, ConfirmationJobs
  <2>6. QED
    BY <1>7, <2>1, <2>2, <2>3, <2>4, <2>5, SlotFacts DEF DeliverReport, RecoveryJobs, ConfirmationJobs
<1>8. QED
  BY <1>1, <1>2, <1>3, <1>4, <1>5, <1>6, <1>7 DEF PipelineStep

\* Every step of a recovery or a confirmation keeps the types.
LEMMA JobTypes ==
  ASSUME DeliveryAssumption, TypeOK, RecoveryStep \/ ConfirmationStep
  PROVE  TypeOK'
<1> USE DEF TypeOK, serverVars, storageVars, screenVars, waitVars, seenVars, boundVars
<1>1. ASSUME NEW j \in recoveries, LookAtRun(j) PROVE TypeOK'
  <2>1. ASSUME NEW yes \in BOOLEAN PROVE [j EXCEPT !.at = "read", !.ready = yes] \in RecoveryJobs
    BY DEF RecoveryJobs
  <2>2. recoveries' \in SUBSET RecoveryJobs
    <3> DEFINE ready == state[j.run] \in {"ready_for_delivery", "completed"}
               moved == [j EXCEPT !.at = "read", !.ready = ready]
    <3>1. recoveries' = recoveries \ {j} \/ recoveries' = (recoveries \ {j}) \cup {moved}
      BY <1>1 DEF LookAtRun
    <3>2. ready \in BOOLEAN OBVIOUS
    <3>3. moved \in RecoveryJobs
      <4> HIDE DEF ready
      <4> QED BY <2>1, <3>2
    <3>4. recoveries \subseteq RecoveryJobs BY DEF RecoveryJobs
    <3> HIDE DEF moved
    <3>5. QED BY <3>1, <3>3, <3>4
  <2>3. QED BY <1>1, <2>2 DEF LookAtRun, RecoveryJobs
<1>2. ASSUME NEW j \in recoveries, ReadCheckpoints(j) PROVE TypeOK'
  <2>1. CASE recoveries' = recoveries \ {j} /\ UNCHANGED <<confirmations, saved, result, safe, seenVars>>
    BY <1>2, <2>1 DEF ReadCheckpoints
  <2>2. ASSUME NEW report \in Recovered(j.run), Show(report),
               NEW jobs \in SUBSET RecoveryJobs,
               Effects(Stored(report), jobs, confirmations)
        PROVE  TypeOK'
    <3>1. report \in Reports
      BY <2>2, UneditedFacts DEF Recovered
    <3>2. /\ result' \in Slot /\ safe' = {} /\ last' = {report} /\ shown' \in SUBSET Reports
          /\ Stored(report) \in Slot
      BY <2>2, <3>1, ShowFacts
    <3>3. key' = key BY <1>2 DEF ReadCheckpoints
    <3>4. saved' \in Slot /\ recoveries' \in SUBSET RecoveryJobs
          /\ confirmations' \in SUBSET ConfirmationJobs
      BY <2>2, <3>2, <3>3, EffectsFacts DEF ConfirmationJobs
    <3>5. QED
      BY <1>2, <3>1, <3>2, <3>4, SlotFacts DEF ReadCheckpoints, RecoveryJobs, ConfirmationJobs
  <2>3. ASSUME NEW report \in Recovered(j.run)
        PROVE  (recoveries \ {j}) \cup
                 (IF AcknowledgesRecovered(j, report) THEN {[j EXCEPT !.at = "acknowledge"]} ELSE {})
                 \in SUBSET RecoveryJobs
    BY DEF RecoveryJobs
  <2>4. QED BY <1>2, <2>1, <2>2, <2>3 DEF ReadCheckpoints
<1>3. ASSUME NEW j \in recoveries, AcknowledgeRecovered(j) PROVE TypeOK'
  <2>1. /\ state' \in [Runs -> States] /\ UNCHANGED <<erased, kept>>
        /\ mishaps' \in 0..MaxMishaps /\ turns' \in 0..MaxTurns
    BY <1>3, RequestFacts DEF AcknowledgeRecovered, Ops
  <2>2. QED BY <1>3, <2>1 DEF AcknowledgeRecovered
<1>4. ASSUME NEW j \in recoveries, RecoveryFails(j) PROVE TypeOK'
  BY <1>4 DEF RecoveryFails, Mishap, DeliveryAssumption
<1>5. ASSUME NEW j \in confirmations, LookAtDelivery(j) PROVE TypeOK'
  BY <1>5 DEF LookAtDelivery
<1>6. ASSUME NEW j \in confirmations, ConfirmDelivery(j) PROVE TypeOK'
  <2>1. /\ state' \in [Runs -> States] /\ UNCHANGED <<erased, kept>>
        /\ mishaps' \in 0..MaxMishaps /\ turns' \in 0..MaxTurns
    BY <1>6, RequestFacts DEF ConfirmDelivery, Ops
  <2>2. QED BY <1>6, <2>1 DEF ConfirmDelivery
<1>7. ASSUME NEW j \in confirmations, ConfirmationFails(j) PROVE TypeOK'
  BY <1>7 DEF ConfirmationFails, Mishap, DeliveryAssumption
<1>8. QED
  BY <1>1, <1>2, <1>3, <1>4, <1>5, <1>6, <1>7 DEF RecoveryStep, ConfirmationStep

\* What a page that goes away leaves on its way are requests about runs.
LEMMA AbandonedFacts ==
  ASSUME TypeOK, Known
  PROVE  /\ Abandoned \subseteq [op : Ops, run : Runs]
         /\ \A q \in Abandoned :
              q.op = "acknowledge" =>
                \/ pipeline.at = "acknowledge" /\ q.run = pipeline.run
                \/ \E j \in recoveries \cup confirmations :
                     j.at = "acknowledge" /\ q.run = j.run
<1>1. ASSUME NEW at \in {pipeline.at} \cap {"ready", "acknowledge", "stop"}
      PROVE  /\ pipeline.run \in Runs
             /\ (IF at = "stop" THEN StopRequest ELSE at) \in Ops
             /\ (IF at = "stop" THEN StopRequest ELSE at) = "acknowledge" => pipeline.at = "acknowledge"
  BY <1>1 DEF Known, StopRequest, Ops
<1>2. \A j \in recoveries \cup confirmations : j.run \in Runs
  BY DEF TypeOK
<1>3. "acknowledge" \in Ops BY DEF Ops
<1>4. QED BY <1>1, <1>2, <1>3 DEF Abandoned

\* Every step of the user keeps the types.
LEMMA UserTypes ==
  ASSUME DeliveryAssumption, TypeOK, Known, UserStep
  PROVE  TypeOK'
<1> USE DEF TypeOK, serverVars, storageVars, screenVars, waitVars, seenVars, boundVars
<1>a. ASSUME key' \in {0} \cup Runs, result' \in Slot,
             NEW stored \in Slot, Effects(stored, recoveries, confirmations)
      PROVE  /\ saved' \in Slot
             /\ recoveries' \in SUBSET RecoveryJobs
             /\ confirmations' \in SUBSET ConfirmationJobs
  BY <1>a, EffectsFacts DEF RecoveryJobs, ConfirmationJobs
<1>b. Turn => mishaps' \in 0..MaxMishaps /\ turns' \in 0..MaxTurns
  BY DEF Turn, DeliveryAssumption
<1>c. Mishap => mishaps' \in 0..MaxMishaps /\ turns' \in 0..MaxTurns
  BY DEF Mishap, DeliveryAssumption
<1>1. ASSUME NEW yes \in BOOLEAN, SetAuthenticated(yes) PROVE TypeOK'
  BY <1>1, <1>a, <1>b DEF SetAuthenticated, RecoveryJobs, ConfirmationJobs
<1>2. ASSUME ImportReport PROVE TypeOK'
  BY <1>2, <1>b DEF ImportReport
<1>3. ASSUME ImportRead PROVE TypeOK'
  <2>1. Unedited(0, TRUE) \in Reports BY UneditedFacts
  <2>2. /\ result' \in Slot /\ safe' \in Slot /\ (safe' = {} \/ result' = {})
        /\ shown' \in SUBSET Reports /\ last' \in Slot
    <3>1. CASE Show(Unedited(0, TRUE)) BY <2>1, <3>1, ShowFacts, SlotFacts
    <3>2. CASE UNCHANGED <<result, safe, seenVars>> BY <3>2
    <3>3. QED BY <1>3, <3>1, <3>2 DEF ImportRead
  <2>3. /\ saved' \in Slot /\ recoveries' \in SUBSET RecoveryJobs
        /\ confirmations' \in SUBSET ConfirmationJobs
    BY <1>3, <1>a, <2>2 DEF ImportRead
  <2>4. QED BY <1>3, <2>2, <2>3 DEF ImportRead, RecoveryJobs, ConfirmationJobs
<1>4. ASSUME EditReport PROVE TypeOK'
  <2>1. result' \in Slot /\ result # {} /\ last' = result'
    <3>1. PICK q \in Reports : result = {q} BY <1>4, SlotFacts DEF EditReport
    <3>2. result' = {[q EXCEPT !.edited = TRUE]} BY <1>4, <3>1 DEF EditReport
    <3>3. [q EXCEPT !.edited = TRUE] \in Reports BY DEF Reports
    <3>4. result' \in Slot BY <3>2, <3>3, SlotFacts
    <3>5. last' = result' BY <1>4 DEF EditReport
    <3>6. QED BY <3>1, <3>4, <3>5
  <2>2. /\ saved' \in Slot /\ recoveries' \in SUBSET RecoveryJobs
        /\ confirmations' \in SUBSET ConfirmationJobs
    BY <1>4, <1>a, <2>1 DEF EditReport
  <2>3. QED BY <1>4, <1>b, <2>1, <2>2 DEF EditReport, RecoveryJobs, ConfirmationJobs
<1>5. ASSUME Reset PROVE TypeOK'
  <2>1. ResetRun \subseteq Runs BY RunOfFacts DEF ResetRun
  <2>2. requests' \subseteq [op : {"ready", "acknowledge", "suspend", "fail", "delete"}, run : Runs]
    BY <1>5, <2>1 DEF Reset
  <2>3. /\ saved' \in Slot /\ recoveries' \in SUBSET RecoveryJobs
        /\ confirmations' \in SUBSET ConfirmationJobs
    BY <1>5, <1>a, SlotFacts DEF Reset
  <2>4. QED BY <1>5, <1>b, <2>2, <2>3, SlotFacts DEF Reset, RecoveryJobs, ConfirmationJobs
<1>6. ASSUME ClearSaved PROVE TypeOK'
  BY <1>6, <1>b, SlotFacts DEF ClearSaved, ClearStorage, ForgetCrash
<1>7. ASSUME ViewCrashes PROVE TypeOK'
  BY <1>7, <1>c DEF ViewCrashes, NoteCrash
<1>8. ASSUME RestoreSaved PROVE TypeOK'
  BY <1>8, <1>a, SlotFacts DEF RestoreSaved, RecoveryJobs, ConfirmationJobs
<1>9. ASSUME OpenRecovered PROVE TypeOK'
  BY <1>9, <1>a, SlotFacts DEF OpenRecovered, ForgetCrash, RecoveryJobs, ConfirmationJobs
<1>10. ASSUME ReturnToStart PROVE TypeOK'
  BY <1>10, <1>a, <1>b, SlotFacts DEF ReturnToStart, ForgetCrash, RecoveryJobs, ConfirmationJobs
<1>11. ASSUME NEW session \in BOOLEAN, Restart(session) PROVE TypeOK'
  <2>1. NoPipeline \in Pipelines /\ NoPipeline.at = "none"
    BY KindsFacts DEF NoPipeline, Pipelines
  <2>2. /\ saved' \in Slot /\ result' \in Slot /\ safe' \in Slot /\ last' \in Slot
        /\ (safe' = {} \/ result' = {})
    BY <1>11, SlotFacts DEF Restart
  <2>3. requests' \subseteq [op : {"ready", "acknowledge", "suspend", "fail", "delete"}, run : Runs]
    BY <1>11, AbandonedFacts DEF Restart, Ops
  <2>4. QED BY <1>11, <1>c, <2>1, <2>2, <2>3 DEF Restart, Pipelines
<1>12. QED
  BY <1>1, <1>2, <1>3, <1>4, <1>5, <1>6, <1>7, <1>8, <1>9, <1>10, <1>11 DEF UserStep

\* Every step of the server keeps the types.
LEMMA ServerTypes ==
  ASSUME TypeOK, ServerStep
  PROVE  TypeOK'
<1> USE DEF TypeOK, serverVars, storageVars, screenVars, waitVars, seenVars, boundVars
<1>1. ASSUME NEW q \in requests, Arrives(q) PROVE TypeOK'
  <2>1. state' \in [Runs -> States] /\ UNCHANGED <<erased, kept>>
    BY <1>1, ServeFacts DEF Arrives, Ops
  <2>2. QED BY <1>1, <2>1 DEF Arrives
<1>2. ASSUME NEW r \in Runs, Expire(r) PROVE TypeOK'
  BY <1>2 DEF Expire, States
<1>3. ASSUME NEW r \in Runs, Erase(r) PROVE TypeOK'
  BY <1>3 DEF Erase, States
<1>4. QED BY <1>1, <1>2, <1>3 DEF ServerStep

\* Every step keeps the types.
LEMMA TypeOKStep ==
  ASSUME DeliveryAssumption, TypeOK, Known, [Next]_vars
  PROVE  TypeOK'
<1>1. CASE UNCHANGED vars
  BY <1>1 DEF vars, serverVars, storageVars, screenVars, waitVars, seenVars, boundVars, TypeOK
<1>2. QED BY <1>1, PipelineTypes, JobTypes, UserTypes, ServerTypes DEF Next

-----------------------------------------------------------------------------
(* Runs the page knows of *)

\* A step that brings no new run to the page's attention: what it remembers,
\* works on or shows comes from what it knew, or is a report it now shows.
Familiar ==
  /\ \A q \in Runs : state[q] # "none" => state'[q] # "none"
  /\ key' \in {0, key}
  /\ \/ pipeline'.at \in {"none", "create"}
     \/ pipeline'.run = pipeline.run /\ pipeline.at \notin {"none", "create"}
  /\ \A j \in recoveries' : j.run = key \/ \E i \in recoveries : i.run = j.run
  /\ shown \subseteq shown'
  /\ \A q \in shown' \ shown : q.run # 0 /\ state[q.run] # "none"
  /\ \A q \in result' \cup safe' \cup saved' :
       \/ \E p \in result \cup safe \cup saved : p.run = q.run /\ p.complete = q.complete
       \/ q.run # 0 => Unedited(q.run, q.complete) \in shown'

\* A familiar step keeps Known.
LEMMA FamiliarKnown ==
  ASSUME TypeOK, TypeOK', Known, Familiar
  PROVE  Known'
<1>1. /\ \A j \in recoveries : j.run \in Runs
      /\ \A j \in recoveries' : j.run \in Runs
      /\ 0 \notin Runs /\ key \in {0} \cup Runs
      /\ \A q \in shown \cup shown' : q.run \in {0} \cup Runs
  BY DEF TypeOK, Reports, Runs
<1>2. pipeline'.at \notin {"none", "create"} => pipeline'.run \in Runs /\ state'[pipeline'.run] # "none"
  BY DEF Familiar, Known
<1>3. key' # 0 => state'[key'] # "none"
  BY <1>1 DEF Familiar, Known
<1>4. \A j \in recoveries' : state'[j.run] # "none"
  BY <1>1 DEF Familiar, Known
<1>5. \A q \in shown' : q.run # 0 /\ state'[q.run] # "none"
  BY <1>1 DEF Familiar, Known
<1>6. ASSUME NEW q \in result' \cup safe' \cup saved', q.run # 0
      PROVE  Unedited(q.run, q.complete) \in shown'
  <2>1. CASE q.run # 0 => Unedited(q.run, q.complete) \in shown'
    BY <1>6, <2>1
  <2>2. ASSUME NEW p \in result \cup safe \cup saved, p.run = q.run, p.complete = q.complete
        PROVE  Unedited(q.run, q.complete) \in shown'
    <3>1. Unedited(p.run, p.complete) \in shown BY <1>6, <2>2 DEF Known
    <3>2. QED BY <2>2, <3>1 DEF Familiar
  <2>3. QED BY <2>1, <2>2 DEF Familiar
<1>7. QED BY <1>2, <1>3, <1>4, <1>5, <1>6 DEF Known

\* What Show and the effects after it leave on the screen and in the storage.
LEMMA ShowEffects ==
  ASSUME TypeOK, NEW report \in Reports, Show(report), UNCHANGED key,
         NEW jobs \in SUBSET RecoveryJobs, NEW stored \in {saved, Stored(report)},
         Effects(stored, jobs, confirmations)
  PROVE  /\ \A q \in result' \cup safe' \cup saved' : q = report \/ q \in saved
         /\ \A j \in recoveries' : j \in jobs \/ (j.run = key /\ j.at = "get" /\ ~loading')
         /\ \A j \in confirmations' :
              j \in confirmations \/ (j.run = key /\ key \in RunOf(result'))
<1>1. result' = {report} /\ safe' = {} /\ result' \in Slot /\ Stored(report) \in Slot
  BY ShowFacts
<1>2. confirmations \in SUBSET ConfirmationJobs /\ saved \in Slot /\ key' \in {0} \cup Runs
  BY DEF TypeOK, ConfirmationJobs
<1>3. /\ saved' \in {stored, result'}
      /\ \A j \in recoveries' : j \in jobs \/ (j.run = key' /\ j.at = "get" /\ ~loading')
      /\ \A j \in confirmations' :
           j \in confirmations \/ (j.run = key' /\ j.at = "get" /\ key' \in RunOf(result'))
  BY <1>1, <1>2, EffectsFacts
<1>4. QED BY <1>1, <1>3 DEF Stored

\* Effects of a step that shows no new report.
LEMMA QuietEffects ==
  ASSUME TypeOK, key' \in {0, key}, result' \in Slot, NEW stored \in Slot, stored \subseteq saved,
         Effects(stored, recoveries, confirmations)
  PROVE  /\ \A q \in saved' : q \in saved \/ q \in result'
         /\ \A j \in recoveries' : j \in recoveries \/ (j.run = key /\ j.at = "get" /\ ~loading')
         /\ \A j \in confirmations' :
              j \in confirmations \/ (j.run = key' /\ key' \in RunOf(result'))
<1>1. /\ recoveries \in SUBSET RecoveryJobs /\ confirmations \in SUBSET ConfirmationJobs
      /\ key' \in {0} \cup Runs /\ key \in {0} \cup Runs
  BY DEF TypeOK, RecoveryJobs, ConfirmationJobs
<1>2. /\ saved' \in {stored, result'}
      /\ recoveries' \in SUBSET RecoveryJobs
      /\ \A j \in recoveries' : j \in recoveries \/ (j.run = key' /\ j.at = "get" /\ ~loading')
      /\ \A j \in confirmations' :
           j \in confirmations \/ (j.run = key' /\ j.at = "get" /\ key' \in RunOf(result'))
  BY <1>1, EffectsFacts
<1>3. \A j \in recoveries' : j.run # 0
  BY <1>2 DEF RecoveryJobs, Runs
<1>4. QED BY <1>1, <1>2, <1>3

\* Every step of the analysis but the one that creates its run is familiar.
LEMMA PipelineFamiliar ==
  ASSUME DeliveryAssumption, TypeOK, Known,
         \/ StartAnalysis \/ LoginAndStart \/ CreateFails \/ SaveCheckpoint \/ PipelineFails
         \/ StopRun \/ DeliverReport \/ AcknowledgeRun
  PROVE  Familiar
<1> USE DEF serverVars, storageVars, screenVars, waitVars, seenVars, boundVars
<1>0. result \in Slot /\ saved \in Slot /\ NoPipeline.at = "none"
  BY DEF TypeOK, NoPipeline
<1>1. ASSUME StartAnalysis \/ LoginAndStart PROVE Familiar
  <2>1. pipeline'.at = "create"
    BY <1>1 DEF StartAnalysis, LoginAndStart, Analyze, NoPipeline
  <2>2. /\ \A q \in saved' : q \in saved \/ q \in result'
        /\ \A j \in recoveries' : j \in recoveries \/ j.run = key
    BY <1>0, <1>1, QuietEffects DEF StartAnalysis, LoginAndStart
  <2>3. QED BY <1>1, <2>1, <2>2 DEF StartAnalysis, LoginAndStart, Familiar
<1>2. ASSUME GiveUp, key' \in {0, key}, \A q \in Runs : state[q] # "none" => state'[q] # "none"
      PROVE  Familiar
  <2>1. /\ \A q \in saved' : q \in saved \/ q \in result'
        /\ \A j \in recoveries' : j \in recoveries \/ j.run = key
    BY <1>0, <1>2, QuietEffects DEF GiveUp
  <2>2. QED BY <1>0, <1>2, <2>1 DEF GiveUp, Familiar
<1>3. ASSUME CreateFails PROVE Familiar
  <2>1. \A q \in Runs : state[q] # "none" => state'[q] # "none"
    BY <1>3 DEF CreateFails, TypeOK
  <2>2. QED BY <1>2, <1>3, <2>1 DEF CreateFails
<1>4. ASSUME SaveCheckpoint PROVE Familiar
  <2>1. pipeline \in Pipelines /\ pipeline.next \in 1..Len(Kinds) /\ pipeline.at = "work"
    BY <1>4, KindsFacts DEF SaveCheckpoint, TypeOK, Pipelines
  <2>2. \E yes \in BOOLEAN : Advance(yes)
    BY <1>4, <2>1 DEF SaveCheckpoint, Pipelines
  <2>3. pipeline'.run = pipeline.run BY <2>1, <2>2, AdvanceFacts
  <2>4. QED BY <1>4, <2>1, <2>3 DEF SaveCheckpoint, Familiar
<1>5. ASSUME PipelineFails PROVE Familiar
  <2>1. pipeline'.run = pipeline.run /\ pipeline.at = "work"
    BY <1>5 DEF PipelineFails, TypeOK
  <2>2. QED BY <1>5, <2>1 DEF PipelineFails, Familiar
<1>6. ASSUME StopRun \/ AcknowledgeRun PROVE Familiar
  <2>1. \E op \in Ops : Answered(op, pipeline.run) \/ Refused(op, pipeline.run)
    BY <1>6 DEF StopRun, AcknowledgeRun, StopRequest, Ops
  <2>2. pipeline.run \in Runs BY <1>6 DEF StopRun, AcknowledgeRun, Known
  <2>3. \A q \in Runs : state[q] # "none" => state'[q] # "none"
    BY <2>1, <2>2, RequestFacts
  <2>4. QED BY <1>2, <1>6, <2>3 DEF StopRun, AcknowledgeRun
<1>7. ASSUME DeliverReport PROVE Familiar
  <2> DEFINE report == Unedited(pipeline.run, TRUE)
  <2>1. pipeline.run \in Runs /\ pipeline.run # 0 /\ state[pipeline.run] # "none" /\ pipeline.at = "ready"
    BY <1>7 DEF DeliverReport, Known, Runs
  <2>2. report \in Reports /\ report.run = pipeline.run /\ report.complete = TRUE
    BY <2>1, UneditedFacts
  <2>3. \A q \in Runs : state[q] # "none" => state'[q] # "none"
    BY <1>7, <2>1, RequestFacts DEF DeliverReport, Ops
  <2>4. shown' = shown \cup {report}
    BY <1>7, <2>1, <2>2, ShowFacts DEF DeliverReport
  <2>5. /\ \A q \in result' \cup safe' \cup saved' : q = report \/ q \in saved
        /\ \A j \in recoveries' : j \in recoveries \/ j.run = key
    BY <1>7, <2>2, ShowEffects DEF DeliverReport, TypeOK, RecoveryJobs
  <2>6. Unedited(report.run, report.complete) \in shown' BY <2>2, <2>4
  <2>7. key' = key /\ pipeline'.run = pipeline.run
    BY <1>7 DEF DeliverReport, TypeOK
  <2>8. QED
    <3> HIDE DEF report
    <3> QED BY <2>1, <2>2, <2>3, <2>4, <2>5, <2>6, <2>7 DEF Familiar
<1>8. QED BY <1>1, <1>3, <1>4, <1>5, <1>6, <1>7

\* Every step of a recovery or a confirmation is familiar.
LEMMA JobFamiliar ==
  ASSUME DeliveryAssumption, TypeOK, Known, RecoveryStep \/ ConfirmationStep
  PROVE  Familiar
<1> USE DEF serverVars, storageVars, screenVars, waitVars, seenVars, boundVars
<1>1. ASSUME NEW j \in recoveries,
             LookAtRun(j) \/ AcknowledgeRecovered(j) \/ RecoveryFails(j)
      PROVE  Familiar
  <2>1. j \in RecoveryJobs BY DEF TypeOK, RecoveryJobs
  <2>2. \A q \in Runs : state[q] # "none" => state'[q] # "none"
    BY <1>1, <2>1, RequestFacts DEF LookAtRun, AcknowledgeRecovered, RecoveryFails, RecoveryJobs, Ops
  <2>3. \A i \in recoveries' : i \in recoveries \/ i.run = j.run
    <3> DEFINE ready == state[j.run] \in {"ready_for_delivery", "completed"}
               moved == [j EXCEPT !.at = "read", !.ready = ready]
    <3>1. recoveries' = recoveries \ {j} \/ recoveries' = (recoveries \ {j}) \cup {moved}
      BY <1>1 DEF LookAtRun, AcknowledgeRecovered, RecoveryFails
    <3>2. moved.run = j.run BY <2>1 DEF RecoveryJobs
    <3> HIDE DEF moved
    <3>3. QED BY <3>1, <3>2
  <2>4. QED
    BY <1>1, <2>2, <2>3 DEF LookAtRun, AcknowledgeRecovered, RecoveryFails, Familiar
<1>2. ASSUME NEW j \in recoveries, ReadCheckpoints(j) PROVE Familiar
  <2>1. CASE recoveries' = recoveries \ {j} /\ UNCHANGED <<confirmations, saved, result, safe, seenVars>>
    BY <1>2, <2>1 DEF ReadCheckpoints, Familiar
  <2>2. ASSUME NEW report \in Recovered(j.run), Show(report),
               NEW jobs \in SUBSET RecoveryJobs, \A i \in jobs : i \in recoveries \/ i.run = j.run,
               Effects(Stored(report), jobs, confirmations)
        PROVE  Familiar
    <3>1. /\ j.run \in Runs /\ j.run # 0 /\ state[j.run] # "none"
      BY DEF TypeOK, Known, Runs
    <3>2. report \in Reports /\ report.run = j.run /\ report = Unedited(report.run, report.complete)
      BY <2>2, <3>1, UneditedFacts DEF Recovered
    <3>3. shown' = shown \cup {report} BY <2>2, <3>1, <3>2, ShowFacts
    <3>4. UNCHANGED <<key, state, pipeline>> BY <1>2 DEF ReadCheckpoints
    <3>5. /\ \A q \in result' \cup safe' \cup saved' : q = report \/ q \in saved
          /\ \A i \in recoveries' : i \in jobs \/ i.run = key
      BY <2>2, <3>2, <3>4, ShowEffects
    <3>6. QED BY <2>2, <3>1, <3>2, <3>3, <3>4, <3>5 DEF Familiar
  <2>3. ASSUME NEW report \in Recovered(j.run)
        PROVE  LET jobs == (recoveries \ {j}) \cup
                 (IF AcknowledgesRecovered(j, report) THEN {[j EXCEPT !.at = "acknowledge"]} ELSE {})
               IN  jobs \in SUBSET RecoveryJobs /\ \A i \in jobs : i \in recoveries \/ i.run = j.run
    BY DEF RecoveryJobs, TypeOK
  <2>4. QED BY <1>2, <2>1, <2>2, <2>3 DEF ReadCheckpoints
<1>3. ASSUME NEW j \in confirmations,
             LookAtDelivery(j) \/ ConfirmDelivery(j) \/ ConfirmationFails(j)
      PROVE  Familiar
  <2>1. j.run \in Runs BY DEF TypeOK
  <2>2. \A q \in Runs : state[q] # "none" => state'[q] # "none"
    BY <1>3, <2>1, RequestFacts DEF LookAtDelivery, ConfirmDelivery, ConfirmationFails, Ops
  <2>3. QED
    BY <1>3, <2>2 DEF LookAtDelivery, ConfirmDelivery, ConfirmationFails, Familiar
<1>4. QED BY <1>1, <1>2, <1>3 DEF RecoveryStep, ConfirmationStep

\* Every step of the user is familiar.
LEMMA UserFamiliar ==
  ASSUME DeliveryAssumption, TypeOK, TypeOK', Known, UserStep
  PROVE  Familiar
<1> USE DEF serverVars, storageVars, screenVars, waitVars, seenVars, boundVars
<1>0. /\ result' \in Slot /\ saved \in Slot /\ {} \in Slot
      /\ key' = 0 \/ key' = key => key' \in {0, key}
  BY SlotFacts DEF TypeOK
<1>a. ASSUME key' \in {0, key}, UNCHANGED <<state, pipeline, shown>>,
             NEW stored \in Slot, stored \subseteq saved, Effects(stored, recoveries, confirmations),
             \A q \in result' \cup safe' :
               \E p \in result \cup safe \cup saved : p.run = q.run /\ p.complete = q.complete
      PROVE  Familiar
  <2>1. /\ \A q \in saved' : q \in saved \/ q \in result'
        /\ \A j \in recoveries' : j \in recoveries \/ j.run = key
    BY <1>0, <1>a, QuietEffects
  <2>2. QED BY <1>a, <2>1 DEF Familiar
<1>1. ASSUME NEW yes \in BOOLEAN, SetAuthenticated(yes) PROVE Familiar
  BY <1>0, <1>1, <1>a DEF SetAuthenticated
<1>2. ASSUME ImportReport PROVE Familiar
  BY <1>2 DEF ImportReport, Familiar
<1>3. ASSUME ImportRead PROVE Familiar
  <2>1. CASE UNCHANGED <<result, safe, seenVars>>
    BY <1>0, <1>3, <1>a, <2>1 DEF ImportRead
  <2>2. CASE Show(Unedited(0, TRUE))
    <3> DEFINE report == Unedited(0, TRUE)
    <3>1. report \in Reports /\ report.run = 0 BY UneditedFacts
    <3>2. shown' = shown BY <2>2, <3>1, ShowFacts
    <3>3. UNCHANGED <<key, state, pipeline>> BY <1>3 DEF ImportRead
    <3>4. recoveries \in SUBSET RecoveryJobs BY DEF TypeOK, RecoveryJobs
    <3>5. Effects(saved, recoveries, confirmations) BY <1>3 DEF ImportRead
    <3> HIDE DEF report
    <3>6. Show(report) BY <2>2 DEF report
    <3>7. /\ \A q \in result' \cup safe' \cup saved' : q = report \/ q \in saved
          /\ \A j \in recoveries' : j \in recoveries \/ j.run = key
      BY <3>1, <3>3, <3>4, <3>5, <3>6, ShowEffects
    <3>8. QED BY <3>1, <3>2, <3>3, <3>7 DEF Familiar
  <2>3. QED BY <1>3, <2>1, <2>2 DEF ImportRead
<1>4. ASSUME EditReport PROVE Familiar
  <2>1. \A q \in result : [q EXCEPT !.edited = TRUE].run = q.run
                          /\ [q EXCEPT !.edited = TRUE].complete = q.complete
    <3>1. result \subseteq Reports BY SlotFacts DEF TypeOK
    <3>2. QED BY <3>1 DEF Reports
  <2>2. \A q \in result' : \E p \in result : p.run = q.run /\ p.complete = q.complete
    BY <1>4, <2>1 DEF EditReport
  <2>3. QED BY <1>0, <1>4, <1>a, <2>2 DEF EditReport
<1>5. ASSUME Reset PROVE Familiar
  BY <1>0, <1>5, <1>a DEF Reset
<1>6. ASSUME ClearSaved PROVE Familiar
  BY <1>6 DEF ClearSaved, ClearStorage, ForgetCrash, Familiar
<1>7. ASSUME ViewCrashes PROVE Familiar
  BY <1>7 DEF ViewCrashes, Familiar
<1>8. ASSUME RestoreSaved PROVE Familiar
  BY <1>0, <1>8, <1>a DEF RestoreSaved
<1>9. ASSUME OpenRecovered PROVE Familiar
  BY <1>0, <1>9, <1>a DEF OpenRecovered
<1>10. ASSUME ReturnToStart PROVE Familiar
  BY <1>0, <1>10, <1>a DEF ReturnToStart
<1>11. ASSUME NEW session \in BOOLEAN, Restart(session) PROVE Familiar
  BY <1>11 DEF Restart, NoPipeline, Familiar
<1>12. QED
  BY <1>1, <1>2, <1>3, <1>4, <1>5, <1>6, <1>7, <1>8, <1>9, <1>10, <1>11 DEF UserStep

\* Every step of the server, and none at all, is familiar.
LEMMA ServerFamiliar ==
  ASSUME TypeOK, ServerStep \/ UNCHANGED vars
  PROVE  Familiar
<1> USE DEF serverVars, storageVars, screenVars, waitVars, seenVars, boundVars
<1>1. ASSUME NEW q \in requests, Arrives(q) PROVE Familiar
  <2>1. \A r \in Runs : state[r] # "none" => state'[r] # "none"
    BY <1>1, ServeFacts DEF Arrives, TypeOK, Ops
  <2>2. QED BY <1>1, <2>1 DEF Arrives, Familiar
<1>2. ASSUME NEW r \in Runs, Expire(r) \/ Erase(r) PROVE Familiar
  BY <1>2 DEF Expire, Erase, Familiar, TypeOK
<1>3. CASE UNCHANGED vars
  BY <1>3 DEF vars, Familiar
<1>4. QED BY <1>1, <1>2, <1>3 DEF ServerStep

\* A step is familiar, or creates the run of the analysis.
LEMMA NextFamiliar ==
  ASSUME DeliveryAssumption, TypeOK, TypeOK', Known, [Next]_vars
  PROVE  Familiar \/ \E r \in Runs : CreateRun(r)
BY PipelineFamiliar, JobFamiliar, UserFamiliar, ServerFamiliar DEF Next, PipelineStep

\* Every step keeps Known: the run of the analysis is the first one the page
\* knows of, and everything else goes back to it.
LEMMA KnownStep ==
  ASSUME DeliveryAssumption, TypeOK, TypeOK', Known, [Next]_vars
  PROVE  Known'
<1>1. ASSUME NEW r \in Runs, CreateRun(r) PROVE Known'
  <2>1. /\ state' = [state EXCEPT ![r] = "active"] /\ key' = r
        /\ pipeline'.run = r
        /\ UNCHANGED <<saved, result, safe, recoveries, shown>>
    BY <1>1 DEF CreateRun, TypeOK, screenVars, seenVars
  <2>2. \A q \in Runs : state[q] # "none" \/ q = r => state'[q] # "none"
    BY <2>1 DEF TypeOK
  <2>3. /\ \A j \in recoveries : j.run \in Runs
        /\ \A q \in shown : q.run # 0 => q.run \in Runs
    BY DEF TypeOK, Reports
  <2>4. QED BY <2>1, <2>2, <2>3 DEF Known
<1>2. QED BY <1>1, NextFamiliar, FamiliarKnown

-----------------------------------------------------------------------------
(* The last report *)

\* Steps of the analysis, of the effects and of the server that leave the
\* screen and the storage alone.
Offstage ==
  /\ UNCHANGED <<full, last, saved, result, safe, broken>>
  /\ importing' => importing

\* A report that is shown and saved, and is not an import.
ShowsSaved ==
  \E report \in Reports :
    /\ report.run # 0
    /\ Show(report)
    /\ UNCHANGED <<full, broken>>
    /\ saved' = SavedByEffect(Stored(report))
    /\ importing' = importing

\* What is not a step of the user changes the screen and the storage together,
\* or not at all.
LEMMA Delivery ==
  ASSUME TypeOK, Known,
         PipelineStep \/ RecoveryStep \/ ConfirmationStep \/ ServerStep \/ UNCHANGED vars
  PROVE  Offstage \/ ShowsSaved
<1> USE DEF storageVars, screenVars, waitVars, seenVars
<1>1. CASE StartAnalysis \/ LoginAndStart
  BY <1>1 DEF StartAnalysis, LoginAndStart, Effects, SavedByEffect, Offstage
<1>2. CASE CreateFails \/ StopRun \/ AcknowledgeRun
  BY <1>2 DEF CreateFails, StopRun, AcknowledgeRun, GiveUp, Effects, SavedByEffect, Offstage
<1>3. CASE SaveCheckpoint \/ PipelineFails \/ \E r \in Runs : CreateRun(r)
  BY <1>3 DEF SaveCheckpoint, PipelineFails, CreateRun, Offstage
<1>4. CASE DeliverReport
  <2>1. pipeline.run \in Runs /\ pipeline.run # 0 BY <1>4 DEF DeliverReport, Known, Runs
  <2>2. Unedited(pipeline.run, TRUE) \in Reports /\ Unedited(pipeline.run, TRUE).run # 0
    BY <2>1, UneditedFacts
  <2>3. QED BY <1>4, <2>2 DEF DeliverReport, Effects, ShowsSaved
<1>5. ASSUME NEW j \in recoveries, ReadCheckpoints(j) PROVE Offstage \/ ShowsSaved
  <2>1. j.run \in Runs /\ j.run # 0 BY DEF TypeOK, Runs
  <2>2. \A report \in Recovered(j.run) : report \in Reports /\ report.run # 0
    BY <2>1, UneditedFacts DEF Recovered
  <2>3. QED BY <1>5, <2>2 DEF ReadCheckpoints, Effects, Offstage, ShowsSaved
<1>6. ASSUME NEW j \in recoveries,
             LookAtRun(j) \/ AcknowledgeRecovered(j) \/ RecoveryFails(j)
      PROVE  Offstage
  BY <1>6 DEF LookAtRun, AcknowledgeRecovered, RecoveryFails, Offstage
<1>7. ASSUME NEW j \in confirmations,
             LookAtDelivery(j) \/ ConfirmDelivery(j) \/ ConfirmationFails(j)
      PROVE  Offstage
  BY <1>7 DEF LookAtDelivery, ConfirmDelivery, ConfirmationFails, Offstage
<1>8. CASE ServerStep
  BY <1>8 DEF ServerStep, Arrives, Expire, Erase, Offstage
<1>9. CASE UNCHANGED vars
  BY <1>9 DEF vars, Offstage
<1>10. QED
  BY <1>1, <1>2, <1>3, <1>4, <1>5, <1>6, <1>7, <1>8, <1>9
  DEF PipelineStep, RecoveryStep, ConfirmationStep

\* Every step keeps Saved: what comes on the screen is saved with it, what the
\* recovery view shows is what is saved, and only a step that clears the saved
\* report forgets the last one.
LEMMA SavedStep ==
  ASSUME TypeOK, Known, Saved, [Next]_vars
  PROVE  Saved'
<1> USE DEF storageVars, screenVars, waitVars, seenVars
<1>0. safe = {} \/ result = {}
  BY DEF TypeOK
<1>1. CASE Offstage
  BY <1>1 DEF Offstage, Saved
<1>2. CASE ShowsSaved
  <2>1. PICK report \in Reports :
          /\ report.run # 0
          /\ Show(report)
          /\ UNCHANGED <<full, broken>>
          /\ saved' = SavedByEffect(Stored(report))
          /\ importing' = importing
    BY <1>2 DEF ShowsSaved
  <2>2. report # Unedited(0, TRUE) BY <2>1 DEF Unedited
  <2>3. result' = {report} /\ safe' = {} /\ last' = {report} BY <2>1 DEF Show
  <2>4. ~full => saved' = {report} BY <2>1, <2>3 DEF SavedByEffect, Stored
  <2>5. QED BY <2>1, <2>2, <2>3, <2>4 DEF Saved
<1>3. ASSUME NEW yes \in BOOLEAN, SetAuthenticated(yes) PROVE Saved'
  BY <1>3 DEF SetAuthenticated, Effects, SavedByEffect, Saved
<1>4. ASSUME ImportReport PROVE Saved'
  BY <1>4 DEF ImportReport, AtStart, Saved
<1>5. ASSUME ImportRead PROVE Saved'
  <2>1. CASE UNCHANGED <<result, safe, seenVars>>
    BY <1>5, <2>1 DEF ImportRead, Effects, SavedByEffect, Saved
  <2>2. CASE Show(Unedited(0, TRUE))
    <3> DEFINE report == Unedited(0, TRUE)
    <3>1. result' = {report} /\ safe' = {} /\ last' = {report} BY <2>2 DEF Show
    <3>2. ~full => result' # result BY <1>5, <3>1 DEF ImportRead, Saved
    <3>3. ~full => saved' = {report}
      BY <1>5, <3>1, <3>2 DEF ImportRead, Effects, SavedByEffect
    <3> HIDE DEF report
    <3>4. QED BY <1>5, <3>1, <3>3 DEF ImportRead, Saved
  <2>3. QED BY <1>5, <2>1, <2>2 DEF ImportRead
<1>6. ASSUME EditReport PROVE Saved'
  <2>1. PICK q \in Reports : result = {q} /\ ~q.edited
    BY <1>6, SlotFacts DEF EditReport, TypeOK
  <2>2. result' = {[q EXCEPT !.edited = TRUE]} /\ last' = result' /\ safe' = {}
    BY <1>6, <2>1 DEF EditReport, TypeOK
  <2>3. [q EXCEPT !.edited = TRUE] # q /\ [q EXCEPT !.edited = TRUE] # Unedited(0, TRUE)
    BY <2>1 DEF Reports, Unedited
  <2>4. ~full => saved' = result'
    BY <1>6, <2>1, <2>2, <2>3 DEF EditReport, Effects, SavedByEffect
  <2>5. QED BY <1>6, <2>2, <2>3, <2>4 DEF EditReport, Saved
<1>7. ASSUME Reset PROVE Saved'
  BY <1>7 DEF Reset, Effects, SavedByEffect, Saved
<1>8. ASSUME ClearSaved PROVE Saved'
  BY <1>8 DEF ClearSaved, ClearStorage, ForgetCrash, Saved
<1>9. ASSUME ViewCrashes PROVE Saved'
  BY <1>9 DEF ViewCrashes, Saved
<1>10. ASSUME RestoreSaved PROVE Saved'
  BY <1>10 DEF RestoreSaved, MayRestore, Effects, SavedByEffect, Saved
<1>11. ASSUME OpenRecovered PROVE Saved'
  BY <1>0, <1>11 DEF OpenRecovered, Effects, SavedByEffect, Saved
<1>12. ASSUME ReturnToStart PROVE Saved'
  BY <1>12 DEF ReturnToStart, Effects, SavedByEffect, Saved
<1>13. ASSUME NEW session \in BOOLEAN, Restart(session) PROVE Saved'
  BY <1>13 DEF Restart, Saved
<1>14. QED
  BY <1>1, <1>2, <1>3, <1>4, <1>5, <1>6, <1>7, <1>8, <1>9, <1>10, <1>11, <1>12, <1>13, Delivery
  DEF Next, UserStep

-----------------------------------------------------------------------------
(* Who acknowledges *)

\* A step that shows no report, saves no checkpoint and lets nobody acknowledge
\* that was not about to, or whose report is on the screen.
Discreet ==
  /\ shown' = shown
  /\ \A r \in Runs : kept'[r] \subseteq kept[r]
  /\ pipeline'.at \in {"work", "acknowledge"} =>
       pipeline'.at = pipeline.at /\ pipeline'.run = pipeline.run
  /\ \A j \in recoveries' :
       \/ \E i \in recoveries : i.run = j.run /\ (j.at = "acknowledge" => i.at = "acknowledge")
       \/ j.at # "acknowledge" /\ ~loading'
  /\ \A j \in confirmations' :
       (\E i \in confirmations : i.run = j.run) \/ j.run \in RunOf(result')
  /\ \A q \in requests' : q.op = "acknowledge" => q \in requests \cup Abandoned

\* A run with a report on the screen after a step has been seen.
LEMMA OnScreenSeen ==
  ASSUME TypeOK', Known', NEW r \in RunOf(result')
  PROVE  Seen(r)'
<1>1. PICK q \in result' : q.run = r /\ r # 0 BY DEF RunOf
<1>2. q \in Reports BY <1>1, SlotFacts DEF TypeOK
<1>3. q.complete \in BOOLEAN BY <1>2 DEF Reports
<1>4. Unedited(r, q.complete) \in shown' BY <1>1 DEF Known
<1>5. QED BY <1>3, <1>4 DEF Seen

\* A discreet step keeps Acknowledging.
LEMMA DiscreetAcknowledging ==
  ASSUME TypeOK, TypeOK', Known, Known', Acknowledging, Discreet
  PROVE  Acknowledging'
<1>1. \A r : Seen(r)' <=> Seen(r) BY DEF Discreet, Seen
<1>2. pipeline'.at = "work" =>
        /\ \A q \in shown' : q.run # pipeline'.run
        /\ \A j \in recoveries' : j.run # pipeline'.run
  <2>1. loading' <=> pipeline'.at # "none" BY DEF TypeOK
  <2>2. QED BY <2>1 DEF Discreet, Acknowledging
<1>3. pipeline'.at = "acknowledge" => Seen(pipeline.run)' /\ pipeline'.run = pipeline.run
  BY <1>1 DEF Discreet, Acknowledging
<1>4. \A j \in recoveries' : j.at = "acknowledge" => Seen(j.run)'
  BY <1>1 DEF Discreet, Acknowledging
<1>5. \A j \in confirmations' : Seen(j.run)'
  <2>1. \A r \in RunOf(result') : Seen(r)'
    BY OnScreenSeen
  <2>2. QED BY <1>1, <2>1 DEF Discreet, Acknowledging
<1>6. \A q \in requests' : q.op = "acknowledge" => Seen(q.run)'
  BY <1>1, AbandonedFacts DEF Discreet, Acknowledging
<1>7. \A r \in Runs : Unedited(r, FALSE) \in shown' => "final_report" \notin kept'[r]
  BY DEF Discreet, Acknowledging
<1>8. QED BY <1>2, <1>3, <1>4, <1>5, <1>6, <1>7 DEF Acknowledging, Seen

\* The steps that are not discreet.
Telling ==
  \/ \E r \in Runs : CreateRun(r)
  \/ SaveCheckpoint \/ DeliverReport
  \/ \E j \in recoveries : ReadCheckpoints(j)

\* The rest of the analysis, the recovery and the confirmation is discreet.
LEMMA WorkDiscreet ==
  ASSUME DeliveryAssumption, TypeOK, Known,
         PipelineStep \/ RecoveryStep \/ ConfirmationStep, ~Telling
  PROVE  Discreet
<1> USE DEF serverVars, storageVars, screenVars, waitVars, seenVars, boundVars
<1>0. result \in Slot /\ saved \in Slot /\ NoPipeline.at = "none"
  BY DEF TypeOK, NoPipeline
<1>1. ASSUME StartAnalysis \/ LoginAndStart PROVE Discreet
  <2>1. pipeline'.at = "create"
    BY <1>1 DEF StartAnalysis, LoginAndStart, Analyze, NoPipeline
  <2>2. /\ \A j \in recoveries' : j \in recoveries \/ (j.at = "get" /\ ~loading')
        /\ \A j \in confirmations' : j \in confirmations \/ j.run \in RunOf(result')
    BY <1>0, <1>1, QuietEffects DEF StartAnalysis, LoginAndStart
  <2>3. QED BY <1>1, <2>1, <2>2 DEF StartAnalysis, LoginAndStart, Discreet
<1>2. ASSUME CreateFails \/ StopRun \/ AcknowledgeRun PROVE Discreet
  <2>1. GiveUp /\ key' \in {0, key}
    BY <1>2 DEF CreateFails, StopRun, AcknowledgeRun
  <2>2. kept' = kept
    BY <1>2 DEF CreateFails, StopRun, AcknowledgeRun, Answered, Refused, Serve
  <2>3. /\ \A j \in recoveries' : j \in recoveries \/ (j.at = "get" /\ ~loading')
        /\ \A j \in confirmations' : j \in confirmations \/ j.run \in RunOf(result')
    BY <1>0, <2>1, QuietEffects DEF GiveUp
  <2>4. QED BY <1>0, <2>1, <2>2, <2>3 DEF GiveUp, Discreet
<1>3. ASSUME PipelineFails PROVE Discreet
  <2>1. pipeline'.at = "stop" BY <1>3 DEF PipelineFails, TypeOK
  <2>2. QED BY <1>3, <2>1 DEF PipelineFails, Discreet
<1>4. ASSUME NEW j \in recoveries, LookAtRun(j) PROVE Discreet
  <2> DEFINE ready == state[j.run] \in {"ready_for_delivery", "completed"}
             moved == [j EXCEPT !.at = "read", !.ready = ready]
  <2>1. recoveries' = recoveries \ {j} \/ recoveries' = (recoveries \ {j}) \cup {moved}
    BY <1>4 DEF LookAtRun
  <2>2. moved.run = j.run /\ moved.at = "read" BY DEF TypeOK
  <2> HIDE DEF moved
  <2>3. QED BY <1>4, <2>1, <2>2 DEF LookAtRun, Discreet
<1>5. ASSUME NEW j \in recoveries, AcknowledgeRecovered(j) \/ RecoveryFails(j) PROVE Discreet
  BY <1>5 DEF AcknowledgeRecovered, RecoveryFails, Answered, Refused, Serve, Discreet
<1>6. ASSUME NEW j \in confirmations,
             LookAtDelivery(j) \/ ConfirmDelivery(j) \/ ConfirmationFails(j)
      PROVE  Discreet
  <2>1. \A i \in confirmations' : \E k \in confirmations : k.run = i.run
    BY <1>6 DEF LookAtDelivery, ConfirmDelivery, ConfirmationFails, TypeOK
  <2>2. kept' = kept
    BY <1>6 DEF LookAtDelivery, ConfirmDelivery, ConfirmationFails, Answered, Refused, Serve
  <2>3. QED
    BY <1>6, <2>1, <2>2 DEF LookAtDelivery, ConfirmDelivery, ConfirmationFails, Discreet
<1>7. QED
  BY <1>1, <1>2, <1>3, <1>4, <1>5, <1>6 DEF PipelineStep, RecoveryStep, ConfirmationStep, Telling

\* What the user and the server do is discreet: a page that goes away leaves
\* only acknowledgements that were on their way.
LEMMA OthersDiscreet ==
  ASSUME DeliveryAssumption, TypeOK, TypeOK', Known, UserStep \/ ServerStep \/ UNCHANGED vars
  PROVE  Discreet
<1> USE DEF serverVars, storageVars, screenVars, waitVars, seenVars, boundVars
<1>0. result' \in Slot /\ saved \in Slot /\ {} \in Slot
  BY SlotFacts DEF TypeOK
<1>a. ASSUME key' \in {0, key}, UNCHANGED <<kept, pipeline, shown>>,
             \A q \in requests' : q.op = "acknowledge" => q \in requests,
             NEW stored \in Slot, stored \subseteq saved, Effects(stored, recoveries, confirmations)
      PROVE  Discreet
  <2>1. /\ \A j \in recoveries' : j \in recoveries \/ (j.at = "get" /\ ~loading')
        /\ \A j \in confirmations' : j \in confirmations \/ j.run \in RunOf(result')
    BY <1>0, <1>a, QuietEffects
  <2>2. QED BY <1>a, <2>1 DEF Discreet
<1>1. ASSUME NEW yes \in BOOLEAN, SetAuthenticated(yes) PROVE Discreet
  BY <1>0, <1>1, <1>a DEF SetAuthenticated
<1>2. ASSUME ImportReport PROVE Discreet
  BY <1>2 DEF ImportReport, Discreet
<1>3. ASSUME ImportRead PROVE Discreet
  <2>1. shown' = shown BY <1>3, UneditedFacts DEF ImportRead, Show
  <2>2. QED BY <1>0, <1>3, <1>a, <2>1 DEF ImportRead
<1>4. ASSUME EditReport PROVE Discreet
  BY <1>0, <1>4, <1>a DEF EditReport
<1>5. ASSUME Reset PROVE Discreet
  <2>1. \A q \in requests' : q.op = "acknowledge" => q \in requests BY <1>5 DEF Reset
  <2>2. QED BY <1>0, <1>5, <1>a, <2>1 DEF Reset
<1>6. ASSUME ClearSaved \/ ViewCrashes PROVE Discreet
  BY <1>6 DEF ClearSaved, ViewCrashes, Discreet
<1>7. ASSUME RestoreSaved \/ OpenRecovered \/ ReturnToStart PROVE Discreet
  BY <1>0, <1>7, <1>a DEF RestoreSaved, OpenRecovered, ReturnToStart
<1>8. ASSUME NEW session \in BOOLEAN, Restart(session) PROVE Discreet
  BY <1>8 DEF Restart, NoPipeline, Discreet
<1>9. ASSUME NEW q \in requests, Arrives(q) PROVE Discreet
  BY <1>9 DEF Arrives, Serve, Discreet
<1>10. ASSUME NEW r \in Runs, Expire(r) \/ Erase(r) PROVE Discreet
  BY <1>10 DEF Expire, Erase, Discreet, TypeOK
<1>11. CASE UNCHANGED vars
  BY <1>11 DEF vars, Discreet
<1>12. QED
  BY <1>1, <1>2, <1>3, <1>4, <1>5, <1>6, <1>7, <1>8, <1>9, <1>10, <1>11 DEF UserStep, ServerStep

\* Every step keeps Acknowledging: a new run has not been seen, the checkpoints
\* of a run that has been seen are not added to, and a report is shown before
\* its run is acknowledged.
LEMMA AcknowledgingStep ==
  ASSUME DeliveryAssumption, TypeOK, TypeOK', Known, Known', Acknowledging, [Next]_vars
  PROVE  Acknowledging'
<1> USE DEF serverVars, storageVars, screenVars, waitVars, seenVars, boundVars
<1>1. ASSUME NEW r \in Runs, CreateRun(r) PROVE Acknowledging'
  <2>1. /\ \A q \in shown : q.run # r
        /\ \A j \in recoveries : j.run # r
    BY <1>1 DEF CreateRun, Known
  <2>2. pipeline'.run = r /\ pipeline'.at = "work" BY <1>1 DEF CreateRun, TypeOK
  <2>3. QED BY <1>1, <2>1, <2>2 DEF CreateRun, Acknowledging, Seen
<1>2. ASSUME SaveCheckpoint PROVE Acknowledging'
  <2>1. /\ pipeline \in Pipelines /\ pipeline.next \in 1..Len(Kinds) /\ pipeline.at = "work"
        /\ pipeline.run \in Runs
    BY <1>2, KindsFacts DEF SaveCheckpoint, TypeOK, Known, Pipelines
  <2>2. \E yes \in BOOLEAN : Advance(yes)
    BY <1>2, <2>1 DEF SaveCheckpoint, Pipelines
  <2>3. pipeline'.run = pipeline.run /\ pipeline'.at \in {"work", "ready"}
    BY <2>1, <2>2, AdvanceFacts
  <2>4. SaveReaches(pipeline.run) \/ UNCHANGED kept
    BY <1>2 DEF SaveCheckpoint
  <2>5. \A r \in Runs : r # pipeline.run => kept'[r] = kept[r]
    BY <2>4 DEF SaveReaches, TypeOK
  <2>6. Unedited(pipeline.run, FALSE) \notin shown
    <3>1. Unedited(pipeline.run, FALSE).run = pipeline.run BY <2>1, UneditedFacts
    <3>2. QED BY <2>1, <3>1 DEF Acknowledging
  <2>7. QED BY <1>2, <2>1, <2>3, <2>5, <2>6 DEF SaveCheckpoint, Acknowledging, Seen
<1>3. ASSUME DeliverReport PROVE Acknowledging'
  <2> DEFINE report == Unedited(pipeline.run, TRUE)
  <2>1. pipeline.run \in Runs /\ pipeline.run # 0 /\ pipeline.at = "ready"
    BY <1>3 DEF DeliverReport, Known, Runs
  <2>2. report \in Reports /\ report.run = pipeline.run
    BY <2>1, UneditedFacts
  <2>3. shown' = shown \cup {report}
    BY <1>3, <2>1, <2>2, ShowFacts DEF DeliverReport
  <2>4. kept' = kept /\ requests' = requests
    BY <1>3 DEF DeliverReport, Answered, Refused, Serve
  <2>5. pipeline'.run = pipeline.run /\ pipeline'.at = "acknowledge"
    BY <1>3 DEF DeliverReport, TypeOK
  <2>6. /\ \A j \in recoveries' : j \in recoveries \/ j.at = "get"
        /\ \A j \in confirmations' : j \in confirmations \/ j.run \in RunOf(result')
    BY <1>3, <2>2, ShowEffects DEF DeliverReport, TypeOK, RecoveryJobs
  <2>7. \A r \in Runs : Unedited(r, FALSE) # report
    BY <2>1, UneditedFacts
  <2>8. \A r \in RunOf(result') : Seen(r)'
    BY OnScreenSeen
  <2>9. \A r : Seen(r) => Seen(r)' BY <2>3 DEF Seen
  <2>10. Seen(pipeline.run)' BY <2>3, <2>5 DEF Seen
  <2> HIDE DEF report
  <2>11. QED
    BY <2>3, <2>4, <2>5, <2>6, <2>7, <2>8, <2>9, <2>10 DEF Acknowledging
<1>4. ASSUME NEW j \in recoveries, ReadCheckpoints(j) PROVE Acknowledging'
  <2>1. CASE recoveries' = recoveries \ {j} /\ UNCHANGED <<confirmations, saved, result, safe, seenVars>>
    BY <1>4, <2>1 DEF ReadCheckpoints, Acknowledging, Seen
  <2>2. ASSUME NEW report \in Recovered(j.run), Show(report),
               NEW jobs \in SUBSET RecoveryJobs,
               \A i \in jobs :
                 i \in recoveries \/ (i.run = j.run /\ (i.at = "acknowledge" => report.complete)),
               Effects(Stored(report), jobs, confirmations)
        PROVE  Acknowledging'
    <3>1. j.run \in Runs /\ j.run # 0
      BY DEF TypeOK, Runs
    <3>2. \/ report = Unedited(j.run, TRUE)
          \/ report = Unedited(j.run, FALSE) /\ "final_report" \notin kept[j.run]
      BY <2>2 DEF Recovered
    <3>3. report \in Reports /\ report.run = j.run
      BY <3>1, <3>2, UneditedFacts
    <3>4. shown' = shown \cup {report} BY <2>2, <3>1, <3>3, ShowFacts
    <3>5. UNCHANGED <<key, kept, pipeline, requests>> BY <1>4 DEF ReadCheckpoints
    <3>6. /\ \A i \in recoveries' : i \in jobs \/ (i.run = key /\ i.at = "get" /\ ~loading')
          /\ \A i \in confirmations' : i \in confirmations \/ i.run \in RunOf(result')
      BY <2>2, <3>3, <3>5, ShowEffects
    <3>7. \A r : Seen(r) => Seen(r)' BY <3>4 DEF Seen
    <3>8. Seen(j.run)' BY <3>2, <3>4 DEF Seen
    <3>9. \A r \in RunOf(result') : Seen(r)' BY OnScreenSeen
    <3>10. pipeline'.at = "work" =>
            /\ \A q \in shown' : q.run # pipeline'.run
            /\ \A i \in recoveries' : i.run # pipeline'.run
      <4>1. loading' <=> pipeline'.at # "none" BY DEF TypeOK
      <4>2. pipeline.at = "work" => j.run # pipeline.run BY DEF Acknowledging
      <4>3. QED BY <2>2, <3>3, <3>4, <3>5, <3>6, <4>1, <4>2 DEF Acknowledging
    <3>11. \A r \in Runs : Unedited(r, FALSE) \in shown' => "final_report" \notin kept'[r]
      <4>1. TAKE r \in Runs
      <4>2. Unedited(r, FALSE).run = r /\ Unedited(r, FALSE).complete = FALSE
        BY UneditedFacts
      <4>3. CASE report = Unedited(j.run, TRUE)
        <5>1. report.complete = TRUE BY <3>1, <4>3, UneditedFacts
        <5>2. QED BY <3>4, <3>5, <4>2, <5>1 DEF Acknowledging
      <4>4. CASE report = Unedited(j.run, FALSE) /\ "final_report" \notin kept[j.run]
        BY <3>3, <3>4, <3>5, <4>2, <4>4 DEF Acknowledging
      <4>5. QED BY <3>2, <4>3, <4>4
    <3>12. \A i \in recoveries' : i.at = "acknowledge" => Seen(i.run)'
      BY <2>2, <3>6, <3>7, <3>8 DEF Acknowledging
    <3>13. QED
      BY <3>5, <3>6, <3>7, <3>9, <3>10, <3>11, <3>12 DEF Acknowledging
  <2>3. ASSUME NEW report \in Recovered(j.run)
        PROVE  LET jobs == (recoveries \ {j}) \cup
                 (IF AcknowledgesRecovered(j, report) THEN {[j EXCEPT !.at = "acknowledge"]} ELSE {})
               IN  /\ jobs \in SUBSET RecoveryJobs
                   /\ \A i \in jobs :
                        i \in recoveries \/ (i.run = j.run /\ (i.at = "acknowledge" => report.complete))
    BY DEF RecoveryJobs, TypeOK, AcknowledgesRecovered
  <2>4. QED BY <1>4, <2>1, <2>2, <2>3 DEF ReadCheckpoints
<1>5. CASE Discreet
  BY <1>5, DiscreetAcknowledging
<1>6. QED
  BY <1>1, <1>2, <1>3, <1>4, <1>5, WorkDiscreet, OthersDiscreet DEF Next, Telling

-----------------------------------------------------------------------------
(* Theorems *)

\* The page before it is first used satisfies the invariant.
LEMMA InitInvariant ==
  ASSUME DeliveryAssumption, Init
  PROVE  IInv
<1>1. TypeOK
  <2>1. NoPipeline \in Pipelines /\ NoPipeline.at = "none"
    BY KindsFacts DEF NoPipeline, Pipelines
  <2>2. full \in BOOLEAN BY DEF Init, DeliveryAssumption
  <2>3. mishaps \in 0..MaxMishaps /\ turns \in 0..MaxTurns BY DEF Init, DeliveryAssumption
  <2>4. {} \in Slot BY SlotFacts
  <2>5. state \in [Runs -> States] /\ erased \in [Runs -> BOOLEAN]
        /\ kept \in [Runs -> SUBSET {Kinds[i] : i \in DOMAIN Kinds}]
    BY DEF Init, States
  <2>6. QED BY <2>1, <2>2, <2>3, <2>4, <2>5 DEF Init, TypeOK, Pipelines
<1>2. Known BY DEF Init, Known, NoPipeline
<1>3. Saved BY DEF Init, Saved
<1>4. Acknowledging BY DEF Init, Acknowledging, NoPipeline
<1>5. QED BY <1>1, <1>2, <1>3, <1>4 DEF IInv

\* The inductive invariant holds for every number of runs, mishaps and turns.
THEOREM DeliveryInvariant == Spec => []IInv
<1>1. Init => IInv
  BY InitInvariant, DeliveryAssumption
<1>2. IInv /\ [Next]_vars => IInv'
  BY DeliveryAssumption, TypeOKStep, KnownStep, SavedStep, AcknowledgingStep DEF IInv
<1>3. QED BY <1>1, <1>2, PTL DEF Spec

\* Every variable keeps its type.
THEOREM DeliveryTypeCorrect == Spec => []TypeOK
<1>1. IInv => TypeOK BY DEF IInv
<1>2. QED BY <1>1, DeliveryInvariant, PTL

\* A report the user has not cleared can be opened again, as long as the
\* session's storage accepts it.
THEOREM DeliveryKeepsReport == Spec => []LastReportKept
<1>1. IInv => LastReportKept BY DEF IInv, Saved, LastReportKept
<1>2. QED BY <1>1, DeliveryInvariant, PTL

\* The server's steps on run r that are no answer to a request above: it is
\* created, a checkpoint is saved in it, it expires or it is erased.
OwnStep(r) ==
  \/ state[r] = "none" /\ state' = [state EXCEPT ![r] = "active"] /\ UNCHANGED <<erased, kept>>
  \/ \E k \in {Kinds[i] : i \in DOMAIN Kinds} :
       /\ state[r] \in Working /\ kept' = [kept EXCEPT ![r] = @ \cup {k}]
       /\ UNCHANGED <<state, erased>>
  \/ Expire(r) \/ Erase(r)

\* What a step does to the server: nothing, one request, or what the server
\* does by itself; who acknowledges a run has shown a report of it.
LEMMA ServerChanges ==
  ASSUME TypeOK, Known, Acknowledging, [Next]_vars
  PROVE  \/ UNCHANGED serverVars
         \/ \E r \in Runs, op \in Ops : Serve(op, r) /\ (op = "acknowledge" => Seen(r))
         \/ \E r \in Runs : OwnStep(r)
<1> DEFINE Goal ==
      \/ UNCHANGED serverVars
      \/ \E r \in Runs, op \in Ops : Serve(op, r) /\ (op = "acknowledge" => Seen(r))
      \/ \E r \in Runs : OwnStep(r)
<1>1. ASSUME NEW op \in Ops, NEW r \in Runs, Answered(op, r) \/ Refused(op, r),
             op = "acknowledge" => Seen(r)
      PROVE  Goal
  BY <1>1 DEF Answered, Refused
<1>2. CASE CreateFails
  BY <1>2 DEF CreateFails, OwnStep, serverVars
<1>3. ASSUME NEW r \in Runs, CreateRun(r) PROVE Goal
  BY <1>3 DEF CreateRun, OwnStep
<1>4. CASE SaveCheckpoint
  <2>1. /\ pipeline.run \in Runs /\ Kinds[pipeline.next] \in {Kinds[i] : i \in DOMAIN Kinds}
        /\ UNCHANGED <<state, erased>>
    BY <1>4, KindsFacts DEF SaveCheckpoint, Known, TypeOK
  <2>2. (state[pipeline.run] \in Working /\ SaveReaches(pipeline.run)) \/ UNCHANGED kept
    BY <1>4 DEF SaveCheckpoint
  <2>3. QED BY <2>1, <2>2 DEF SaveReaches, OwnStep, serverVars
<1>5. CASE StopRun
  <2>1. pipeline.run \in Runs /\ StopRequest \in Ops /\ StopRequest # "acknowledge"
    BY <1>5 DEF StopRun, Known, StopRequest, Ops
  <2>2. QED BY <1>1, <1>5, <2>1 DEF StopRun
<1>6. CASE DeliverReport
  <2>1. pipeline.run \in Runs /\ "ready" \in Ops BY <1>6 DEF DeliverReport, Known, Ops
  <2>2. QED BY <1>1, <1>6, <2>1 DEF DeliverReport
<1>7. CASE AcknowledgeRun
  <2>1. pipeline.run \in Runs /\ "acknowledge" \in Ops /\ Seen(pipeline.run)
    BY <1>7 DEF AcknowledgeRun, Known, Acknowledging, Ops
  <2>2. QED BY <1>1, <1>7, <2>1 DEF AcknowledgeRun
<1>8. CASE StartAnalysis \/ LoginAndStart \/ PipelineFails
  BY <1>8 DEF StartAnalysis, LoginAndStart, PipelineFails
<1>9. ASSUME NEW j \in recoveries,
             LookAtRun(j) \/ ReadCheckpoints(j) \/ AcknowledgeRecovered(j) \/ RecoveryFails(j)
      PROVE  Goal
  <2>1. CASE AcknowledgeRecovered(j)
    <3>1. j.run \in Runs /\ "acknowledge" \in Ops /\ Seen(j.run)
      BY <2>1 DEF AcknowledgeRecovered, TypeOK, Acknowledging, Ops
    <3>2. QED BY <1>1, <2>1, <3>1 DEF AcknowledgeRecovered
  <2>2. QED BY <1>9, <2>1 DEF LookAtRun, ReadCheckpoints, RecoveryFails
<1>10. ASSUME NEW j \in confirmations,
             LookAtDelivery(j) \/ ConfirmDelivery(j) \/ ConfirmationFails(j)
      PROVE  Goal
  <2>1. CASE ConfirmDelivery(j)
    <3>1. j.run \in Runs /\ "acknowledge" \in Ops /\ Seen(j.run)
      BY DEF TypeOK, Acknowledging, Ops
    <3>2. QED BY <1>1, <2>1, <3>1 DEF ConfirmDelivery
  <2>2. QED BY <1>10, <2>1 DEF LookAtDelivery, ConfirmationFails
<1>11. CASE UserStep
  BY <1>11 DEF UserStep, SetAuthenticated, ImportReport, ImportRead, EditReport, Reset, ClearSaved,
     ViewCrashes, RestoreSaved, OpenRecovered, ReturnToStart, Restart
<1>12. ASSUME NEW q \in requests, Arrives(q) PROVE Goal
  <2>1. q.run \in Runs /\ q.op \in Ops /\ (q.op = "acknowledge" => Seen(q.run))
    BY DEF TypeOK, Acknowledging, Ops
  <2>2. QED BY <1>12, <2>1 DEF Arrives
<1>13. CASE UNCHANGED vars
  BY <1>13 DEF vars
<1>14. QED
  <2>1. Goal
    BY <1>2, <1>3, <1>4, <1>5, <1>6, <1>7, <1>8, <1>9, <1>10, <1>11, <1>12, <1>13
    DEF Next, PipelineStep, RecoveryStep, ConfirmationStep, ServerStep, OwnStep
  <2>2. QED BY <2>1

\* A run is acknowledged only after a report of it has been on the screen: the
\* complete one, unless no complete one can be read back.
THEOREM DeliverySafe == Spec => AcknowledgedShown
<1> DEFINE Shows ==
      \A r \in Runs :
        state[r] = "ready_for_delivery" /\ state'[r] = "completed" =>
          \/ Unedited(r, TRUE) \in shown
          \/ /\ Unedited(r, FALSE) \in shown
             /\ "final_report" \notin kept[r]
<1>1. IInv /\ [Next]_vars => [Shows]_vars
  <2> SUFFICES ASSUME TypeOK, Known, Acknowledging, [Next]_vars,
                      NEW r \in Runs, state[r] = "ready_for_delivery", state'[r] = "completed"
               PROVE  Seen(r)
    BY DEF IInv, Acknowledging, Seen
  <2>1. ASSUME NEW q \in Runs, NEW op \in Ops, Serve(op, q), op = "acknowledge" => Seen(q)
        PROVE  Seen(r)
    BY <2>1 DEF Serve, Leads, Ops, TypeOK
  <2>2. ASSUME NEW q \in Runs, OwnStep(q) PROVE FALSE
    BY <2>2 DEF OwnStep, Expire, Erase, TypeOK
  <2>3. QED BY <2>1, <2>2, ServerChanges DEF serverVars, TypeOK
<1>2. QED BY <1>1, DeliveryInvariant, PTL DEF Spec, AcknowledgedShown

\* A served request is the contract's step of the same name, or a repeated one
\* that changes nothing.
LEMMA ServeContract ==
  ASSUME TypeOK, NEW r \in Runs, NEW op \in Ops, Serve(op, r)
  PROVE  RunOnServer(r)!Next \/ UNCHANGED RunOnServer(r)!vars
<1>1. /\ Accepts(op, r) /\ UNCHANGED <<erased, kept>>
      /\ state'[r] = Leads(op, r)
  BY DEF Serve, TypeOK
<1>2. CASE op = "ready"
  <2>1. RunOnServer(r)!Ready
    BY <1>1, <1>2 DEF Accepts, Leads, RunOnServer!Ready, RunOnServer!Move
  <2>2. QED BY <2>1 DEF RunOnServer!Next
<1>3. CASE op = "acknowledge"
  <2>1. CASE state[r] = "ready_for_delivery"
    <3>1. RunOnServer(r)!Acknowledge
      BY <1>1, <1>3, <2>1 DEF Accepts, Leads, RunOnServer!Acknowledge, RunOnServer!Move
    <3>2. QED BY <3>1 DEF RunOnServer!Next
  <2>2. CASE state[r] = "completed"
    BY <1>1, <1>3, <2>2 DEF Leads, RunOnServer!vars
  <2>3. QED BY <1>1, <1>3, <2>1, <2>2 DEF Accepts
<1>4. CASE op = "suspend"
  <2>1. RunOnServer(r)!Suspend
    BY <1>1, <1>4
    DEF Accepts, Leads, Working, RunOnServer!Suspend, RunOnServer!Move, RunOnServer!Working
  <2>2. QED BY <2>1 DEF RunOnServer!Next
<1>5. CASE op = "fail"
  <2>1. CASE state[r] \in Working
    <3>1. RunOnServer(r)!Fail
      BY <1>1, <1>5, <2>1
      DEF Leads, Working, RunOnServer!Fail, RunOnServer!Move, RunOnServer!Working
    <3>2. QED BY <3>1 DEF RunOnServer!Next
  <2>2. CASE state[r] = "failed"
    BY <1>1, <1>5, <2>2 DEF Leads, RunOnServer!vars
  <2>3. QED BY <1>1, <1>5, <2>1, <2>2 DEF Accepts
<1>6. CASE op = "delete"
  <2>1. RunOnServer(r)!Delete
    BY <1>1, <1>6 DEF Accepts, Leads, RunOnServer!Delete
  <2>2. QED BY <2>1 DEF RunOnServer!Next
<1>7. QED BY <1>2, <1>3, <1>4, <1>5, <1>6 DEF Ops

\* What the server does by itself, and what the analysis makes it do, are steps
\* of the contract too.
LEMMA OwnContract ==
  ASSUME TypeOK, NEW r \in Runs, OwnStep(r)
  PROVE  RunOnServer(r)!Next
<1>1. CASE state[r] = "none" /\ state' = [state EXCEPT ![r] = "active"] /\ UNCHANGED <<erased, kept>>
  <2>1. RunOnServer(r)!Create
    BY <1>1 DEF TypeOK, RunOnServer!Create, RunOnServer!Move
  <2>2. QED BY <2>1 DEF RunOnServer!Next
<1>2. ASSUME NEW k \in {Kinds[i] : i \in DOMAIN Kinds},
             state[r] \in Working, kept' = [kept EXCEPT ![r] = @ \cup {k}],
             UNCHANGED <<state, erased>>
      PROVE  RunOnServer(r)!Next
  <2>1. kept'[r] = kept[r] \cup {k} BY <1>2 DEF TypeOK
  <2>2. RunOnServer(r)!Save
    BY <1>2, <2>1 DEF Working, RunOnServer!Save, RunOnServer!Working
  <2>3. QED BY <2>2 DEF RunOnServer!Next
<1>3. CASE Expire(r)
  <2>1. RunOnServer(r)!Expire
    BY <1>3
    DEF Expire, TypeOK, Open, Working, RunOnServer!Expire, RunOnServer!Move, RunOnServer!Open,
        RunOnServer!Working
  <2>2. QED BY <2>1 DEF RunOnServer!Next
<1>4. CASE Erase(r)
  <2>1. state[r] \in RunOnServer(r)!Ended
    BY <1>4 DEF Erase, Ended, States, Open, Working, RunOnServer!Ended
  <2>2. RunOnServer(r)!Erase
    BY <1>4, <2>1 DEF Erase, TypeOK, RunOnServer!Erase
  <2>3. QED BY <2>2 DEF RunOnServer!Next
<1>5. QED BY <1>1, <1>2, <1>3, <1>4 DEF OwnStep

\* A step that touches one run on the server leaves the others as they are.
LEMMA OneRunAtATime ==
  ASSUME TypeOK, NEW r \in Runs, NEW q \in Runs, q # r,
         OwnStep(r) \/ \E op \in Ops : Serve(op, r)
  PROVE  UNCHANGED RunOnServer(q)!vars
BY DEF OwnStep, Serve, Expire, Erase, TypeOK, RunOnServer!vars

\* Whatever the pages of a browser ask for, lose, repeat or leave behind, every
\* run goes through steps of RunContract.
THEOREM DeliveryKeepsContract == Spec => RunsKeepContract
<1>1. Init => \A r \in Runs : RunOnServer(r)!Init
  BY DEF Init, RunOnServer!Init
<1>2. IInv /\ [Next]_vars =>
        [\A r \in Runs : RunOnServer(r)!Next \/ UNCHANGED RunOnServer(r)!vars]_serverVars
  <2> SUFFICES ASSUME TypeOK, Known, Acknowledging, [Next]_vars, ~UNCHANGED serverVars,
                      NEW q \in Runs
               PROVE  RunOnServer(q)!Next \/ UNCHANGED RunOnServer(q)!vars
    BY DEF IInv
  <2>1. ASSUME NEW r \in Runs, NEW op \in Ops, Serve(op, r)
        PROVE  RunOnServer(q)!Next \/ UNCHANGED RunOnServer(q)!vars
    <3>1. CASE q = r BY <2>1, <3>1, ServeContract
    <3>2. CASE q # r BY <2>1, <3>2, OneRunAtATime
    <3>3. QED BY <3>1, <3>2
  <2>2. ASSUME NEW r \in Runs, OwnStep(r)
        PROVE  RunOnServer(q)!Next \/ UNCHANGED RunOnServer(q)!vars
    <3>1. CASE q = r BY <2>2, <3>1, OwnContract
    <3>2. CASE q # r BY <2>2, <3>2, OneRunAtATime
    <3>3. QED BY <3>1, <3>2
  <2>3. QED BY <2>1, <2>2, ServerChanges
<1>3. QED BY <1>1, <1>2, DeliveryInvariant, PTL DEF Spec, RunsKeepContract

-----------------------------------------------------------------------------
(* The stage client: the inductive invariant *)

\* How far a call has come follows the state of its attempt.
CallFollows ==
  \A i \in Profiles :
    /\ ledger[i] \in {"none", "queued", "dispatch_intent", "cancelled"} => call[i] = "none"
    /\ ledger[i] = "fallback_allowed" => call[i] \in {"none", "rejected"}
    /\ ledger[i] = "succeeded" => call[i] = "text"

\* What a request and its response say about the attempt: one that is served
\* was reserved, and a final frame other than an error is the ledger's.
ResponseFollows ==
  \A i \in Profiles :
    /\ request[i] \in {"none", "received"} => ledger[i] = "none"
    /\ request[i] = "serving" => ledger[i] # "none"
    /\ frame[i] = "404" => ledger[i] = "none" /\ request[i] = "closed"
    /\ frame[i] = "fallback" => ledger[i] = "fallback_allowed"
    /\ frame[i] = "done" => ledger[i] = "succeeded"

\* The browser dispatches one profile after the other.  It leaves one only when it
\* has not found its attempt in time, or the attempt never came to be, was
\* released, or succeeded, and beside one that succeeded no later one comes to be.
InTurn ==
  /\ \A i \in Profiles : i > pos => request[i] = "none"
  /\ pc \in {"approve", "dispatch"} => request[pos] = "none"
  /\ pc \in {"stream", "poll"} => request[pos] # "none"
  /\ \A i \in Profiles : i < pos /\ i \notin absent =>
       /\ ledger[i] \in {"none", "fallback_allowed", "succeeded"}
       /\ request[i] # "received"
       /\ ledger[i] = "succeeded" => \A j \in Profiles : j > i => ledger[j] = "none"

\* The accepted attempt has succeeded, and there is one as soon as one has.
AcceptedFollows ==
  /\ accepted # 0 => ledger[accepted] = "succeeded"
  /\ \A i \in Profiles : ledger[i] = "succeeded" => accepted # 0

\* A returned text is that of the profile the browser is at, whose attempt
\* succeeded; the refused ones are those of profiles it has left.
TextFollows ==
  /\ pc = "returned" => used = pos /\ ledger[pos] = "succeeded" /\ pos \notin judged
  /\ \A i \in judged : i <= pos
  /\ pos \in judged => pc = "failed"

StageIInv ==
  /\ StageTypeOK
  /\ CallFollows
  /\ ResponseFollows
  /\ InTurn
  /\ AcceptedFollows
  /\ TextFollows

-----------------------------------------------------------------------------
(* Steps *)

Ledgers == Unsettled \cup
  {"none", "succeeded", "fallback_allowed", "outcome_unknown", "cancelled",
   "result_unavailable"}

Calls == {"none", "cleared", "inflight", "text", "rejected", "uncertain"}

\* What a step of the ledger that is not a reservation does: it moves one
\* attempt on that was reserved and not yet settled for good, or its call.
LedgerMoved(i) ==
  /\ UNCHANGED <<browserVars, gatewayVars, packet, runOpen, faults>>
  /\ ledger' \in [Profiles -> Ledgers] /\ call' \in [Profiles -> Calls]
  /\ accepted' \in {0} \cup Profiles /\ results' \in SUBSET Profiles
  /\ \A j \in Profiles : j # i => ledger'[j] = ledger[j] /\ call'[j] = call[j]
  /\ \/ ledger'[i] = ledger[i]
     \/ ledger[i] \in Unsettled \cup {"outcome_unknown"} /\ ledger'[i] # "none"
  /\ \/ UNCHANGED accepted /\ (ledger'[i] = "succeeded" => ledger[i] = "succeeded")
     \/ /\ ledger[i] \in {"send_authorized", "outcome_unknown"}
        /\ ledger'[i] = "succeeded" /\ accepted' = i

\* A step of the server on one attempt moves that attempt only, and only along
\* the transitions of the ledger.
LEMMA LedgerStepMoves ==
  ASSUME StageTypeOK, NEW i \in Profiles, LedgerStep(i)
  PROVE  LedgerMoved(i)
<1> USE DEF LedgerMoved, LedgerStep, StageTypeOK, Unsettled, Ledgers, Calls, Ledger!Move
<1>1. CASE Ledger!Prepare(i) \/ Ledger!Authorize(i) \/ Ledger!Doubt(i) \/ Ledger!Lose(i)
  BY <1>1 DEF Ledger!Prepare, Ledger!Authorize, Ledger!Doubt, Ledger!Lose, Ledger!Accept
<1>2. CASE Ledger!Send(i) \/ Ledger!Abandon(i) \/ Ledger!Answer(i)
  BY <1>2 DEF Ledger!Send, Ledger!Abandon, Ledger!Answer, Ledger!Accept
<1>3. CASE Ledger!Release(i)
  BY <1>3 DEF Ledger!Release, Ledger!Accept
<1>4. CASE Ledger!Accept(i) /\ accepted' = i /\ results' = results \cup {i}
  BY <1>4 DEF Ledger!Accept
<1>5. QED BY <1>1, <1>2, <1>3, <1>4

\* After a profile the browser is at the next one of the chain or has failed.
LEMMA NextProfileType ==
  ASSUME ChainAssumption, pos \in Profiles, NextProfile
  PROVE  pos' \in Profiles /\ missing' = FALSE /\ pc' \in {"approve", "failed"}
<1>1. CASE pos < Chain
  <2>1. pos' = pos + 1 /\ missing' = FALSE /\ pc' = "approve" BY <1>1 DEF NextProfile
  <2>2. pos + 1 \in 1..Chain BY <1>1 DEF ChainAssumption, Profiles
  <2>3. QED BY <2>1, <2>2 DEF Profiles
<1>2. CASE ~(pos < Chain) BY <1>2 DEF NextProfile
<1>3. QED BY <1>1, <1>2

\* Every step of the browser, the gateway and the server keeps the types.
LEMMA StageTypeStep ==
  ASSUME ChainAssumption, StageTypeOK, [StageNext]_stageVars
  PROVE  StageTypeOK'
<1> USE DEF StageTypeOK, ChainAssumption
<1>1. CASE Approve \/ ApproveThrows
  <2>1. packet' \in [Profiles -> {"none", "approved", "claimed"}]
    BY <1>1 DEF Approve, ApproveThrows
  <2>2. faults' \in 0..MaxFaults
    BY <1>1 DEF Approve, ApproveThrows, Fault
  <2>3. QED
    BY NextProfileType, <1>1, <2>1, <2>2 DEF Approve, ApproveThrows, Goes, gatewayVars
<1>2. CASE Dispatch \/ StreamTimesOut
  BY <1>2 DEF Dispatch, StreamTimesOut, Goes, browserVars, storeVars
<1>3. CASE ReadStream
  BY NextProfileType, <1>3 DEF ReadStream, TakeText, Goes, gatewayVars, storeVars
<1>4. CASE Poll \/ PollTimesOut
  BY NextProfileType, <1>4 DEF Poll, PollTimesOut, TakeForAbsent, TakeText, Goes, gatewayVars,
                               storeVars
<1>5. ASSUME NEW i \in Profiles, Reserve(i) PROVE StageTypeOK'
  BY <1>5 DEF Reserve, Close, Ledger!Reserve, Ledger!Move, Unsettled, browserVars
<1>6. ASSUME NEW i \in Profiles, ReserveThrows(i) PROVE StageTypeOK'
  BY <1>6 DEF ReserveThrows, Close, Ledger!Reserve, Ledger!Move, Unsettled, Fault, browserVars
<1>7. ASSUME NEW i \in Profiles, WriteFrame(i) \/ ServingFails(i) \/ RequestLost(i)
      PROVE  StageTypeOK'
  BY <1>7 DEF WriteFrame, ServingFails, RequestLost, Close, Fault, browserVars, storeVars
<1>8. ASSUME NEW i \in Profiles, LedgerStep(i) PROVE StageTypeOK'
  BY <1>8, LedgerStepMoves DEF LedgerMoved, Ledgers, Calls, browserVars, gatewayVars
<1>9. ASSUME NEW i \in Profiles, ResultGone(i) PROVE StageTypeOK'
  BY <1>9 DEF ResultGone, Fault, browserVars, gatewayVars
<1>10. CASE RunEnds
  BY <1>10 DEF RunEnds, browserVars, gatewayVars
<1>11. CASE UNCHANGED stageVars
  BY <1>11 DEF stageVars, browserVars, gatewayVars, storeVars
<1>12. QED
  BY <1>1, <1>2, <1>3, <1>4, <1>5, <1>6, <1>7, <1>8, <1>9, <1>10, <1>11
  DEF StageNext, Browser, Gateway

-----------------------------------------------------------------------------
(* Calls *)

\* Every step keeps CallFollows: the ledger releases an attempt only if its call
\* never ran or was refused.
LEMMA CallFollowsStep ==
  ASSUME StageTypeOK, CallFollows, [StageNext]_stageVars
  PROVE  CallFollows'
<1> USE DEF CallFollows, StageTypeOK
<1>1. CASE UNCHANGED <<ledger, call>>
  BY <1>1
<1>2. ASSUME NEW i \in Profiles, Ledger!Reserve(i) PROVE CallFollows'
  BY <1>2 DEF Ledger!Reserve, Ledger!Move
<1>3. ASSUME NEW i \in Profiles, LedgerStep(i) PROVE CallFollows'
  <2> USE DEF Ledger!Move
  <2>1. CASE Ledger!Prepare(i) \/ Ledger!Authorize(i)
    BY <2>1 DEF Ledger!Prepare, Ledger!Authorize
  <2>2. CASE Ledger!Send(i) \/ Ledger!Abandon(i) \/ Ledger!Answer(i)
    BY <2>2 DEF Ledger!Send, Ledger!Abandon, Ledger!Answer
  <2>3. CASE Ledger!Release(i) \/ Ledger!Doubt(i)
    BY <2>3 DEF Ledger!Release, Ledger!Doubt
  <2>4. CASE Ledger!Accept(i) \/ Ledger!Lose(i)
    BY <2>4 DEF Ledger!Accept, Ledger!Lose
  <2>5. QED BY <1>3, <2>1, <2>2, <2>3, <2>4 DEF LedgerStep
<1>4. QED
  BY <1>1, <1>2, <1>3
  DEF StageNext, Browser, Gateway, Approve, ApproveThrows, Dispatch, ReadStream, StreamTimesOut,
      Poll, PollTimesOut, Reserve, ReserveThrows, WriteFrame, ServingFails, RequestLost,
      ResultGone, RunEnds, stageVars

-----------------------------------------------------------------------------
(* Responses *)

\* Every step keeps ResponseFollows: a final frame is read off a settled attempt,
\* and those two states are final.
LEMMA ResponseFollowsStep ==
  ASSUME StageTypeOK, ResponseFollows, InTurn, [StageNext]_stageVars
  PROVE  ResponseFollows'
<1> USE DEF ResponseFollows, StageTypeOK
<1>1. CASE UNCHANGED <<request, frame, ledger>>
  BY <1>1
<1>2. CASE Dispatch
  BY <1>2 DEF Dispatch, InTurn
<1>3. CASE StreamTimesOut
  BY <1>3 DEF StreamTimesOut
<1>4. ASSUME NEW i \in Profiles, Reserve(i) PROVE ResponseFollows'
  BY <1>4 DEF Reserve, Close, Ledger!Reserve, Ledger!Move
<1>5. ASSUME NEW i \in Profiles, ReserveThrows(i) PROVE ResponseFollows'
  BY <1>5 DEF ReserveThrows, Close, Ledger!Reserve, Ledger!Move
<1>6. ASSUME NEW i \in Profiles, WriteFrame(i) \/ ServingFails(i) \/ RequestLost(i)
      PROVE  ResponseFollows'
  BY <1>6 DEF WriteFrame, ServingFails, RequestLost, Close
<1>7. ASSUME NEW i \in Profiles, LedgerStep(i) PROVE ResponseFollows'
  BY <1>7, LedgerStepMoves DEF LedgerMoved, gatewayVars, Unsettled
<1>8. QED
  BY <1>1, <1>2, <1>3, <1>4, <1>5, <1>6, <1>7
  DEF StageNext, Browser, Gateway, Approve, ApproveThrows, ReadStream, Poll, PollTimesOut,
      ResultGone, RunEnds, stageVars, gatewayVars

-----------------------------------------------------------------------------
(* The order of the chain *)

\* A profile whose attempt was looked for and found, or never came to be, is left
\* only when that attempt can do nothing any more.
LEMMA InTurnStep ==
  ASSUME ChainAssumption, StageTypeOK, ResponseFollows, InTurn, AcceptedFollows,
         [StageNext]_stageVars
  PROVE  InTurn'
<1> USE DEF InTurn, StageTypeOK
<1> DEFINE Left == ledger[pos] \in {"none", "fallback_allowed", "succeeded"}
                     /\ request[pos] # "received"
<1>1. ASSUME NextProfile, \/ Left /\ UNCHANGED absent
                         \/ absent' = absent \cup {pos},
             request[pos] # "none" \/ pc = "approve", UNCHANGED <<request, ledger>>
      PROVE  InTurn'
  <2>1. \A j \in Profiles : j > pos => request[j] = "none" /\ ledger[j] = "none"
    BY DEF ResponseFollows
  <2>2. absent \subseteq absent' BY <1>1
  <2>3. CASE pos < Chain
    BY <1>1, <2>1, <2>2, <2>3 DEF NextProfile, Profiles, ChainAssumption
  <2>4. CASE ~(pos < Chain)
    BY <1>1, <2>2, <2>4 DEF NextProfile, Profiles, ChainAssumption
  <2>5. QED BY <2>3, <2>4
<1>2. ASSUME UNCHANGED <<pos, absent, request, ledger>>,
             \/ pc' \notin {"approve", "dispatch"}
             \/ (pc' = "dispatch" /\ pc = "approve")
             \/ pc' = pc,
             pc' \in {"stream", "poll"} => pc \in {"stream", "poll"}
      PROVE  InTurn'
  BY <1>2
<1>3. CASE Approve
  BY <1>2, <1>3 DEF Approve, Goes, gatewayVars
<1>4. CASE ApproveThrows
  <2>1. Left BY <1>4 DEF ApproveThrows, ResponseFollows
  <2>2. QED BY <1>1, <1>4, <2>1 DEF ApproveThrows, gatewayVars
<1>5. CASE Dispatch
  BY <1>5 DEF Dispatch, Goes, Profiles
<1>6. CASE ReadStream
  <2>1. CASE NextProfile
    <3>1. frame[pos] \in {"done", "404", "fallback"}
      BY <1>6, <2>1 DEF ReadStream, Goes, NextProfile
    <3>2. Left
      BY <3>1 DEF ResponseFollows
    <3>3. QED BY <1>1, <1>6, <2>1, <3>2 DEF ReadStream, gatewayVars
  <2>2. CASE Goes("returned") \/ Goes("poll")
    BY <1>2, <1>6, <2>2 DEF ReadStream, Goes, gatewayVars
  <2>3. QED BY <1>6, <2>1, <2>2 DEF ReadStream, TakeText
<1>7. CASE Poll
  <2>1. CASE UNCHANGED <<pos, pc, absent>>
    BY <1>2, <1>7, <2>1 DEF Poll, gatewayVars
  <2>2. CASE NextProfile /\ ((Left /\ UNCHANGED absent) \/ absent' = absent \cup {pos})
    BY <1>1, <1>7, <2>2 DEF Poll, gatewayVars
  <2>3. CASE (Goes("returned") \/ Goes("failed")) /\ UNCHANGED absent
    BY <1>2, <1>7, <2>3 DEF Poll, Goes, gatewayVars
  <2>4. QED
    BY <1>7, <2>1, <2>2, <2>3 DEF Poll, TakeForAbsent, Released, TakeText, ResponseFollows
<1>8. CASE PollTimesOut
  BY <1>2, <1>8 DEF PollTimesOut, Goes, gatewayVars
<1>9. ASSUME NEW i \in Profiles, Gateway(i) PROVE InTurn'
  <2>1. UNCHANGED browserVars
    BY <1>9 DEF Gateway, Reserve, ReserveThrows, WriteFrame, ServingFails, RequestLost
  <2>2. /\ request[i] \in {"received", "serving"}
        /\ request' = [request EXCEPT ![i] = "closed"]
             \/ request' = [request EXCEPT ![i] = "serving"]
    BY <1>9 DEF Gateway, Reserve, ReserveThrows, WriteFrame, ServingFails, RequestLost, Close
  <2>3. \/ ledger' = ledger
        \/ /\ request[i] = "received" /\ ledger' = [ledger EXCEPT ![i] = "queued"]
           /\ accepted = 0
    BY <1>9 DEF Gateway, Reserve, ReserveThrows, WriteFrame, ServingFails, RequestLost,
                ExecutionOpen, Ledger!Reserve, Ledger!Move
  <2>4. \A j \in Profiles : ledger[j] = "succeeded" => ledger' = ledger
    BY <2>3 DEF AcceptedFollows
  <2>5. QED BY <2>1, <2>2, <2>3, <2>4 DEF browserVars
<1>10. ASSUME NEW i \in Profiles, LedgerStep(i) PROVE InTurn'
  <2>1. LedgerMoved(i) BY <1>10, LedgerStepMoves
  <2>2. \A j \in Profiles : ledger[j] \in {"none", "fallback_allowed", "succeeded"}
          => ledger'[j] = ledger[j]
    BY <2>1 DEF LedgerMoved, Unsettled
  <2>3. QED BY <2>1, <2>2 DEF LedgerMoved, browserVars, gatewayVars
<1>11. ASSUME NEW i \in Profiles, ResultGone(i) PROVE InTurn'
  BY <1>11 DEF ResultGone, browserVars, gatewayVars
<1>12. CASE StreamTimesOut \/ RunEnds
  BY <1>12 DEF StreamTimesOut, RunEnds, browserVars, gatewayVars
<1>13. CASE UNCHANGED stageVars
  BY <1>13 DEF stageVars, browserVars, gatewayVars
<1>14. QED
  BY <1>3, <1>4, <1>5, <1>6, <1>7, <1>8, <1>9, <1>10, <1>11, <1>12, <1>13 DEF StageNext, Browser

-----------------------------------------------------------------------------
(* The accepted attempt *)

\* Every step keeps AcceptedFollows: success and its acceptance are one step.
LEMMA AcceptedFollowsStep ==
  ASSUME StageTypeOK, AcceptedFollows, [StageNext]_stageVars
  PROVE  AcceptedFollows'
<1> USE DEF AcceptedFollows, StageTypeOK
<1>1. CASE UNCHANGED <<accepted, ledger>>
  BY <1>1
<1>2. ASSUME NEW i \in Profiles, Reserve(i) \/ ReserveThrows(i), ledger' # ledger
      PROVE  AcceptedFollows'
  <2>1. /\ accepted = 0 /\ accepted' = accepted
        /\ ledger' = [ledger EXCEPT ![i] = "queued"]
    BY <1>2 DEF Reserve, ReserveThrows, ExecutionOpen, Ledger!Reserve, Ledger!Move
  <2>2. QED BY <2>1 DEF Profiles
<1>3. ASSUME NEW i \in Profiles, LedgerStep(i) PROVE AcceptedFollows'
  BY <1>3, LedgerStepMoves DEF LedgerMoved, Unsettled, Profiles
<1>4. QED
  BY <1>1, <1>2, <1>3
  DEF StageNext, Browser, Gateway, Approve, ApproveThrows, Dispatch, ReadStream, StreamTimesOut,
      Poll, PollTimesOut, Reserve, ReserveThrows, WriteFrame, ServingFails, RequestLost,
      ResultGone, RunEnds, stageVars, storeVars

-----------------------------------------------------------------------------
(* The returned text *)

\* Every step keeps TextFollows: the browser judges a text only once it has
\* taken it from an accepted attempt.
LEMMA TextFollowsStep ==
  ASSUME ChainAssumption, StageTypeOK, ResponseFollows, TextFollows, [StageNext]_stageVars
  PROVE  TextFollows'
<1> USE DEF TextFollows, StageTypeOK
<1>1. ASSUME NextProfile, UNCHANGED <<judged, used>>, pc \notin {"returned", "failed"}
      PROVE  TextFollows'
  BY <1>1 DEF NextProfile, Profiles, ChainAssumption
<1>2. ASSUME TakeText, ledger[pos] = "succeeded", ledger' = ledger,
             pc \notin {"returned", "failed"}
      PROVE  TextFollows'
  <2>1. CASE used' = pos /\ Goes("returned") /\ UNCHANGED judged
    BY <1>2, <2>1 DEF Goes
  <2>2. CASE judged' = judged \cup {pos} /\ NextProfile /\ UNCHANGED used
    BY <1>2, <2>2 DEF NextProfile, Profiles, ChainAssumption
  <2>3. QED BY <1>2, <2>1, <2>2 DEF TakeText
<1>3. ASSUME UNCHANGED <<pos, judged, used>>, pc # "failed",
             pc' # "returned" \/ UNCHANGED <<pc, ledger>>
      PROVE  TextFollows'
  BY <1>3
<1>4. CASE Approve \/ ApproveThrows \/ Dispatch
  BY <1>1, <1>3, <1>4 DEF Approve, ApproveThrows, Dispatch, Goes
<1>5. CASE ReadStream
  BY <1>1, <1>2, <1>3, <1>5 DEF ReadStream, Goes, ResponseFollows
<1>6. CASE Poll
  BY <1>1, <1>2, <1>3, <1>6 DEF Poll, TakeForAbsent, Goes
<1>7. CASE PollTimesOut
  BY <1>3, <1>7 DEF PollTimesOut, Goes
<1>8. ASSUME NEW i \in Profiles, Gateway(i) \/ LedgerStep(i) \/ ResultGone(i)
      PROVE  TextFollows'
  <2>1. UNCHANGED browserVars
    BY <1>8 DEF Gateway, Reserve, ReserveThrows, WriteFrame, ServingFails, RequestLost,
                LedgerStep, ResultGone
  <2>2. ledger[pos] = "succeeded" => ledger'[pos] = "succeeded"
    BY <1>8, LedgerStepMoves
    DEF Gateway, Reserve, ReserveThrows, WriteFrame, ServingFails, RequestLost, ResultGone,
        Ledger!Reserve, Ledger!Move, LedgerMoved, Unsettled
  <2>3. QED BY <2>1, <2>2 DEF browserVars
<1>9. CASE StreamTimesOut \/ RunEnds \/ UNCHANGED stageVars
  BY <1>9 DEF StreamTimesOut, RunEnds, stageVars, browserVars
<1>10. QED
  BY <1>4, <1>5, <1>6, <1>7, <1>8, <1>9 DEF StageNext, Browser

-----------------------------------------------------------------------------
(* Theorems *)

\* Before the first dispatch nothing is reserved and every part holds.
LEMMA StageInitInvariant ==
  ASSUME ChainAssumption, StageInit
  PROVE  StageIInv
<1>1. StageTypeOK
  <2>1. pos \in Profiles BY DEF ChainAssumption, StageInit, Profiles
  <2>2. faults \in 0..MaxFaults BY DEF ChainAssumption, StageInit
  <2>3. QED BY <2>1, <2>2 DEF StageInit, StageTypeOK, Ledger!Init
<1>2. CallFollows /\ ResponseFollows
  BY DEF StageInit, CallFollows, ResponseFollows, Ledger!Init
<1>3. InTurn
  BY DEF ChainAssumption, StageInit, InTurn, Profiles, Ledger!Init
<1>4. AcceptedFollows /\ TextFollows
  BY DEF StageInit, AcceptedFollows, TextFollows, Ledger!Init
<1>5. QED BY <1>1, <1>2, <1>3, <1>4 DEF StageIInv

\* The inductive invariant holds for every chain.
THEOREM StageInvariant == StageSpec => []StageIInv
<1>1. StageInit => StageIInv
  BY StageInitInvariant, ChainAssumption
<1>2. StageIInv /\ [StageNext]_stageVars => StageIInv'
  BY ChainAssumption, StageTypeStep, CallFollowsStep, ResponseFollowsStep, InTurnStep,
     AcceptedFollowsStep, TextFollowsStep
  DEF StageIInv
<1>3. QED BY <1>1, <1>2, PTL DEF StageSpec

\* Every variable keeps its type.
THEOREM StageTypeCorrect == StageSpec => []StageTypeOK
<1>1. StageIInv => StageTypeOK
  BY DEF StageIInv
<1>2. QED BY <1>1, StageInvariant, PTL

\* The invariant orders any two attempts that are engaged: the earlier one is
\* behind the browser, and was left because it was not found in time.
LEMMA EarlierIsAbsent ==
  ASSUME StageIInv, NEW i \in Profiles, NEW j \in Profiles, i < j, Engaged(i), Engaged(j)
  PROVE  i < pos /\ i \in absent
<1> USE DEF StageIInv, StageTypeOK
<1>1. ledger[j] # "none"
  BY DEF CallFollows, Engaged, Unsettled
<1>2. j <= pos
  BY <1>1 DEF InTurn, ResponseFollows, Profiles
<1>3. i < pos
  BY <1>2 DEF Profiles
<1>4. CASE i \notin absent
  <2>1. ledger[i] \in {"none", "fallback_allowed"}
    BY <1>1, <1>3, <1>4 DEF InTurn
  <2>2. QED BY <2>1 DEF CallFollows, Engaged, Unsettled
<1>5. QED BY <1>3, <1>4

\* For every chain, and however slow a request is: of two attempts at work, in
\* doubt or succeeded at the same time, the earlier one was not found in time.
THEOREM OneAtATimeSafe == StageSpec => []OneAtATime
<1>1. StageIInv => OneAtATime
  BY EarlierIsAbsent DEF OneAtATime
<1>2. QED BY <1>1, StageInvariant, PTL

\* The text a stage returns is that of an attempt that succeeded and was not
\* refused, and the accepted one if not an attempt that was not found in time.
THEOREM AnswerSafe == StageSpec => []AnswerIsAccepted
<1>1. StageIInv => AnswerIsAccepted
  <2> SUFFICES ASSUME StageIInv, pc = "returned"
               PROVE  /\ used \notin judged
                      /\ ledger[used] = "succeeded" /\ call[used] = "text"
                      /\ accepted = used \/ accepted \in absent
    BY DEF AnswerIsAccepted
  <2> USE DEF StageIInv, StageTypeOK
  <2>1. used = pos /\ ledger[used] = "succeeded" /\ used \notin judged
    BY DEF TextFollows
  <2>2. call[used] = "text"
    BY <2>1 DEF CallFollows
  <2>3. accepted \in Profiles /\ ledger[accepted] = "succeeded"
    BY <2>1 DEF AcceptedFollows
  <2>4. Engaged(used) /\ Engaged(accepted)
    BY <2>1, <2>3 DEF Engaged
  <2>5. CASE accepted < used
    BY <2>1, <2>2, <2>3, <2>4, <2>5, EarlierIsAbsent
  <2>6. CASE used < accepted
    BY <2>1, <2>2, <2>3, <2>4, <2>6, EarlierIsAbsent DEF Profiles
  <2>7. accepted = used \/ accepted < used \/ used < accepted
    BY <2>1, <2>3 DEF Profiles
  <2>8. QED BY <2>1, <2>2, <2>5, <2>6, <2>7
<1>2. QED BY <1>1, StageInvariant, PTL

\* A stage execution accepts one attempt for good, unless the one that replaces it
\* or the one replaced was not found in time.
THEOREM AcceptedOnceSafe == StageSpec => AcceptedOnce
<1> DEFINE Kept == accepted # 0 => accepted' = accepted \/ {accepted, accepted'} \cap absent # {}
<1>1. StageIInv /\ [StageNext]_stageVars => [Kept]_stageVars
  <2> SUFFICES ASSUME StageIInv, StageNext, accepted # 0, accepted' # accepted
               PROVE  {accepted, accepted'} \cap absent # {}
    OBVIOUS
  <2> USE DEF StageIInv, StageTypeOK
  <2>1. PICK i \in Profiles : LedgerStep(i)
    BY DEF StageNext, Browser, Gateway, Approve, ApproveThrows, Dispatch, ReadStream,
           StreamTimesOut, Poll, PollTimesOut, Reserve, ReserveThrows, WriteFrame, ServingFails,
           RequestLost, ResultGone, RunEnds, storeVars
  <2>2. accepted' = i /\ ledger[i] \in {"send_authorized", "outcome_unknown"}
    BY <2>1, LedgerStepMoves DEF LedgerMoved
  <2>3. accepted \in Profiles /\ Engaged(accepted) /\ Engaged(i)
    BY <2>2 DEF AcceptedFollows, Engaged, Unsettled
  <2>4. accepted < i \/ i < accepted
    BY <2>2, <2>3 DEF Profiles
  <2>5. QED BY <2>2, <2>3, <2>4, EarlierIsAbsent
<1>2. QED BY <1>1, StageInvariant, PTL DEF StageSpec, AcceptedOnce
=============================================================================
