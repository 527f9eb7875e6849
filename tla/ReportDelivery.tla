--------------------------- MODULE ReportDelivery ---------------------------
(***************************************************************************)
(* The browser's side of a run: how a report gets from the pipeline to the  *)
(* screen and into the session's storage, when the run is acknowledged (and *)
(* so erased on the server), and how a report is found again after the      *)
(* pipeline failed, the view crashed, or the tab was reloaded or closed.    *)
(*                                                                         *)
(* src/App.tsx                         runAnalyze, the effects, reset and   *)
(*                                     the recovery view: the code between  *)
(*                                     two awaits is one step, and the      *)
(*                                     effects it causes belong to it.      *)
(* src/services/analysisService.ts     checkpoint, and the two ends of      *)
(*                                     analyzeDocument.                     *)
(* src/services/checkpointRecoveryService.ts   what is made of checkpoints. *)
(* src/services/runLifecycleService.ts         the requests to api/run.js.  *)
(*                                                                         *)
(* The server's side of each run is RunContract, which RunLifecycle         *)
(* implements.  One tab is open at a time.                                  *)
(***************************************************************************)
EXTENDS Naturals, Sequences, FiniteSets

CONSTANTS
  MaxRuns,     \* bound: runs created
  MaxMishaps,  \* bound: failing or lost requests, crashes of a view, restarts
  MaxTurns,    \* bound: logouts, imports, edits, resets and returns to the start screen
  FullStorage  \* whether the session's storage may be full: a set of BOOLEANs

ASSUME DeliveryAssumption ==
  /\ MaxRuns \in Nat \ {0}
  /\ MaxMishaps \in Nat
  /\ MaxTurns \in Nat
  /\ FullStorage \subseteq BOOLEAN /\ FullStorage # {}

VARIABLES
  \* the server, by run
  state, erased, kept,
  \* the browser's storage
  key,            \* localStorage: the run that may be recovered, 0 for none
  saved,          \* sessionStorage: the last assessment
  crash,          \* sessionStorage: a crash has been noted
  full,           \* sessionStorage refuses the report
  \* the state of App
  authenticated, loading,
  result,         \* the report on the screen
  safe,           \* the report of the recovery view
  broken,         \* the error boundary has replaced the screen
  \* functions that wait for something
  pipeline,       \* runAnalyze and, inside it, analyzeDocument
  recoveries,     \* runs of the effect that looks for a recoverable run
  confirmations,  \* runs of the effect that confirms a delivery
  importing,      \* handleFileSelect reads a report
  requests,       \* requests on their way whose answer nobody waits for
  \* bookkeeping
  shown,          \* reports that have been on the screen
  last,           \* the last of them the user has not discarded
  mishaps, turns

serverVars  == <<state, erased, kept>>
storageVars == <<key, saved, crash, full>>
screenVars  == <<authenticated, loading, result, safe, broken>>
waitVars    == <<pipeline, recoveries, confirmations, importing, requests>>
seenVars    == <<shown, last>>
boundVars   == <<mishaps, turns>>
vars == <<serverVars, storageVars, screenVars, waitVars, seenVars, boundVars>>

-----------------------------------------------------------------------------
(* Types *)

Runs == 1..MaxRuns

\* The checkpoints recovery reads, and "acquisition", the first one saved.
\* The others (synthesis, fact_check, quality_gate) fill in what a partial
\* report says.
Kinds == <<"acquisition", "phase1", "phase2", "final_report">>

\* Run 0 is that of an imported report; edited says that the user changed its
\* words or had names taken out.
Reports == [run : {0} \cup Runs, complete : BOOLEAN, edited : BOOLEAN]

\* A report as it leaves the pipeline or the recovery
Unedited(run, complete) == [run |-> run, complete |-> complete, edited |-> FALSE]

\* At most one report.
Slot == {{}} \cup {{r} : r \in Reports}

States == {"none", "active", "recovery_required", "ready_for_delivery",
           "completed", "failed", "deletion_requested", "deleted", "expired"}

NoPipeline == [at |-> "none", run |-> 0, next |-> 1, recoverable |-> FALSE]

TypeOK ==
  /\ state \in [Runs -> States] /\ erased \in [Runs -> BOOLEAN]
  /\ kept \in [Runs -> SUBSET {Kinds[i] : i \in DOMAIN Kinds}]
  /\ key \in {0} \cup Runs /\ saved \in Slot
  /\ {crash, full, authenticated, loading, broken, importing} \subseteq BOOLEAN
  /\ result \in Slot /\ safe \in Slot /\ (safe = {} \/ result = {})
  /\ pipeline \in [at : {"none", "create", "work", "stop", "ready", "acknowledge"},
                   run : {0} \cup Runs, next : 1..Len(Kinds) + 1, recoverable : BOOLEAN]
  /\ loading <=> pipeline.at # "none"
  /\ recoveries \subseteq [run : Runs, at : {"get", "read", "acknowledge"}, ready : BOOLEAN]
  /\ confirmations \subseteq [run : Runs, at : {"get", "acknowledge"}]
  /\ requests \subseteq [op : {"ready", "acknowledge", "suspend", "fail", "delete"}, run : Runs]
  /\ shown \subseteq Reports /\ last \in Slot
  /\ mishaps \in 0..MaxMishaps /\ turns \in 0..MaxTurns

Init ==
  /\ state = [r \in Runs |-> "none"] /\ erased = [r \in Runs |-> FALSE]
  /\ kept = [r \in Runs |-> {}]
  /\ key = 0 /\ saved = {} /\ crash = FALSE /\ full \in FullStorage
  /\ authenticated = FALSE /\ loading = FALSE
  /\ result = {} /\ safe = {} /\ broken = FALSE
  /\ pipeline = NoPipeline /\ recoveries = {} /\ confirmations = {}
  /\ importing = FALSE /\ requests = {}
  /\ shown = {} /\ last = {} /\ mishaps = 0 /\ turns = 0

Mishap == mishaps < MaxMishaps /\ mishaps' = mishaps + 1 /\ UNCHANGED turns

Turn == turns < MaxTurns /\ turns' = turns + 1 /\ UNCHANGED mishaps

-----------------------------------------------------------------------------
(* What the server makes of a request *)

Working == {"active", "recovery_required"}
Open    == Working \cup {"ready_for_delivery"}
Ended   == States \ (Open \cup {"none"})

Accepts(op, r) ==
  CASE op = "ready"       -> state[r] = "active"
    [] op = "acknowledge" -> state[r] \in {"ready_for_delivery", "completed"}
    [] op = "suspend"     -> state[r] \in Working
    [] op = "fail"        -> state[r] \in Working \cup {"failed"}
    [] op = "delete"      -> state[r] # "none"

\* A deletion that is over as soon as it is asked for.
LeadsAtOnce(op, r) ==
  CASE op = "ready"       -> "ready_for_delivery"
    [] op = "acknowledge" -> "completed"
    [] op = "suspend"     -> "recovery_required"
    [] op = "fail"        -> "failed"
    [] op = "delete"      -> "deleted"

Leads(op, r) ==
  CASE op = "ready"       -> "ready_for_delivery"
    [] op = "acknowledge" -> "completed"
    [] op = "suspend"     -> "recovery_required"
    [] op = "fail"        -> "failed"
    [] op = "delete"      -> IF erased[r] THEN "deleted" ELSE "deletion_requested"

Serve(op, r) ==
  /\ Accepts(op, r)
  /\ state' = [state EXCEPT ![r] = Leads(op, r)]
  /\ UNCHANGED <<erased, kept>>

\* A request that is answered ...
Answered(op, r) == Serve(op, r) /\ UNCHANGED boundVars

\* ... and one that is refused, does not arrive, or whose answer is lost.
Refused(op, r) ==
  \/ ~Accepts(op, r) /\ UNCHANGED <<serverVars, boundVars>>
  \/ Mishap /\ (Serve(op, r) \/ UNCHANGED serverVars)

\* What a request nobody waits for may still do.
Arrives(q) ==
  /\ requests' = requests \ {q}
  /\ IF Accepts(q.op, q.run) THEN Serve(q.op, q.run) ELSE UNCHANGED serverVars
  /\ UNCHANGED <<storageVars, screenVars, pipeline, recoveries, confirmations, importing,
                 seenVars, boundVars>>

Expire(r) ==
  /\ state[r] \in Open
  /\ state' = [state EXCEPT ![r] = "expired"]
  /\ UNCHANGED <<erased, kept, storageVars, screenVars, waitVars, seenVars, boundVars>>

Erase(r) ==
  /\ state[r] \in Ended /\ ~erased[r]
  /\ erased' = [erased EXCEPT ![r] = TRUE]
  /\ kept' = [kept EXCEPT ![r] = {}]
  /\ state' = [state EXCEPT ![r] = IF @ = "deletion_requested" THEN "deleted" ELSE @]
  /\ UNCHANGED <<storageVars, screenVars, waitVars, seenVars, boundVars>>

-----------------------------------------------------------------------------
(* The effects of App *)

RunOf(slot) == {report.run : report \in slot} \ {0}

\* useEffect(..., [authenticated, loading, result, safeRecoveryResult]).
Recovering ==
  IF /\ <<authenticated', loading', result', safe'>> # <<authenticated, loading, result, safe>>
     /\ authenticated' /\ ~loading' /\ result' = {} /\ safe' = {} /\ key' # 0
  THEN {[run |-> key', at |-> "get", ready |-> FALSE]} ELSE {}

\* useEffect(..., [authenticated, loading, result]).
Confirming ==
  IF /\ <<authenticated', loading', result'>> # <<authenticated, loading, result>>
     /\ authenticated' /\ ~loading' /\ key' \in RunOf(result')
  THEN {[run |-> key', at |-> "get"]} ELSE {}

\* An effect that saves nothing: only runAnalyze and the recovery do.
SavedByNoEffect(stored) == stored

\* useEffect(..., [result]): every report that reaches the screen is saved,
\* which a full storage refuses in silence.
SavedByEffect(stored) ==
  IF result' # result /\ result' # {} /\ ~full THEN result' ELSE stored

\* The effects a step causes, after what the step itself did to the storage
\* and to the functions that wait.
Effects(stored, recovering, confirming) ==
  /\ recoveries' = recovering \cup Recovering
  /\ confirmations' = confirming \cup Confirming
  /\ saved' = SavedByEffect(stored)

\* setPreparedResult, and saveAssessmentToSession before it when there is one.
Show(report) ==
  /\ result' = {report} /\ safe' = {}
  /\ shown' = shown \cup {q \in {report} : q.run # 0}
  /\ last' = {report}

Stored(report) == IF full THEN saved ELSE {report}

-----------------------------------------------------------------------------
(* runAnalyze and analyzeDocument *)

\* The start screen, with no analysis going on.
AtStart == ~loading /\ ~broken /\ result = {} /\ safe = {}

Analyze ==
  /\ loading' = TRUE
  /\ pipeline' = [NoPipeline EXCEPT !.at = "create"]

\* handleAnalyze, handleEngineSimulation.
StartAnalysis ==
  /\ AtStart /\ authenticated
  /\ Analyze
  /\ UNCHANGED <<serverVars, key, crash, full, authenticated, result, safe, broken,
                 importing, requests, seenVars, boundVars>>
  /\ Effects(saved, recoveries, confirmations)

\* The analysis waited for the login.
LoginAndStart ==
  /\ AtStart /\ ~authenticated
  /\ authenticated' = TRUE
  /\ Analyze
  /\ UNCHANGED <<serverVars, key, crash, full, result, safe, broken, importing, requests,
                 seenVars, boundVars>>
  /\ Effects(saved, recoveries, confirmations)

\* The catch and finally blocks of runAnalyze.
GiveUp ==
  /\ loading' = FALSE
  /\ pipeline' = NoPipeline
  /\ UNCHANGED <<authenticated, result, safe, broken, crash, full, importing, requests, seenVars>>
  /\ Effects(saved, recoveries, confirmations)

\* createRun and onRunStarted.
CreateRun(r) ==
  /\ pipeline.at = "create"
  /\ state[r] = "none" /\ \A q \in 1..r - 1 : state[q] # "none"
  /\ state' = [state EXCEPT ![r] = "active"]
  /\ key' = r
  /\ pipeline' = [pipeline EXCEPT !.at = "work", !.run = r]
  /\ UNCHANGED <<erased, kept, saved, crash, full, screenVars, recoveries, confirmations,
                 importing, requests, seenVars, boundVars>>

\* createRun fails, or its answer is lost and nobody knows the run.
CreateFails ==
  /\ pipeline.at = "create"
  /\ Mishap
  /\ UNCHANGED key
  /\ \/ UNCHANGED serverVars
     \/ \E r \in Runs :
          /\ state[r] = "none" /\ \A q \in 1..r - 1 : state[q] # "none"
          /\ state' = [state EXCEPT ![r] = "active"]
          /\ UNCHANGED <<erased, kept>>
  /\ GiveUp

SaveReaches(r) == kept' = [kept EXCEPT ![r] = @ \cup {Kinds[pipeline.next]}]

Advance(recoverable) ==
  pipeline' = [pipeline EXCEPT
    !.next = @ + 1, !.recoverable = recoverable,
    !.at = IF pipeline.next = Len(Kinds) THEN "ready" ELSE "work"]

\* checkpoint: the pipeline goes on whether or not the save succeeds.
SaveCheckpoint ==
  LET r == pipeline.run IN
  /\ pipeline.at = "work" /\ pipeline.next <= Len(Kinds)
  /\ \/ state[r] \in Working /\ SaveReaches(r) /\ Advance(TRUE) /\ UNCHANGED boundVars
     \/ state[r] \notin Working /\ Advance(pipeline.recoverable) /\ UNCHANGED <<kept, boundVars>>
     \/ /\ Mishap
        /\ UNCHANGED kept \/ (state[r] \in Working /\ SaveReaches(r))
        /\ Advance(pipeline.recoverable)
  /\ UNCHANGED <<state, erased, storageVars, screenVars, recoveries, confirmations, importing,
                 requests, seenVars>>

\* Anything before the final checkpoint throws.
PipelineFails ==
  /\ pipeline.at = "work"
  /\ pipeline' = [pipeline EXCEPT !.at = "stop"]
  /\ UNCHANGED <<serverVars, storageVars, screenVars, recoveries, confirmations, importing,
                 requests, seenVars, boundVars>>

\* The catch block of analyzeDocument: what a failed pipeline asks for.
StopRequest == IF pipeline.recoverable THEN "suspend" ELSE "fail"

StopRun ==
  /\ pipeline.at = "stop"
  /\ \/ Answered(StopRequest, pipeline.run)
     \/ Refused(StopRequest, pipeline.run)
  /\ UNCHANGED key
  /\ GiveUp

\* readyRun; whatever its outcome the report is returned, saved and shown, and
\* acknowledgeRun is sent.
DeliverReport ==
  LET report == Unedited(pipeline.run, TRUE) IN
  /\ pipeline.at = "ready"
  /\ Answered("ready", pipeline.run) \/ Refused("ready", pipeline.run)
  /\ Show(report)
  /\ pipeline' = [pipeline EXCEPT !.at = "acknowledge"]
  /\ UNCHANGED <<key, crash, full, authenticated, loading, broken, importing, requests>>
  /\ Effects(Stored(report), recoveries, confirmations)

\* The rest of runAnalyze.
AcknowledgeRun ==
  /\ pipeline.at = "acknowledge"
  /\ \/ Answered("acknowledge", pipeline.run) /\ key' = 0
     \/ Refused("acknowledge", pipeline.run) /\ UNCHANGED key
  /\ GiveUp

-----------------------------------------------------------------------------
(* The effect that looks for a recoverable run *)

LookAtRun(j) ==
  LET r == j.run
      recoverable == \/ state[r] \in {"recovery_required", "ready_for_delivery"}
                     \/ state[r] = "completed" /\ ~erased[r] IN
  /\ j.at = "get"
  /\ IF recoverable
       THEN /\ recoveries' = (recoveries \ {j}) \cup
                 {[j EXCEPT !.at = "read", !.ready = state[r] \in {"ready_for_delivery", "completed"}]}
            /\ UNCHANGED key
       ELSE recoveries' = recoveries \ {j} /\ key' = 0
  /\ UNCHANGED <<serverVars, saved, crash, full, screenVars, pipeline, confirmations, importing,
                 requests, seenVars, boundVars>>

\* A recovery that takes the phases before the final report.
RecoveredPhases(r) ==
  IF {"phase1", "phase2"} \subseteq kept[r] THEN {Unedited(r, FALSE)}
  ELSE IF "final_report" \in kept[r] THEN {Unedited(r, TRUE)}
  ELSE {}

\* recoverCheckpointResult: the final report, or what the accepted phases allow.
Recovered(r) ==
  IF "final_report" \in kept[r] THEN {Unedited(r, TRUE)}
  ELSE IF {"phase1", "phase2"} \subseteq kept[r] THEN {Unedited(r, FALSE)}
  ELSE {}

\* Only a complete report is acknowledged.
AcknowledgesRecovered(j, report) == j.ready /\ report.complete

ReadCheckpoints(j) ==
  /\ j.at = "read"
  /\ UNCHANGED <<serverVars, key, crash, full, authenticated, loading, broken, pipeline,
                 importing, requests, boundVars>>
  /\ \/ /\ Recovered(j.run) = {}
        /\ recoveries' = recoveries \ {j}
        /\ UNCHANGED <<confirmations, saved, result, safe, seenVars>>
     \/ \E report \in Recovered(j.run) :
          /\ Show(report)
          /\ Effects(Stored(report),
                     (recoveries \ {j}) \cup
                       IF AcknowledgesRecovered(j, report) THEN {[j EXCEPT !.at = "acknowledge"]} ELSE {},
                     confirmations)

AcknowledgeRecovered(j) ==
  /\ j.at = "acknowledge"
  /\ \/ Answered("acknowledge", j.run) /\ key' = 0
     \/ Refused("acknowledge", j.run) /\ UNCHANGED key
  /\ recoveries' = recoveries \ {j}
  /\ UNCHANGED <<saved, crash, full, screenVars, pipeline, confirmations, importing, requests,
                 seenVars>>

\* getRun or a read fails: the catch block.
RecoveryFails(j) ==
  /\ j.at \in {"get", "read"}
  /\ Mishap
  /\ recoveries' = recoveries \ {j}
  /\ UNCHANGED <<serverVars, storageVars, screenVars, pipeline, confirmations, importing,
                 requests, seenVars>>

-----------------------------------------------------------------------------
(* The effect that confirms the delivery of the report on the screen *)

LookAtDelivery(j) ==
  LET r == j.run
      due == \/ state[r] = "ready_for_delivery"
             \/ state[r] = "completed" /\ ~erased[r] IN
  /\ j.at = "get"
  /\ confirmations' = (confirmations \ {j}) \cup
       IF due THEN {[j EXCEPT !.at = "acknowledge"]} ELSE {}
  /\ key' = IF due \/ state[r] = "recovery_required" THEN key ELSE 0
  /\ UNCHANGED <<serverVars, saved, crash, full, screenVars, pipeline, recoveries, importing,
                 requests, seenVars, boundVars>>

ConfirmDelivery(j) ==
  /\ j.at = "acknowledge"
  /\ \/ Answered("acknowledge", j.run) /\ key' = 0
     \/ Refused("acknowledge", j.run) /\ UNCHANGED key
  /\ confirmations' = confirmations \ {j}
  /\ UNCHANGED <<saved, crash, full, screenVars, pipeline, recoveries, importing, requests,
                 seenVars>>

ConfirmationFails(j) ==
  /\ j.at = "get"
  /\ Mishap
  /\ confirmations' = confirmations \ {j}
  /\ UNCHANGED <<serverVars, storageVars, screenVars, pipeline, recoveries, importing,
                 requests, seenVars>>

-----------------------------------------------------------------------------
(* The user *)

\* checkSession, the login dialog and the logout button.
SetAuthenticated(yes) ==
  /\ IF yes THEN UNCHANGED boundVars ELSE Turn
  /\ authenticated # yes /\ ~broken
  /\ authenticated' = yes
  /\ UNCHANGED <<serverVars, key, crash, full, loading, result, safe, broken, pipeline,
                 importing, requests, seenVars>>
  /\ Effects(saved, recoveries, confirmations)

\* handleFileSelect with a report: the file is read ...
ImportReport ==
  /\ Turn
  /\ AtStart /\ ~importing
  /\ importing' = TRUE
  /\ UNCHANGED <<serverVars, storageVars, screenVars, pipeline, recoveries, confirmations,
                 requests, seenVars>>

\* ... and shown, or refused by parseDiagnosticResultJson.
ImportRead ==
  /\ importing
  /\ importing' = FALSE
  /\ \/ Show(Unedited(0, TRUE))
     \/ UNCHANGED <<result, safe, seenVars>>
  /\ UNCHANGED <<serverVars, key, crash, full, authenticated, loading, broken, pipeline,
                 requests, boundVars>>
  /\ Effects(saved, recoveries, confirmations)

\* updateCurrentResult, applyPersonRedaction, applyOrganizationRedaction: the
\* report on the screen is replaced, which the effects take for a new one.
EditReport ==
  /\ Turn
  /\ ~broken /\ \E report \in result : ~report.edited
  /\ result' = {[report EXCEPT !.edited = TRUE] : report \in result}
  /\ last' = result'
  /\ UNCHANGED <<serverVars, key, crash, full, authenticated, loading, safe, broken, pipeline,
                 importing, requests, shown>>
  /\ Effects(saved, recoveries, confirmations)

\* The run whose data a reset asks the server to delete.
ResetRun ==
  IF RunOf(result) # {} THEN RunOf(result)
  ELSE IF RunOf(safe) # {} THEN RunOf(safe) ELSE RunOf(saved)

\* reset, clearSavedAssessmentAndRestart and the error boundary's clear.
Reset ==
  /\ Turn
  /\ ~loading \/ broken
  /\ requests' = requests \cup {[op |-> "delete", run |-> r] : r \in ResetRun}
  /\ result' = {} /\ safe' = {} /\ broken' = FALSE
  /\ crash' = FALSE /\ key' = 0 /\ last' = {}
  /\ UNCHANGED <<serverVars, full, authenticated, loading, pipeline, importing, shown>>
  /\ Effects({}, recoveries, confirmations)

\* clearLastCrash
ForgetCrash == crash' = FALSE

\* clearSavedAssessment
ClearStorage == saved' = {} /\ ForgetCrash

\* "Clear saved assessment" in the notice.
ClearSaved ==
  /\ Turn
  /\ ~broken /\ safe = {}
  /\ ClearStorage /\ last' = {}
  /\ UNCHANGED <<serverVars, key, full, screenVars, waitVars, shown>>

\* saveLastCrash: a storage that refuses reports may refuse the note of a crash.
NoteCrash == crash' = TRUE \/ (full /\ UNCHANGED crash)

\* A component throws while it renders: recordUiCrash.
ViewCrashes ==
  /\ result # {} /\ ~broken
  /\ Mishap
  /\ broken' = TRUE /\ NoteCrash
  /\ UNCHANGED <<serverVars, key, saved, full, authenticated, loading, result, safe, waitVars,
                 seenVars>>

\* restoreSavedAssessment needs a saved assessment.
MayRestore == broken /\ saved # {}

RestoreSaved ==
  /\ MayRestore
  /\ safe' = saved /\ result' = {} /\ broken' = FALSE
  /\ UNCHANGED <<serverVars, key, crash, full, authenticated, loading, pipeline, importing,
                 requests, seenVars, boundVars>>
  /\ Effects(saved, recoveries, confirmations)

OpenRecovered ==
  /\ safe # {}
  /\ result' = safe /\ safe' = {} /\ ForgetCrash
  /\ UNCHANGED <<serverVars, key, full, authenticated, loading, broken, pipeline, importing,
                 requests, seenVars, boundVars>>
  /\ Effects(saved, recoveries, confirmations)

\* "Return to start screen": the report stays in the session's storage.
ReturnToStart ==
  /\ Turn
  /\ safe # {}
  /\ safe' = {} /\ ForgetCrash
  /\ UNCHANGED <<serverVars, key, full, authenticated, loading, result, broken, pipeline,
                 importing, requests, seenVars>>
  /\ Effects(saved, recoveries, confirmations)

\* What the requests a page is waiting for may still do when it goes away.
Abandoned ==
  {[op |-> IF at = "stop" THEN StopRequest ELSE at, run |-> pipeline.run] :
     at \in {pipeline.at} \cap {"ready", "acknowledge", "stop"}} \cup
  {[op |-> "acknowledge", run |-> j.run] :
     j \in {i \in recoveries \cup confirmations : i.at = "acknowledge"}}

\* The page is loaded again, in the same tab or, without the session's
\* storage, in a new one; the effect that runs once shows what is saved.
Restart(session) ==
  LET stored == IF session THEN saved ELSE {} IN
  /\ Mishap
  /\ requests' = requests \cup Abandoned
  /\ pipeline' = NoPipeline /\ recoveries' = {} /\ confirmations' = {} /\ importing' = FALSE
  /\ saved' = stored /\ crash' = (crash /\ session)
  /\ authenticated' = FALSE /\ loading' = FALSE /\ broken' = FALSE
  /\ IF crash' THEN safe' = stored /\ result' = {} ELSE result' = stored /\ safe' = {}
  /\ last' = IF session /\ ~full THEN last ELSE {}
  /\ UNCHANGED <<serverVars, key, full, shown>>

-----------------------------------------------------------------------------
PipelineStep ==
  \/ StartAnalysis \/ LoginAndStart \/ CreateFails \/ SaveCheckpoint \/ PipelineFails
  \/ StopRun \/ DeliverReport \/ AcknowledgeRun
  \/ \E r \in Runs : CreateRun(r)

RecoveryStep ==
  \E j \in recoveries :
    LookAtRun(j) \/ ReadCheckpoints(j) \/ AcknowledgeRecovered(j) \/ RecoveryFails(j)

ConfirmationStep ==
  \E j \in confirmations : LookAtDelivery(j) \/ ConfirmDelivery(j) \/ ConfirmationFails(j)

UserStep ==
  \/ \E yes \in BOOLEAN : SetAuthenticated(yes)
  \/ ImportReport \/ ImportRead \/ EditReport \/ Reset \/ ClearSaved
  \/ ViewCrashes \/ RestoreSaved \/ OpenRecovered \/ ReturnToStart
  \/ \E session \in BOOLEAN : Restart(session)

ServerStep ==
  \/ \E q \in requests : Arrives(q)
  \/ \E r \in Runs : Expire(r) \/ Erase(r)

Next == PipelineStep \/ RecoveryStep \/ ConfirmationStep \/ UserStep \/ ServerStep

Spec == Init /\ [][Next]_vars

-----------------------------------------------------------------------------
(* What the delivery promises *)

RunOnServer(r) == INSTANCE RunContract WITH
  Items <- {Kinds[i] : i \in DOMAIN Kinds},
  state <- state[r], erased <- erased[r], late <- FALSE, kept <- kept[r]

\* Every run of the browser is one the server's contract allows: the two
\* modules meet at RunContract (api/run.js, runLifecycleService.ts).
RunsKeepContract ==
  /\ \A r \in Runs : RunOnServer(r)!Init
  /\ [][\A r \in Runs : RunOnServer(r)!Next \/ UNCHANGED RunOnServer(r)!vars]_serverVars

\* A run is acknowledged, which erases it, only after a report of it has been
\* on the screen: the complete one, unless no complete one could be read back
\* (App.tsx: the recovery, the confirmation and the pipeline acknowledge on
\* their own, and a request may arrive after its page has gone).
AcknowledgedShown ==
  [][\A r \in Runs :
       state[r] = "ready_for_delivery" /\ state'[r] = "completed" =>
         \/ Unedited(r, TRUE) \in shown
         \/ /\ Unedited(r, FALSE) \in shown
            /\ "final_report" \notin kept[r]]_vars

\* The last report on the screen that the user has not cleared can be opened
\* again, with the user's changes, through crashes of the view, reloads, returns
\* to the start screen and the next analysis, as long as the session's storage
\* accepts it (README.md: "stored in browser `sessionStorage` for crash recovery
\* until the tab/session data is cleared").
LastReportKept ==
  ~full => last \subseteq result \cup safe \cup saved
=============================================================================
