------------------------- MODULE CriterionEvidence -------------------------
(***************************************************************************)
(* One criterion of one domain, from the scanner's first answer to its     *)
(* place in the maturity model: scan, evidence check, adjudication, up to  *)
(* two targeted rescans that are checked again, the merge of the verdict   *)
(* into the audit log, the reconciliation of quotes with the source        *)
(* chunks, the pre-synthesis gate and the resolution of the score.         *)
(*                                                                         *)
(* The models' answers are any values that pass the code's own checks of   *)
(* them.  The other criteria of the domain appear by what they share with  *)
(* this one: an adjudication may be unresolved, or a rescan be asked for,  *)
(* because of another criterion.                                           *)
(***************************************************************************)
EXTENDS Integers

CONSTANTS
  None,       \* no value: undefined or null
  Passes      \* rescans of a domain: 2 in the code

Streams  == {"maturity", "antipattern"}
Statuses == {"supported", "weak", "unsupported", "missing"}
Absences == {"confirmed_present", "partially_present", "tested_absent", "unknown_absent"}
Counts   == 0 .. 3

Lower(a, b)  == IF a < b THEN a ELSE b
Higher(a, b) == IF a > b THEN a ELSE b

-----------------------------------------------------------------------------
(* What a model may answer *)

\* A scanner's item: its count, whether the criterion is assessed, how the text
\* search finds its quotes in the packet (support), and whether some of them
\* are bound to the chunk they cite (bound) or not (stray).  The two searches
\* are independent: a packet shows the escaped text of its chunks, a quote is
\* bound to the text as it was read.
ScanItem == [count : Counts, assessed : BOOLEAN, support : Statuses,
             bound : BOOLEAN, stray : BOOLEAN]

\* validateBatchOutput: an assessed item has a quote, an item that is not has
\* none and a count of zero.  verifyTextEvidenceSupport calls the latter weak.
ValidScanItem(item) ==
  /\ item.assessed <=> item.bound \/ item.stray
  /\ ~item.assessed => item.count = 0 /\ item.support = "weak"

Scans == {item \in ScanItem : ValidScanItem(item)}

\* A verifier's item.  Its assessment_status and quote_supported only take part
\* in the check of the item itself, which some values of them pass.
VerifierItem == [status : Statuses, verified : Counts, rescan : BOOLEAN,
                 absence : Absences \cup {None}]

\* isValidEvidenceVerifierItem
ValidVerifierItem(raw, stream, count) ==
  /\ raw.verified <= count
  /\ raw.absence = None <=> stream = "maturity"
  /\ raw.absence = "confirmed_present" => raw.verified > 0
  /\ raw.absence = "tested_absent" => count = 0 /\ raw.status = "supported"
  /\ raw.absence = "unknown_absent" => raw.verified = 0

-----------------------------------------------------------------------------
(* What the pipeline makes of it *)

\* Items of the evidence check, of the audit log, and adjustments
Verdicts == [status : Statuses, assessed : BOOLEAN, original : Counts, verified : Counts,
             rescan : BOOLEAN, absence : Absences \cup {None},
             unresolved : {"no", "verification", "adjudication"}]

Entries == [count : Counts, verified : Counts \cup {None}, assessed : BOOLEAN,
            supported : Counts, bound : BOOLEAN, stray : BOOLEAN, status : Statuses,
            original : Counts, absence : Absences \cup {None}, unresolved : BOOLEAN]

Adjustments == [original : Counts, verified : Counts]

ASSUME EvidenceAssumption ==
  /\ Passes \in Nat
  /\ None \notin Counts /\ None \notin Absences
  /\ None \notin Scans /\ None \notin Verdicts
  /\ None \notin Entries /\ None \notin Adjustments

-----------------------------------------------------------------------------
(* The evidence check *)

\* resolveAntiPatternAbsenceStatus, for an item whose status is never
\* supported when its whole count was refused (see Status below)
Absence(verified, original, explicit, status) ==
  IF verified = 3 THEN "confirmed_present"
  ELSE IF verified > 0 THEN "partially_present"
  ELSE IF original = 0 THEN
         IF explicit = "tested_absent" /\ status = "supported"
         THEN "tested_absent" ELSE "unknown_absent"
  ELSE IF \/ status = "weak"
          \/ /\ explicit \in {"confirmed_present", "partially_present"}
             /\ status \notin {"unsupported", "missing"}
       THEN "partially_present" ELSE "unknown_absent"

\* A weak quote costs one, below zero too.
LocalCapUnclamped(scan) ==
  CASE scan.support = "supported" -> scan.count
    [] scan.support = "weak"      -> scan.count - 1
    [] OTHER                      -> 0

\* The most that the text search lets an item count
LocalCap(scan) ==
  CASE scan.support = "supported" -> scan.count
    [] scan.support = "weak"      -> Higher(0, scan.count - 1)
    [] OTHER                      -> 0

\* The status of a verdict: the verifier's, lowered by the text search and
\* by a count that was not confirmed
Status(scan, raw, verified) ==
  LET asked == IF scan.count = 0 /\ raw.status = "missing" THEN "supported" ELSE raw.status
      found == IF /\ scan.count > 0 /\ scan.support # "supported"
                  /\ asked = "supported" \/ scan.support \in {"missing", "unsupported"}
               THEN scan.support ELSE asked
  IN IF scan.count > verified /\ found = "supported"
     THEN IF verified = 0 THEN "unsupported" ELSE "weak"
     ELSE found

\* An item of the evidence check: the verdict on one criterion
Verdict(stream, scan, raw) ==
  LET confirmed == Lower(raw.verified, LocalCap(scan))
      status    == Status(scan, raw, confirmed)
      absence   == IF stream = "antipattern"
                   THEN Absence(confirmed, scan.count, raw.absence, status) ELSE None
      verified  == IF absence = "partially_present" /\ scan.count > 0 /\ confirmed = 0
                   THEN 1 ELSE confirmed
  IN [status |-> status,
      assessed |-> scan.assessed /\ scan.support = "supported",
      original |-> scan.count,
      verified |-> verified,
      rescan |-> raw.rescan \/ scan.count > verified \/ ~scan.assessed,
      absence |-> absence,
      unresolved |-> "no"]

\* The verdict when the verifier gave no valid answer twice
Unverified(stream, scan) ==
  [status |-> "missing", assessed |-> FALSE, original |-> scan.count, verified |-> 0,
   rescan |-> FALSE, absence |-> IF stream = "antipattern" THEN "unknown_absent" ELSE None,
   unresolved |-> "verification"]

NeedsAdjudication(verdict) ==
  /\ verdict.absence \notin {None, "partially_present"}
  /\ verdict.original > 0
  /\ verdict.verified = 0
  /\ verdict.status \in {"weak", "unsupported", "missing"}

\* The adjudicator finds a weak presence, finds nothing, or does not decide
Adjudicated(verdict, decision) ==
  CASE decision = "partially_present" ->
         [verdict EXCEPT !.status = "weak", !.verified = Higher(1, verdict.verified),
                         !.absence = "partially_present",
                         !.rescan = verdict.rescan \/ verdict.original > 1]
    [] decision = "unknown_absent" ->
         [verdict EXCEPT !.verified = 0, !.absence = "unknown_absent"]
    [] decision = None ->
         [verdict EXCEPT !.status = "missing", !.verified = 0, !.absence = "unknown_absent",
                         !.rescan = FALSE, !.unresolved = "adjudication"]

\* evidenceItemsNeedingRescan.  An item that was not verified has no
\* assessment_status.
NeedsRescan(verdict) ==
  /\ verdict.status = "weak" \/ (~verdict.assessed /\ verdict.unresolved # "verification")
  /\ verdict.rescan

-----------------------------------------------------------------------------
(* The audit log *)

\* applyEvidenceCheckToBatch: the verdict is merged into the scanner's item.  An
\* item that was not verified keeps the scanner's count for the record.
Applied(stream, scan, verdict) ==
  LET verified == Lower(verdict.original, verdict.verified)
      absence  == IF stream = "antipattern"
                  THEN Absence(verified, verdict.original, verdict.absence, verdict.status)
                  ELSE None
      count    == IF absence = "partially_present" /\ verdict.original > 0 /\ verified = 0
                  THEN 1 ELSE verified
      quoted   == verdict.assessed \/ absence = "tested_absent"
  IN IF verdict.unresolved = "verification"
     THEN [count |-> scan.count, verified |-> None, assessed |-> scan.assessed,
           supported |-> scan.count, bound |-> scan.bound, stray |-> scan.stray,
           status |-> verdict.status, original |-> verdict.original,
           absence |-> None, unresolved |-> TRUE]
     ELSE [count |-> count, verified |-> count, assessed |-> verdict.assessed,
           supported |-> IF verdict.assessed THEN Lower(scan.count, count) ELSE 0,
           bound |-> quoted /\ scan.bound, stray |-> quoted /\ scan.stray,
           status |-> verdict.status, original |-> verdict.original,
           absence |-> absence, unresolved |-> FALSE]

\* Only what the last check lowered.
LastAdjustment(entry, verdict, before) ==
  IF entry.unresolved \/ entry.count < verdict.original \/ verdict.status # "supported"
  THEN [original |-> IF before # None THEN before ELSE verdict.original,
        verified |-> IF entry.unresolved THEN 0 ELSE entry.count]
  ELSE None

\* The adjustment that goes with it, or none.  A rescanned item is compared with
\* the count the scanner gave before its first rescan.
Adjustment(entry, verdict, before) ==
  IF \/ entry.unresolved
     \/ entry.count < verdict.original
     \/ verdict.status # "supported"
     \/ before # None
  THEN [original |-> IF before # None THEN before ELSE verdict.original,
        verified |-> IF entry.unresolved THEN 0 ELSE entry.count]
  ELSE None

-----------------------------------------------------------------------------
(* Reconciliation with the source chunks *)

\* An entry whose quotes are all bound, and that has one if it counts, is
\* left alone
NothingToReconcile(entry) == ~entry.stray /\ (entry.count = 0 \/ entry.bound)

\* What is left of an entry when no quote of it is bound to its chunk
Unbound(stream, entry, original) ==
  [entry EXCEPT !.count = 0, !.stray = FALSE, !.assessed = FALSE, !.supported = 0,
                !.status = "unsupported", !.verified = IF entry.count > 0 THEN 0 ELSE @,
                !.original = original,
                !.absence = IF stream = "antipattern" THEN "unknown_absent" ELSE @]

\* Reconciliation drops the quotes of an entry that are not bound; an entry that
\* was verified and has none left loses its count and its assessment
Reconciled(stream, entry, verdict) ==
  CASE NothingToReconcile(entry) -> entry
    [] ~NothingToReconcile(entry) /\ (entry.unresolved \/ entry.bound) ->
         [entry EXCEPT !.stray = FALSE]
    [] OTHER ->
         Unbound(stream, entry,
                 IF entry.count = 0 THEN entry.original
                 ELSE Higher(entry.count, Higher(verdict.original, entry.original)))

LosesItsQuotes(entry) ==
  ~NothingToReconcile(entry) /\ ~entry.unresolved /\ ~entry.bound

\* The verdict on such an entry follows.  Only the branch for a count of zero
\* writes its assessment_status.
ReconciledVerdict(stream, entry, verdict) ==
  IF LosesItsQuotes(entry)
  THEN [verdict EXCEPT !.status = "unsupported", !.verified = 0, !.rescan = FALSE,
                       !.assessed = IF entry.count = 0 THEN FALSE ELSE @,
                       !.absence = IF stream = "antipattern" THEN "unknown_absent" ELSE @]
  ELSE verdict

ReconciledAdjustment(entry, verdict, adjustment) ==
  IF LosesItsQuotes(entry) /\ entry.count > 0
  THEN [original |-> Higher(entry.count, Higher(verdict.original, entry.original)),
        verified |-> 0]
  ELSE adjustment

-----------------------------------------------------------------------------
(* The gate before synthesis, and the score *)

\* The answers to the three questions agree with the count
AnswersAgree(entry) ==
  IF entry.assessed THEN entry.supported = entry.count
                    ELSE entry.count = 0 /\ entry.supported = 0

\* A verified entry that counts or is assessed has a quote, and no quote is stray
ProvenanceValid(entry) ==
  /\ ~entry.unresolved /\ (entry.count > 0 \/ entry.assessed) => entry.bound \/ entry.stray
  /\ ~entry.stray

\* What was not resolved takes no credit
UnresolvedSafe(entry, verdict) ==
  CASE verdict.unresolved = "verification" ->
         /\ verdict.verified = 0
         /\ verdict.status = "missing"
         /\ entry.unresolved
         /\ entry.verified = None
         /\ entry.count = verdict.original
    [] verdict.unresolved = "adjudication" ->
         /\ verdict.verified = 0
         /\ verdict.status \in {"missing", "unsupported"}
         /\ entry.count = 0
    [] OTHER -> TRUE

\* validatePreSynthesisIntegrity, as far as it looks at one criterion
GateAccepts(entry, verdict) ==
  AnswersAgree(entry) /\ ProvenanceValid(entry) /\ UnresolvedSafe(entry, verdict)

\* What the words of an entry say of a presence that was not counted
Words == {"presence", "not assessed", "neither"}

\* inferAntiPatternAbsenceStatus
InferredAbsence(entry, words) ==
  CASE entry.count = 3 -> "confirmed_present"
    [] entry.count \in {1, 2} -> "partially_present"
    [] entry.count = 0 /\ entry.absence \in {"confirmed_present", "partially_present"} ->
         entry.absence
    [] OTHER ->
         IF words = "presence" THEN "partially_present"
         ELSE IF /\ words = "neither"
                 /\ entry.absence = "tested_absent"
                 /\ entry.status = "supported"
         THEN "tested_absent" ELSE "unknown_absent"

\* Silence is scored like an assessed zero.
NotRefuted(entry) == entry.status \notin {"unsupported", "missing"}

\* The evidence a score may rest on
Governed(entry) ==
  /\ entry.assessed
  /\ entry.bound \/ entry.stray
  /\ entry.status \notin {"unsupported", "missing"}

\* resolveCapability and resolveAntipattern: the reason of the resolution, and the
\* count it scores (None if the criterion stays NA)
Resolution(stream, entry, words) ==
  LET absence == InferredAbsence(entry, words)
  IN CASE entry.unresolved -> [reason |-> "VERIFICATION_UNRESOLVED", score |-> None]
       [] stream = "maturity" /\ ~entry.unresolved ->
            IF Governed(entry)
            THEN [reason |-> "PROVENANCE_BOUND_EVIDENCE", score |-> entry.count]
            ELSE [reason |-> "NO_GOVERNED_EVIDENCE", score |-> None]
       [] OTHER ->
            IF /\ absence = "tested_absent"
               /\ entry.count = 0
               /\ entry.assessed
               /\ entry.status = "supported"
            THEN [reason |-> "GOVERNED_TESTED_ABSENCE", score |-> 0]
            ELSE IF \/ absence = "confirmed_present" /\ entry.count # 3
                    \/ absence = "partially_present" /\ entry.count \notin {1, 2}
            THEN [reason |-> "INCONSISTENT_DISPOSITION", score |-> None]
            ELSE IF absence = "unknown_absent" \/ ~Governed(entry)
            THEN [reason |-> "NO_GOVERNED_EVIDENCE", score |-> None]
            ELSE [reason |-> "PROVENANCE_BOUND_EVIDENCE", score |-> entry.count]

-----------------------------------------------------------------------------
(* The state *)

VARIABLES
  stream,      \* the stream of the criterion
  pc,          \* what the domain's batch does next
  pass,        \* rescans begun
  scan,        \* the criterion's item in batchResult
  verdict,     \* its item in evidenceCheck
  failed,      \* evidenceCheck.failed
  newScan,     \* the item that is being checked
  newVerdict,  \* its verdict before the adjudication
  before,      \* preRescanCounts: the count before the first rescan
  entry,       \* its item in phase_1_audit_logs
  adjustment   \* its adjustment

vars == <<stream, pc, pass, scan, verdict, failed, newScan, newVerdict, before, entry,
          adjustment>>

Init ==
  /\ stream \in Streams
  /\ pc = "scan"
  /\ pass = 0
  /\ scan = None /\ verdict = None /\ failed = FALSE
  /\ newScan = None /\ newVerdict = None /\ before = None
  /\ entry = None /\ adjustment = None

-----------------------------------------------------------------------------
(* The steps *)

\* runSingleBatch: the scanner's answer
Scan ==
  /\ pc = "scan"
  /\ \E item \in Scans : newScan' = item
  /\ pc' = "verify"
  /\ UNCHANGED <<stream, pass, scan, verdict, failed, newVerdict, before, entry, adjustment>>

\* runEvidenceCheck: the verifier's answer
Verify ==
  /\ pc = "verify"
  /\ \E raw \in VerifierItem :
       /\ ValidVerifierItem(raw, stream, newScan.count)
       /\ newVerdict' = Verdict(stream, newScan, raw)
  /\ pc' = "adjudicate"
  /\ UNCHANGED <<stream, pass, scan, verdict, failed, newScan, before, entry, adjustment>>

\* The last check counts, failed or not.
AdoptAny(checked, fails) ==
  /\ scan' = newScan
  /\ verdict' = checked
  /\ failed' = fails
  /\ before' = IF pass > 0 /\ NeedsRescan(verdict) /\ before = None
               THEN verdict.original ELSE before
  /\ pc' = "loop"

\* The result of a check takes the place of the one before, unless it failed and
\* there is one.  targeted says whether this criterion was rescanned.
Adopt(checked, fails) ==
  IF pass > 0 /\ fails
  THEN /\ pc' = "apply"
       /\ UNCHANGED <<scan, verdict, failed, before>>
  ELSE /\ scan' = newScan
       /\ verdict' = checked
       /\ failed' = fails
       /\ before' = IF pass > 0 /\ NeedsRescan(verdict) /\ before = None
                    THEN verdict.original ELSE before
       /\ pc' = "loop"

\* The second attempt of runEvidenceCheck failed as well
VerifyFails ==
  /\ pc = "verify"
  /\ Adopt(Unverified(stream, newScan), TRUE)
  /\ newScan' = None
  /\ UNCHANGED <<stream, pass, newVerdict, entry, adjustment>>

\* applyAntiPatternAdjudication.  A call that fails, or leaves out a criterion,
\* leaves it undecided; the check has failed if any criterion is undecided.
Adjudicate ==
  /\ pc = "adjudicate"
  /\ \E decision \in {"partially_present", "unknown_absent", None}, fails \in BOOLEAN :
       /\ NeedsAdjudication(newVerdict) /\ decision = None => fails
       /\ Adopt(IF NeedsAdjudication(newVerdict) THEN Adjudicated(newVerdict, decision)
                ELSE newVerdict, fails)
  /\ newScan' = None
  /\ newVerdict' = None
  /\ UNCHANGED <<stream, pass, entry, adjustment>>

\* A pass that is not counted.
ExpandUncounted ==
  /\ pc = "loop"
  /\ pass < Passes
  /\ ~failed
  /\ pc' = "rescan"
  /\ UNCHANGED <<stream, pass, scan, verdict, failed, newScan, newVerdict, before, entry,
                 adjustment>>

\* expandWeakEvidence found new chunks for a weak criterion of the domain
Expand ==
  /\ pc = "loop"
  /\ pass < Passes
  /\ ~failed
  /\ pass' = pass + 1
  /\ pc' = "rescan"
  /\ UNCHANGED <<stream, scan, verdict, failed, newScan, newVerdict, before, entry, adjustment>>

\* runTargetedRescan: a criterion that asks for it gets a new item
Rescan ==
  /\ pc = "rescan"
  /\ IF NeedsRescan(verdict) THEN \E item \in Scans : newScan' = item
                             ELSE newScan' = scan
  /\ pc' = "verify"
  /\ UNCHANGED <<stream, pass, scan, verdict, failed, newVerdict, before, entry, adjustment>>

\* Both attempts of the rescan failed
RescanFails ==
  /\ pc = "rescan"
  /\ pc' = "apply"
  /\ UNCHANGED <<stream, pass, scan, verdict, failed, newScan, newVerdict, before, entry,
                 adjustment>>

\* The passes are over: none is left, the check has failed, no criterion asks
\* for a rescan or no new chunk was found
LeaveLoop ==
  /\ pc = "loop"
  /\ pc' = "apply"
  /\ UNCHANGED <<stream, pass, scan, verdict, failed, newScan, newVerdict, before, entry,
                 adjustment>>

\* The batch's result goes to the aggregated logs
Apply ==
  /\ pc = "apply"
  /\ entry' = Applied(stream, scan, verdict)
  /\ adjustment' = Adjustment(entry', verdict, before)
  /\ pc' = "reconcile"
  /\ UNCHANGED <<stream, pass, scan, verdict, failed, newScan, newVerdict, before>>

\* reconcileEvidenceProvenance, after all batches
Reconcile ==
  /\ pc = "reconcile"
  /\ entry' = Reconciled(stream, entry, verdict)
  /\ verdict' = ReconciledVerdict(stream, entry, verdict)
  /\ adjustment' = ReconciledAdjustment(entry, verdict, adjustment)
  /\ pc' = "gate"
  /\ UNCHANGED <<stream, pass, scan, failed, newScan, newVerdict, before>>

Next ==
  \/ Scan \/ Verify \/ VerifyFails \/ Adjudicate
  \/ Expand \/ Rescan \/ RescanFails \/ LeaveLoop
  \/ Apply \/ Reconcile

Spec == Init /\ [][Next]_vars

-----------------------------------------------------------------------------
(* Properties *)

\* Types
TypeOK ==
  /\ stream \in Streams
  /\ pc \in {"scan", "verify", "adjudicate", "loop", "rescan", "apply", "reconcile", "gate"}
  /\ pass \in 0 .. Passes
  /\ scan \in Scans \cup {None}
  /\ verdict \in Verdicts \cup {None}
  /\ failed \in BOOLEAN
  /\ newScan \in Scans \cup {None}
  /\ newVerdict \in Verdicts \cup {None}
  /\ before \in Counts \cup {None}
  /\ entry \in Entries \cup {None}
  /\ adjustment \in Adjustments \cup {None}

\* However the scanner, the verifier and the adjudicator answer, and whatever
\* fails on the way, a criterion that went through evidence check, merge and
\* reconciliation never makes validatePreSynthesisIntegrity refuse the run: the
\* gate's rules about counts, answers, quotes and unresolved verdicts are what
\* those three steps establish together.
GateHolds == pc = "gate" => GateAccepts(entry, verdict)

\* A criterion gets a score in the maturity model only from a scanner item that
\* was assessed with a quote found in the packet and bound to its chunk, never
\* above the scanner's count, and never from an unresolved verdict.  Full
\* anti-pattern control takes a verified tested absence, not silence.
ScoreEarned ==
  pc = "gate" =>
    \A words \in Words :
      LET score == Resolution(stream, entry, words).score
      IN score # None =>
           /\ verdict.unresolved = "no"
           /\ scan.assessed /\ scan.support = "supported" /\ scan.bound
           /\ score <= scan.count
           /\ score = 0 /\ stream = "antipattern" =>
                /\ scan.count = 0
                /\ verdict.absence = "tested_absent" /\ verdict.status = "supported"

\* Every score below the scanner's first one is listed as an adjustment, with
\* the count that the log has in the end: neither a rescan nor the removal of
\* quotes lowers a score silently.
DowngradeRecorded ==
  pc = "gate" /\ entry.count < (IF before = None THEN scan.count ELSE before) =>
    adjustment # None /\ adjustment.verified = entry.count

\* The exported evidence check agrees with the reconciled log about the status,
\* the count and the absence of a criterion that was verified.
ExportFollows ==
  pc = "gate" /\ ~entry.unresolved =>
    /\ verdict.status = entry.status
    /\ verdict.verified = entry.count
    /\ verdict.absence = entry.absence

\* What is kept of the check beside the log, its adjustments and the check that
\* is exported, tells what the log tells.
RecordFollows == DowngradeRecorded /\ ExportFollows

\* A rescan never takes away a verification: once the check of the domain has
\* succeeded, a later check that fails does not take its place.
CheckStays == [][verdict # None /\ ~failed => ~failed']_vars
=============================================================================
