-------------------------- MODULE AssessmentProofs --------------------------
(***************************************************************************)
(* Theorems about CriterionEvidence for every number of rescans (the       *)
(* types, that the gate before synthesis never refuses what went through   *)
(* check, merge and reconciliation, that a score is earned, that a         *)
(* downgrade is recorded, and that the exported check follows the log) and *)
(* about Assessment, which continues it, for every registry and all that   *)
(* the other criteria may be: that these hold there, that the services'    *)
(* answers nest, that what was not verified is not acted on, and that a    *)
(* criterion that did one step better harms no judgement.                  *)
(***************************************************************************)
EXTENDS Assessment, LoopsAndSums

-----------------------------------------------------------------------------
(* What a verdict says of its scanner item *)

\* A verdict on an item: it never exceeds the item's count, it is assessed as
\* the item is, it owns up to a count it did not confirm, an undecided one
\* takes no credit, and the merge finds its absence status as it is.
Fits(str, item, v) ==
  /\ v \in Verdicts
  /\ v.original = item.count
  /\ v.verified <= item.count
  /\ v.verified < item.count => v.status # "supported"
  /\ v.unresolved # "verification" =>
       (v.assessed <=> item.assessed /\ item.support = "supported")
  /\ v.unresolved # "no" => v.verified = 0 /\ v.status = "missing"
  /\ str = "maturity" => v.absence = None
  /\ str = "antipattern" =>
       /\ v.absence # None
       /\ v.unresolved # "verification" =>
            v.absence = Absence(v.verified, v.original, v.absence, v.status)
       /\ v.absence = "partially_present" => v.verified > 0

\* The verifier's item makes such a verdict.
LEMMA VerdictFits ==
  ASSUME None \notin Absences,
         NEW str \in Streams, NEW item \in Scans, NEW raw \in VerifierItem,
         ValidVerifierItem(raw, str, item.count)
  PROVE  Fits(str, item, Verdict(str, item, raw))
<1> DEFINE confirmed == Lower(raw.verified, LocalCap(item))
           status == Status(item, raw, confirmed)
           assessed == item.assessed /\ item.support = "supported"
<1>1. item \in ScanItem /\ ValidScanItem(item) BY DEF Scans
<1>2. LocalCap(item) \in Counts /\ LocalCap(item) <= item.count
  BY <1>1 DEF LocalCap, ScanItem, Statuses, Counts, Higher
<1>3. confirmed \in Counts /\ confirmed <= item.count
  BY <1>1, <1>2 DEF Lower, VerifierItem, ScanItem, Counts
<1>4. status \in Statuses
  BY <1>1 DEF Status, VerifierItem, ScanItem, Statuses
<1>5. confirmed < item.count => status # "supported"
  BY <1>1, <1>3 DEF Status, Counts, ScanItem
<1>9. assessed \in BOOLEAN /\ (assessed <=> item.assessed /\ item.support = "supported")
  OBVIOUS
<1> HIDE DEF confirmed, status, assessed
<1>6. CASE str = "maturity"
  <2>1. Verdict(str, item, raw) =
          [status |-> status, assessed |-> assessed,
           original |-> item.count, verified |-> confirmed,
           rescan |-> raw.rescan \/ item.count > confirmed \/ ~item.assessed,
           absence |-> None, unresolved |-> "no"]
    BY <1>6 DEF Verdict, confirmed, status, assessed, Absences
  <2>2. Verdict(str, item, raw) \in Verdicts
    BY <1>1, <1>3, <1>4, <1>9, <2>1 DEF Verdicts, ScanItem
  <2> DEFINE v == Verdict(str, item, raw)
  <2>4. /\ v.assessed = assessed /\ v.status = status /\ v.original = item.count /\ v.verified = confirmed
        /\ v.absence = None /\ v.unresolved = "no"
    BY <2>1
  <2> HIDE DEF v
  <2>5. Fits(str, item, v) BY <1>3, <1>5, <1>6, <1>9, <2>2, <2>4 DEF Fits, v
  <2>6. QED BY <2>5 DEF v
<1>7. CASE str = "antipattern"
  <2> DEFINE absence == Absence(confirmed, item.count, raw.absence, status)
             verified == IF absence = "partially_present" /\ item.count > 0 /\ confirmed = 0
                         THEN 1 ELSE confirmed
  <2>1. Verdict(str, item, raw) =
          [status |-> status, assessed |-> assessed,
           original |-> item.count, verified |-> verified,
           rescan |-> raw.rescan \/ item.count > verified \/ ~item.assessed,
           absence |-> absence, unresolved |-> "no"]
    BY <1>7 DEF Verdict, confirmed, status, assessed
  <2>2. /\ absence \in Absences
        /\ verified \in Counts /\ verified <= item.count
        /\ verified < item.count => status # "supported"
        /\ absence = "partially_present" => verified > 0
        /\ absence = Absence(verified, item.count, absence, status)
    BY <1>1, <1>3, <1>4, <1>5 DEF Absence, Absences, Counts, ScanItem, Statuses
  <2> HIDE DEF absence, verified
  <2>3. Verdict(str, item, raw) \in Verdicts
    BY <1>1, <1>4, <1>9, <2>1, <2>2 DEF Verdicts, ScanItem
  <2> DEFINE v == Verdict(str, item, raw)
  <2>5. /\ v.assessed = assessed /\ v.status = status /\ v.original = item.count /\ v.verified = verified
        /\ v.absence = absence /\ v.unresolved = "no"
    BY <2>1
  <2> HIDE DEF v
  <2>6. Fits(str, item, v) BY <1>7, <1>9, <2>2, <2>3, <2>5, None \notin Absences DEF Fits, v
  <2>7. QED BY <2>6 DEF v
<1>8. QED BY <1>6, <1>7 DEF Streams

\* A verification that failed fits every item.
LEMMA UnverifiedFits ==
  ASSUME EvidenceAssumption, NEW str \in Streams, NEW item \in Scans
  PROVE  Fits(str, item, Unverified(str, item))
<1>1. item.count \in Counts BY DEF Scans, ScanItem
<1>2. "unknown_absent" \in Absences BY DEF Absences
<1>3. None # "unknown_absent" BY <1>2 DEF EvidenceAssumption
<1>4. QED
  BY <1>1, <1>2, <1>3
     DEF Fits, Unverified, Verdicts, Statuses, Counts, Streams

\* Changes of a verdict that leave it one.
LEMMA VerdictUpdates ==
  ASSUME NEW v \in Verdicts, NEW s \in Statuses, NEW c \in Counts,
         NEW a \in Absences, NEW r \in BOOLEAN,
         NEW u \in {"no", "verification", "adjudication"}
  PROVE  /\ [v EXCEPT !.status = s, !.verified = c, !.absence = a, !.rescan = r] \in Verdicts
         /\ [v EXCEPT !.verified = c, !.absence = a] \in Verdicts
         /\ [v EXCEPT !.status = s, !.verified = c, !.absence = a, !.rescan = r,
                      !.unresolved = u] \in Verdicts
  BY DEF Verdicts

\* So does a verdict after its adjudication, decided or not.
LEMMA AdjudicatedFits ==
  ASSUME EvidenceAssumption, NEW str \in Streams, NEW item \in Scans, NEW v,
         Fits(str, item, v), v.unresolved = "no", NeedsAdjudication(v),
         NEW decision \in {"partially_present", "unknown_absent", None}
  PROVE  Fits(str, item, Adjudicated(v, decision))
<1>1. /\ item.count \in Counts /\ item.assessed \in BOOLEAN
      /\ v \in Verdicts
  BY DEF Scans, ScanItem, Fits
<1>2. /\ {"partially_present", "unknown_absent"} \subseteq Absences
      /\ None \notin {"partially_present", "unknown_absent"}
  BY DEF Absences, EvidenceAssumption
<1>3. /\ str = "antipattern"
      /\ v.verified = 0 /\ v.original = item.count /\ item.count > 0
      /\ v.absence # "partially_present"
  BY DEF NeedsAdjudication, Fits, Streams
<1>4. v.status \in {"unsupported", "missing"}
  BY <1>3 DEF NeedsAdjudication, Fits, Absence
<1>5. Adjudicated(v, decision) \in Verdicts
  <2> DEFINE again == v.rescan \/ v.original > 1
  <2>1. decision = "partially_present" =>
          Adjudicated(v, decision) =
            [v EXCEPT !.status = "weak", !.verified = 1, !.absence = "partially_present",
                      !.rescan = again]
    BY <1>2, <1>3 DEF Adjudicated, Higher
  <2>2. decision = "unknown_absent" =>
          Adjudicated(v, decision) = [v EXCEPT !.verified = 0, !.absence = "unknown_absent"]
    BY <1>2 DEF Adjudicated
  <2>3. decision = None =>
          Adjudicated(v, decision) =
            [v EXCEPT !.status = "missing", !.verified = 0, !.absence = "unknown_absent",
                      !.rescan = FALSE, !.unresolved = "adjudication"]
    BY <1>2 DEF Adjudicated
  <2>4. again \in BOOLEAN OBVIOUS
  <2>5. {0, 1} \subseteq Counts /\ {"weak", "missing"} \subseteq Statuses BY DEF Counts, Statuses
  <2> HIDE DEF again
  <2>6. CASE decision = "partially_present"
    <3>1. [v EXCEPT !.status = "weak", !.verified = 1, !.absence = "partially_present",
                    !.rescan = again] \in Verdicts
      BY <1>1, <1>2, <2>4, <2>5, VerdictUpdates
    <3>2. QED BY <2>1, <2>6, <3>1
  <2>7. CASE decision = "unknown_absent"
    <3>1. [v EXCEPT !.verified = 0, !.absence = "unknown_absent"] \in Verdicts
      BY <1>1, <1>2, <2>5, VerdictUpdates
    <3>2. QED BY <2>2, <2>7, <3>1
  <2>8. CASE decision = None
    <3>1. [v EXCEPT !.status = "missing", !.verified = 0, !.absence = "unknown_absent",
                    !.rescan = FALSE, !.unresolved = "adjudication"] \in Verdicts
      BY <1>1, <1>2, <2>5, VerdictUpdates
    <3>2. QED BY <2>3, <2>8, <3>1
  <2>9. QED BY <2>6, <2>7, <2>8
<1> DEFINE w == Adjudicated(v, decision)
<1>6. /\ w.original = v.original /\ w.assessed = v.assessed
      /\ decision = "partially_present" =>
           /\ w.status = "weak" /\ w.verified = 1 /\ w.unresolved = "no"
           /\ w.absence = "partially_present"
      /\ decision = "unknown_absent" =>
           /\ w.status = v.status /\ w.verified = 0 /\ w.unresolved = "no"
           /\ w.absence = "unknown_absent"
      /\ decision = None =>
           /\ w.status = "missing" /\ w.verified = 0 /\ w.unresolved = "adjudication"
           /\ w.absence = "unknown_absent"
  BY <1>1, <1>2, <1>3 DEF Adjudicated, Verdicts, Higher, EvidenceAssumption
<1> HIDE DEF w
<1>7. w.absence = Absence(w.verified, w.original, w.absence, w.status)
  BY <1>1, <1>3, <1>4, <1>6 DEF Absence, Counts
<1>8. Fits(str, item, w)
  BY <1>1, <1>2, <1>3, <1>4, <1>5, <1>6, <1>7 DEF Fits, Counts, EvidenceAssumption, w
<1>9. QED BY <1>8 DEF w

-----------------------------------------------------------------------------
(* What the merge and the reconciliation make of it *)

\* The entry that a verdict becomes: unverified it keeps the scanner's item, else
\* it takes the verdict's count, status and absence, and quotes without an
\* assessment only where nothing is counted.
Merged(item, v, e) ==
  /\ e \in Entries
  /\ e.unresolved <=> v.unresolved = "verification"
  /\ e.status = v.status /\ e.original = v.original
  /\ e.unresolved =>
       /\ e.count = item.count /\ e.supported = item.count /\ e.verified = None
       /\ e.assessed <=> item.assessed
  /\ ~e.unresolved =>
       /\ e.count = v.verified /\ e.absence = v.absence
       /\ e.assessed <=> v.assessed
       /\ e.supported = (IF v.assessed THEN e.count ELSE 0)
       /\ e.bound /\ ~e.assessed => e.count = 0
       /\ e.assessed => e.bound \/ e.stray
  /\ e.bound => item.bound

\* An unverified criterion keeps its item.
LEMMA UnverifiedMerged ==
  ASSUME EvidenceAssumption, NEW str \in Streams, NEW item \in Scans, NEW v,
         Fits(str, item, v), v.unresolved = "verification"
  PROVE  Merged(item, v, Applied(str, item, v))
<1>1. /\ item.count \in Counts /\ item.assessed \in BOOLEAN
      /\ item.bound \in BOOLEAN /\ item.stray \in BOOLEAN
      /\ v.status \in Statuses /\ v.original \in Counts
  BY DEF Scans, ScanItem, Fits, Verdicts
<1> DEFINE e == Applied(str, item, v)
<1>2. e = [count |-> item.count, verified |-> None, assessed |-> item.assessed,
           supported |-> item.count, bound |-> item.bound, stray |-> item.stray,
           status |-> v.status, original |-> v.original,
           absence |-> None, unresolved |-> TRUE]
  BY DEF Applied
<1> HIDE DEF e
<1>3. e \in Entries BY <1>1, <1>2 DEF Entries
<1>4. QED BY <1>2, <1>3 DEF Merged, e

\* A verified one takes the verdict.
LEMMA VerifiedMerged ==
  ASSUME EvidenceAssumption, NEW str \in Streams, NEW item \in Scans, NEW v,
         Fits(str, item, v), v.unresolved # "verification"
  PROVE  Merged(item, v, Applied(str, item, v))
<1>1. /\ item.count \in Counts /\ item.assessed \in BOOLEAN
      /\ item.bound \in BOOLEAN /\ item.stray \in BOOLEAN
      /\ v.status \in Statuses /\ v.original = item.count /\ v.verified \in Counts
      /\ v.verified <= item.count /\ v.assessed \in BOOLEAN
      /\ v.absence \in Absences \cup {None}
      /\ v.assessed => item.bound \/ item.stray
  BY DEF Scans, ScanItem, ValidScanItem, Fits, Verdicts
<1>2. Lower(v.original, v.verified) = v.verified BY <1>1 DEF Lower, Counts
<1>3. (IF str = "antipattern"
       THEN Absence(v.verified, v.original, v.absence, v.status) ELSE None) = v.absence
  BY DEF Fits, Streams
<1>4. ~(v.absence = "partially_present" /\ v.original > 0 /\ v.verified = 0)
  BY DEF Fits, Streams, EvidenceAssumption, Absences
<1>5. v.absence = "tested_absent" => v.verified = 0
  BY <1>1 DEF Fits, Streams, EvidenceAssumption, Absences, Absence, Counts
<1> DEFINE e == Applied(str, item, v)
           quoted == v.assessed \/ v.absence = "tested_absent"
           bound == quoted /\ item.bound
           stray == quoted /\ item.stray
           supported == IF v.assessed THEN Lower(item.count, v.verified) ELSE 0
<1>6. /\ bound \in BOOLEAN /\ stray \in BOOLEAN
      /\ bound => item.bound
      /\ bound /\ ~v.assessed => v.verified = 0
      /\ v.assessed => bound \/ stray
  BY <1>1, <1>5
<1>7. supported = (IF v.assessed THEN v.verified ELSE 0) /\ supported \in Counts
  BY <1>1 DEF Lower, Counts
<1>8. e = [count |-> v.verified, verified |-> v.verified, assessed |-> v.assessed,
           supported |-> supported, bound |-> bound, stray |-> stray,
           status |-> v.status, original |-> v.original,
           absence |-> v.absence, unresolved |-> FALSE]
  BY <1>2, <1>3, <1>4 DEF Applied
<1> HIDE DEF e, quoted, bound, stray, supported
<1>9. e \in Entries BY <1>1, <1>6, <1>7, <1>8 DEF Entries
<1>10. QED BY <1>1, <1>6, <1>7, <1>8, <1>9 DEF Merged, e

\* An entry that keeps its quotes, at most without the stray ones, passes the
\* gate with its verdict as it is.
LEMMA QuotedAccepted ==
  ASSUME EvidenceAssumption, NEW str \in Streams, NEW item \in Scans, NEW v,
         Fits(str, item, v), NEW e, Merged(item, v, e), ~LosesItsQuotes(e)
  PROVE  /\ Reconciled(str, e, v) = [e EXCEPT !.stray = FALSE]
         /\ ReconciledVerdict(str, e, v) = v
         /\ GateAccepts(Reconciled(str, e, v), v)
<1>1. /\ e \in Entries
      /\ e.stray \in BOOLEAN /\ e.bound \in BOOLEAN /\ e.assessed \in BOOLEAN
      /\ e.unresolved \in BOOLEAN /\ e.count \in Counts
  BY DEF Merged, Entries
<1>2. item.assessed \in BOOLEAN /\ (~item.assessed => item.count = 0)
  BY DEF Scans, ScanItem, ValidScanItem
<1> DEFINE ent == [e EXCEPT !.stray = FALSE]
<1>3. Reconciled(str, e, v) = ent
  <2>1. CASE NothingToReconcile(e)
    <3>1. e.stray = FALSE BY <1>1, <2>1 DEF NothingToReconcile
    <3>2. e = ent BY <1>1, <3>1 DEF Entries
    <3>3. QED BY <2>1, <3>2 DEF Reconciled
  <2>2. CASE ~NothingToReconcile(e)
    BY <2>2 DEF LosesItsQuotes, Reconciled
  <2>3. QED BY <2>1, <2>2
<1>4. /\ ent.stray = FALSE /\ ent.bound = e.bound /\ ent.assessed = e.assessed
      /\ ent.unresolved = e.unresolved /\ ent.count = e.count
      /\ ent.supported = e.supported /\ ent.verified = e.verified
  BY <1>1 DEF Entries
<1> HIDE DEF ent
<1>5. ReconciledVerdict(str, e, v) = v BY DEF ReconciledVerdict
<1>6. ~e.unresolved => e.count = 0 \/ e.bound
  BY <1>1 DEF LosesItsQuotes, NothingToReconcile
<1>7. AnswersAgree(ent)
  BY <1>1, <1>2, <1>4, <1>6 DEF AnswersAgree, Merged
<1>8. ProvenanceValid(ent)
  BY <1>1, <1>4, <1>6 DEF ProvenanceValid, Merged, LosesItsQuotes, NothingToReconcile, Counts
<1>9. UnresolvedSafe(ent, v)
  BY <1>1, <1>4 DEF UnresolvedSafe, Merged, Fits, Verdicts
<1>10. QED BY <1>3, <1>5, <1>7, <1>8, <1>9 DEF GateAccepts, ent

\* An entry that loses its quotes passes the gate as not assessed.
LEMMA UnboundAccepted ==
  ASSUME EvidenceAssumption, NEW str \in Streams, NEW item \in Scans, NEW v,
         Fits(str, item, v), NEW e, Merged(item, v, e), LosesItsQuotes(e)
  PROVE  LET ent == Reconciled(str, e, v)
             ver == ReconciledVerdict(str, e, v)
         IN /\ ent \in Entries /\ ver \in Verdicts
            /\ ent.count = 0 /\ ~ent.assessed /\ ~ent.unresolved /\ ~ent.stray /\ ~ent.bound
            /\ ent.status = "unsupported"
            /\ ver.status = "unsupported" /\ ver.verified = 0 /\ ver.absence = ent.absence
            /\ ver.unresolved = v.unresolved
            /\ GateAccepts(ent, ver)
<1> DEFINE original == IF e.count = 0 THEN e.original
                       ELSE Higher(e.count, Higher(v.original, e.original))
           confirmed == IF e.count > 0 THEN 0 ELSE e.verified
           absence == IF str = "antipattern" THEN "unknown_absent" ELSE e.absence
           assessed == IF e.count = 0 THEN FALSE ELSE v.assessed
           ent == Reconciled(str, e, v)
           ver == ReconciledVerdict(str, e, v)
<1>1. /\ e \in Entries /\ v \in Verdicts
      /\ e.bound = FALSE /\ e.unresolved = FALSE /\ v.unresolved # "verification"
      /\ e.absence = v.absence /\ e.count \in Counts /\ v.assessed \in BOOLEAN
  BY DEF Merged, Fits, LosesItsQuotes, Entries, Verdicts
<1>2. /\ original \in Counts /\ confirmed \in Counts \cup {None}
      /\ absence \in Absences \cup {None} /\ assessed \in BOOLEAN
  <2>1. /\ e.original \in Counts /\ v.original \in Counts /\ e.verified \in Counts \cup {None}
        /\ e.absence \in Absences \cup {None}
    BY <1>1 DEF Entries, Verdicts
  <2>2. original \in Counts BY <1>1, <2>1 DEF Higher, Counts
  <2>3. confirmed \in Counts \cup {None} BY <2>1 DEF Counts
  <2>4. absence \in Absences \cup {None} BY <2>1 DEF Absences
  <2>5. assessed \in BOOLEAN BY <1>1
  <2>6. QED BY <2>2, <2>3, <2>4, <2>5
<1>3. ent = [e EXCEPT !.count = 0, !.stray = FALSE, !.assessed = FALSE, !.supported = 0,
                      !.status = "unsupported", !.verified = confirmed,
                      !.original = original, !.absence = absence]
  BY <1>1 DEF Reconciled, Unbound, LosesItsQuotes, NothingToReconcile, Entries
<1>4. ver = [v EXCEPT !.status = "unsupported", !.verified = 0, !.rescan = FALSE,
                      !.assessed = assessed, !.absence = absence]
  BY <1>1 DEF ReconciledVerdict, Verdicts
<1> HIDE DEF original, confirmed, absence, assessed, ent, ver
<1>5. /\ ent \in Entries
      /\ ent.count = 0 /\ ent.stray = FALSE /\ ent.assessed = FALSE /\ ent.supported = 0
      /\ ent.status = "unsupported" /\ ent.absence = absence
      /\ ent.bound = FALSE /\ ent.unresolved = FALSE
  <2>1. 0 \in Counts /\ "unsupported" \in Statuses BY DEF Counts, Statuses
  <2>2. ent \in Entries BY <1>1, <1>2, <1>3, <2>1 DEF Entries
  <2>3. QED BY <1>1, <1>3, <2>2 DEF Entries
<1>6. /\ ver \in Verdicts
      /\ ver.status = "unsupported" /\ ver.verified = 0 /\ ver.absence = absence
      /\ ver.unresolved = v.unresolved
  <2>1. 0 \in Counts /\ "unsupported" \in Statuses BY DEF Counts, Statuses
  <2>2. ver \in Verdicts BY <1>1, <1>2, <1>4, <2>1 DEF Verdicts
  <2>3. QED BY <1>1, <1>4, <2>2 DEF Verdicts
<1>7. GateAccepts(ent, ver)
  BY <1>1, <1>5, <1>6 DEF GateAccepts, AnswersAgree, ProvenanceValid, UnresolvedSafe
<1>8. QED BY <1>5, <1>6, <1>7 DEF ent, ver

\* Every verdict that fits its item is merged into such an entry.
LEMMA AppliedMerged ==
  ASSUME EvidenceAssumption, NEW str \in Streams, NEW item \in Scans, NEW v,
         Fits(str, item, v)
  PROVE  Merged(item, v, Applied(str, item, v))
  BY UnverifiedMerged, VerifiedMerged

\* What it takes to score an entry.
LEMMA ScoreNeeds ==
  ASSUME NEW str \in Streams, NEW ent \in Entries, NEW words \in Words,
         Resolution(str, ent, words).score # None
  PROVE  /\ ~ent.unresolved /\ ent.assessed
         /\ ent.status \notin {"unsupported", "missing"}
         /\ Resolution(str, ent, words).score = ent.count
         /\ str = "antipattern" /\ ent.count = 0 =>
              ent.absence = "tested_absent" /\ ent.status = "supported"
<1>1. ent.count \in Counts BY DEF Entries
<1>2. ~ent.unresolved BY DEF Resolution
<1>3. CASE str = "maturity"
  BY <1>2, <1>3 DEF Resolution, Governed
<1>4. CASE str = "antipattern"
  <2> DEFINE absence == InferredAbsence(ent, words)
  <2>1. ent.count = 0 =>
          \/ absence \in {"confirmed_present", "partially_present", "unknown_absent"}
          \/ absence = "tested_absent" /\ ent.absence = "tested_absent" /\ ent.status = "supported"
    BY DEF InferredAbsence
  <2> HIDE DEF absence
  <2>2. CASE /\ absence = "tested_absent" /\ ent.count = 0
             /\ ent.assessed /\ ent.status = "supported"
    <3>1. Resolution(str, ent, words).score = 0
      BY <1>2, <1>4, <2>2 DEF Resolution, absence
    <3>2. QED BY <1>2, <2>1, <2>2, <3>1
  <2>3. CASE ~(/\ absence = "tested_absent" /\ ent.count = 0
               /\ ent.assessed /\ ent.status = "supported")
    <3>1. /\ ~(absence = "confirmed_present" /\ ent.count # 3)
          /\ ~(absence = "partially_present" /\ ent.count \notin {1, 2})
          /\ absence # "unknown_absent" /\ Governed(ent)
          /\ Resolution(str, ent, words).score = ent.count
      BY <1>2, <1>4, <2>3 DEF Resolution, absence
    <3>2. QED BY <1>2, <2>1, <2>3, <3>1 DEF Governed
  <2>4. QED BY <2>2, <2>3
<1>5. QED BY <1>3, <1>4 DEF Streams

\* A score of the reconciled entry is earned by its scanner item.
LEMMA ScoreFollows ==
  ASSUME EvidenceAssumption, NEW str \in Streams, NEW item \in Scans, NEW v,
         Fits(str, item, v), NEW e, Merged(item, v, e), NEW words \in Words,
         NEW score, score = Resolution(str, Reconciled(str, e, v), words).score,
         score # None
  PROVE  LET ver == ReconciledVerdict(str, e, v)
         IN /\ ver.unresolved = "no"
            /\ item.assessed /\ item.support = "supported" /\ item.bound
            /\ score <= item.count
            /\ score = 0 /\ str = "antipattern" =>
                 /\ item.count = 0
                 /\ ver.absence = "tested_absent" /\ ver.status = "supported"
<1> DEFINE ent == Reconciled(str, e, v)
<1>1. ~LosesItsQuotes(e)
  <2>1. SUFFICES ASSUME LosesItsQuotes(e) PROVE FALSE OBVIOUS
  <2>2. ent \in Entries /\ ~ent.assessed BY <2>1, UnboundAccepted
  <2>3. QED BY <2>2, ScoreNeeds
<1>2. /\ ent = [e EXCEPT !.stray = FALSE]
      /\ ReconciledVerdict(str, e, v) = v
      /\ GateAccepts(ent, v)
  BY <1>1, QuotedAccepted
<1>3. e \in Entries /\ v \in Verdicts BY DEF Merged, Fits
<1>4. /\ ent \in Entries /\ ent.stray = FALSE
      /\ ent.bound = e.bound /\ ent.assessed = e.assessed /\ ent.unresolved = e.unresolved
      /\ ent.count = e.count /\ ent.status = e.status /\ ent.absence = e.absence
  BY <1>2, <1>3 DEF Entries
<1> HIDE DEF ent
<1>5. /\ ~e.unresolved /\ e.assessed /\ e.status \notin {"unsupported", "missing"}
      /\ score = e.count
      /\ str = "antipattern" /\ e.count = 0 =>
           e.absence = "tested_absent" /\ e.status = "supported"
  <2>1. /\ ~ent.unresolved /\ ent.assessed /\ ent.status \notin {"unsupported", "missing"}
        /\ score = ent.count
        /\ str = "antipattern" /\ ent.count = 0 =>
             ent.absence = "tested_absent" /\ ent.status = "supported"
    BY <1>4, ScoreNeeds DEF ent
  <2>2. QED BY <1>4, <2>1
<1>6. v.unresolved = "no" /\ item.assessed /\ item.support = "supported"
  BY <1>3, <1>5 DEF Merged, Fits, Verdicts
<1>7. item.bound
  BY <1>2, <1>4, <1>5 DEF GateAccepts, ProvenanceValid, Merged
<1>8. e.count <= item.count BY <1>5 DEF Merged, Fits
<1>9. str = "antipattern" /\ e.count = 0 => item.count = 0
  BY <1>5, <1>6 DEF Merged, Fits, Absence, Scans, ScanItem, Counts
<1>10. QED BY <1>2, <1>5, <1>6, <1>7, <1>8, <1>9 DEF Merged

\* A reconciled entry below the count the scanner gave is adjusted.
LEMMA AdjustmentFollows ==
  ASSUME EvidenceAssumption, NEW str \in Streams, NEW item \in Scans, NEW v,
         Fits(str, item, v), NEW e, Merged(item, v, e),
         NEW first \in Counts \cup {None},
         v.unresolved = "verification" => first = None,
         NEW ent, ent = Reconciled(str, e, v),
         ent.count < (IF first = None THEN item.count ELSE first),
         NEW a, a = ReconciledAdjustment(e, v, Adjustment(e, v, first))
  PROVE  a \in Adjustments /\ a # None /\ a.verified = ent.count
<1>1. /\ e \in Entries /\ v \in Verdicts /\ item.count \in Counts
      /\ e.count \in Counts /\ v.original = item.count /\ e.original = item.count
  BY DEF Merged, Fits, Scans, ScanItem, Entries
<1>2. CASE LosesItsQuotes(e) /\ e.count > 0
  <2>1. Higher(e.count, Higher(v.original, e.original)) \in Counts
    BY <1>1 DEF Higher, Counts
  <2>2. a \in Adjustments /\ a.verified = 0
    BY <1>2, <2>1 DEF ReconciledAdjustment, Adjustments, Counts
  <2>3. ent.count = 0 BY <1>2, UnboundAccepted
  <2>4. QED BY <2>2, <2>3 DEF EvidenceAssumption
<1>3. CASE ~(LosesItsQuotes(e) /\ e.count > 0)
  <2>1. a = Adjustment(e, v, first) BY <1>3 DEF ReconciledAdjustment
  <2>2. ent.count = e.count
    <3>1. CASE LosesItsQuotes(e)
      BY <1>1, <1>3, <3>1, UnboundAccepted DEF Counts
    <3>2. CASE ~LosesItsQuotes(e)
      BY <1>1, <3>2, QuotedAccepted DEF Entries
    <3>3. QED BY <3>1, <3>2
  <2>3. ~e.unresolved /\ (first # None \/ e.count < v.original)
    BY <1>1, <2>2 DEF Merged, Counts
  <2>4. a = [original |-> IF first # None THEN first ELSE v.original, verified |-> e.count]
    BY <2>1, <2>3 DEF Adjustment
  <2>5. (IF first # None THEN first ELSE v.original) \in Counts BY <1>1
  <2> DEFINE original == IF first # None THEN first ELSE v.original
  <2> HIDE DEF original
  <2>6. a = [original |-> original, verified |-> e.count] /\ original \in Counts
    BY <2>4, <2>5 DEF original
  <2>7. a \in Adjustments /\ a.verified = e.count BY <1>1, <2>6 DEF Adjustments
  <2>8. QED BY <2>2, <2>7 DEF EvidenceAssumption
<1>4. QED BY <1>2, <1>3

\* The reconciled verdict agrees with the reconciled entry.
LEMMA ExportAgrees ==
  ASSUME EvidenceAssumption, NEW str \in Streams, NEW item \in Scans, NEW v,
         Fits(str, item, v), NEW e, Merged(item, v, e),
         NEW ent, ent = Reconciled(str, e, v), ~ent.unresolved,
         NEW ver, ver = ReconciledVerdict(str, e, v)
  PROVE  /\ ver.status = ent.status
         /\ ver.verified = ent.count
         /\ ver.absence = ent.absence
<1>1. CASE LosesItsQuotes(e) BY <1>1, UnboundAccepted
<1>2. CASE ~LosesItsQuotes(e)
  <2>1. e \in Entries BY DEF Merged
  <2>2. ent = [e EXCEPT !.stray = FALSE] /\ ver = v BY <1>2, QuotedAccepted
  <2>3. /\ ent.status = e.status /\ ent.count = e.count /\ ent.absence = e.absence
        /\ ent.unresolved = e.unresolved
    BY <2>1, <2>2 DEF Entries
  <2>4. QED BY <2>2, <2>3 DEF Merged
<1>3. QED BY <1>1, <1>2

\* Adjustments have their types.
LEMMA AdjustmentTypes ==
  ASSUME NEW e \in Entries, NEW v \in Verdicts, NEW first \in Counts \cup {None},
         NEW a \in Adjustments \cup {None}
  PROVE  /\ Adjustment(e, v, first) \in Adjustments \cup {None}
         /\ ReconciledAdjustment(e, v, a) \in Adjustments \cup {None}
<1>1. e.count \in Counts /\ e.original \in Counts /\ v.original \in Counts
  BY DEF Entries, Verdicts
<1> DEFINE original == IF first # None THEN first ELSE v.original
           verified == IF e.unresolved THEN 0 ELSE e.count
           highest == Higher(e.count, Higher(v.original, e.original))
<1>2. original \in Counts /\ verified \in Counts /\ highest \in Counts /\ 0 \in Counts
  BY <1>1 DEF Higher, Counts
<1> HIDE DEF original, verified, highest
<1>3. /\ [original |-> original, verified |-> verified] \in Adjustments
      /\ [original |-> highest, verified |-> 0] \in Adjustments
  BY <1>2 DEF Adjustments
<1>4. QED
  BY <1>3 DEF Adjustment, ReconciledAdjustment, original, verified, highest

-----------------------------------------------------------------------------
(* The invariant *)

\* What each stage has at hand: the item that is checked, its verdict while it
\* is adjudicated, and the last verdict that was adopted with its item.
AtHand ==
  /\ pc = "verify" => newScan # None
  /\ pc = "adjudicate" =>
       /\ newScan # None
       /\ Fits(stream, newScan, newVerdict) /\ newVerdict.unresolved = "no"
  /\ pc \in {"loop", "rescan", "apply", "reconcile"} => verdict # None
  /\ pc \in {"scan", "verify", "adjudicate"} => (verdict = None <=> pass = 0)
  /\ verdict # None => scan # None
  /\ verdict # None /\ pc # "gate" => Fits(stream, scan, verdict)

\* A failed check is not followed by a rescan, so what was never verified was
\* never rescanned.
Rescanned ==
  /\ pass = 0 => before = None
  /\ pc = "scan" => pass = 0
  /\ pc = "rescan" => pass > 0
  /\ pass > 0 /\ pc \in {"rescan", "verify", "adjudicate"} => ~failed
  /\ verdict # None /\ verdict.unresolved = "verification" => failed /\ before = None

\* The entry and the adjustment between the merge and the reconciliation.
MergeMatches ==
  pc = "reconcile" =>
    /\ entry = Applied(stream, scan, verdict)
    /\ adjustment = Adjustment(entry, verdict, before)

IInv ==
  /\ TypeOK /\ AtHand /\ Rescanned /\ MergeMatches
  /\ GateHolds /\ ScoreEarned /\ DowngradeRecorded /\ ExportFollows

\* Adopting a verdict that fits the new item, or keeping the one there is.
LEMMA AdoptPreserves ==
  ASSUME EvidenceAssumption, IInv, pc \in {"verify", "adjudicate"},
         NEW v, Fits(stream, newScan, v), NEW fails \in BOOLEAN, Adopt(v, fails),
         v.unresolved = "verification" => fails,
         newScan' = None, newVerdict' \in Verdicts \cup {None},
         UNCHANGED <<stream, pass, entry, adjustment>>
  PROVE  IInv'
<1>1. TypeOK /\ newScan \in Scans /\ newScan # None /\ v \in Verdicts
  BY DEF IInv, TypeOK, AtHand, Fits
<1>2. CASE pass > 0 /\ fails
  <2>1. pc' = "apply" /\ UNCHANGED <<scan, verdict, failed, before>> BY <1>2 DEF Adopt
  <2>2. TypeOK' BY <1>1, <2>1 DEF TypeOK
  <2>3. AtHand' BY <1>2, <2>1 DEF IInv, AtHand
  <2>4. Rescanned' BY <2>1 DEF IInv, Rescanned
  <2>5. MergeMatches' BY <2>1 DEF MergeMatches
  <2>6. (GateHolds /\ ScoreEarned /\ DowngradeRecorded /\ ExportFollows)'
    BY <2>1 DEF GateHolds, ScoreEarned, DowngradeRecorded, ExportFollows
  <2>7. QED BY <2>2, <2>3, <2>4, <2>5, <2>6 DEF IInv
<1>3. CASE ~(pass > 0 /\ fails)
  <2>1. /\ pc' = "loop" /\ scan' = newScan /\ verdict' = v /\ failed' = fails
        /\ before' = IF pass > 0 /\ NeedsRescan(verdict) /\ before = None
                     THEN verdict.original ELSE before
    BY <1>3 DEF Adopt
  <2>2. pass > 0 => verdict \in Verdicts
    BY <1>1 DEF IInv, AtHand, TypeOK
  <2>3. before' \in Counts \cup {None}
    <3>1. CASE pass > 0 /\ NeedsRescan(verdict) /\ before = None
      BY <2>1, <2>2, <3>1 DEF Verdicts
    <3>2. CASE ~(pass > 0 /\ NeedsRescan(verdict) /\ before = None)
      BY <1>1, <2>1, <3>2 DEF TypeOK
    <3>3. QED BY <3>1, <3>2
  <2>4. TypeOK' BY <1>1, <2>1, <2>3 DEF TypeOK
  <2>5. AtHand' BY <1>1, <2>1 DEF AtHand
  <2>6. Rescanned'
    BY <1>1, <1>3, <2>1 DEF IInv, Rescanned, TypeOK, EvidenceAssumption
  <2>7. MergeMatches' BY <2>1 DEF MergeMatches
  <2>8. (GateHolds /\ ScoreEarned /\ DowngradeRecorded /\ ExportFollows)'
    BY <2>1 DEF GateHolds, ScoreEarned, DowngradeRecorded, ExportFollows
  <2>9. QED BY <2>4, <2>5, <2>6, <2>7, <2>8 DEF IInv
<1>4. QED BY <1>2, <1>3

\* Merging the verdict that was adopted last.
LEMMA ApplyPreserves ==
  ASSUME EvidenceAssumption, IInv, Apply PROVE IInv'
<1>1. /\ TypeOK /\ scan \in Scans /\ verdict \in Verdicts /\ Fits(stream, scan, verdict)
      /\ stream \in Streams
  BY DEF IInv, TypeOK, AtHand, Apply
<1>2. Merged(scan, verdict, entry') BY <1>1, AppliedMerged DEF Apply
<1>3. entry' \in Entries BY <1>2 DEF Merged
<1>4. adjustment' \in Adjustments \cup {None}
  <2>1. \A a \in {None} : Adjustment(entry', verdict, before) \in Adjustments \cup {None}
    BY <1>1, <1>3, AdjustmentTypes DEF TypeOK
  <2>2. QED BY <2>1 DEF Apply
<1>5. TypeOK' BY <1>1, <1>3, <1>4 DEF TypeOK, Apply
<1>6. AtHand' /\ Rescanned' /\ MergeMatches'
  BY DEF IInv, AtHand, Rescanned, MergeMatches, Apply
<1>7. (GateHolds /\ ScoreEarned /\ DowngradeRecorded /\ ExportFollows)'
  BY DEF Apply, GateHolds, ScoreEarned, DowngradeRecorded, ExportFollows
<1>8. QED BY <1>5, <1>6, <1>7 DEF IInv

\* What the reconciliation leaves, quoted or not, passes the gate.
LEMMA ReconcileFits ==
  ASSUME EvidenceAssumption, IInv, Reconcile
  PROVE  /\ entry' \in Entries /\ verdict' \in Verdicts
         /\ verdict'.unresolved = verdict.unresolved
         /\ GateAccepts(entry', verdict')
<1>1. /\ TypeOK /\ scan \in Scans /\ verdict \in Verdicts /\ Fits(stream, scan, verdict)
      /\ stream \in Streams
  BY DEF IInv, TypeOK, AtHand, Reconcile
<1>2. Merged(scan, verdict, entry) /\ entry \in Entries
  BY <1>1, AppliedMerged DEF IInv, MergeMatches, Reconcile, Merged
<1>3. /\ entry' = Reconciled(stream, entry, verdict)
      /\ verdict' = ReconciledVerdict(stream, entry, verdict)
  BY DEF Reconcile
<1>4. CASE LosesItsQuotes(entry) BY <1>1, <1>2, <1>3, <1>4, UnboundAccepted
<1>5. CASE ~LosesItsQuotes(entry)
  <2>1. /\ entry' = [entry EXCEPT !.stray = FALSE] /\ verdict' = verdict
        /\ GateAccepts(entry', verdict')
    BY <1>1, <1>2, <1>3, <1>5, QuotedAccepted
  <2>2. entry' \in Entries BY <1>2, <2>1 DEF Entries
  <2>3. QED BY <1>1, <2>1, <2>2
<1>6. QED BY <1>4, <1>5

\* Reconciling it with the source chunks.
LEMMA ReconcilePreserves ==
  ASSUME EvidenceAssumption, IInv, Reconcile PROVE IInv'
<1>1. /\ TypeOK /\ scan \in Scans /\ verdict \in Verdicts /\ Fits(stream, scan, verdict)
      /\ stream \in Streams /\ before \in Counts \cup {None}
      /\ adjustment = Adjustment(entry, verdict, before)
      /\ verdict.unresolved = "verification" => before = None
  BY DEF IInv, TypeOK, AtHand, Rescanned, MergeMatches, Reconcile
<1>2. Merged(scan, verdict, entry) /\ entry \in Entries
  BY <1>1, AppliedMerged DEF IInv, MergeMatches, Reconcile, Merged
<1>3. /\ entry' = Reconciled(stream, entry, verdict)
      /\ verdict' = ReconciledVerdict(stream, entry, verdict)
      /\ adjustment' = ReconciledAdjustment(entry, verdict, adjustment)
      /\ pc' = "gate"
      /\ UNCHANGED <<stream, pass, scan, failed, newScan, newVerdict, before>>
  BY DEF Reconcile
<1>4. /\ entry' \in Entries /\ verdict' \in Verdicts
      /\ verdict'.unresolved = verdict.unresolved
      /\ GateAccepts(entry', verdict')
  BY ReconcileFits
<1>5. adjustment' \in Adjustments \cup {None}
  BY <1>1, <1>2, <1>3, AdjustmentTypes DEF TypeOK
<1>6. TypeOK' BY <1>1, <1>3, <1>4, <1>5 DEF TypeOK
<1>7. AtHand' /\ Rescanned' /\ MergeMatches'
  BY <1>1, <1>3, <1>4 DEF IInv, AtHand, Rescanned, MergeMatches, EvidenceAssumption, Reconcile
<1>8. GateHolds' BY <1>4 DEF GateHolds
<1>9. ScoreEarned'
  <2>1. ASSUME NEW words \in Words, Resolution(stream', entry', words).score # None
        PROVE  /\ verdict'.unresolved = "no"
               /\ scan'.assessed /\ scan'.support = "supported" /\ scan'.bound
               /\ Resolution(stream', entry', words).score <= scan'.count
               /\ Resolution(stream', entry', words).score = 0 /\ stream' = "antipattern" =>
                    /\ scan'.count = 0
                    /\ verdict'.absence = "tested_absent" /\ verdict'.status = "supported"
    BY <1>1, <1>2, <1>3, <2>1, ScoreFollows
  <2>2. QED BY <2>1 DEF ScoreEarned
<1>10. DowngradeRecorded'
  <2>1. SUFFICES ASSUME entry'.count < (IF before' = None THEN scan'.count ELSE before')
                 PROVE  adjustment' # None /\ adjustment'.verified = entry'.count
    BY DEF DowngradeRecorded
  <2>2. QED BY <1>1, <1>2, <1>3, <2>1, AdjustmentFollows
<1>11. ExportFollows'
  <2>1. SUFFICES ASSUME ~entry'.unresolved
                 PROVE  /\ verdict'.status = entry'.status
                        /\ verdict'.verified = entry'.count
                        /\ verdict'.absence = entry'.absence
    BY DEF ExportFollows
  <2>2. QED BY <1>1, <1>2, <1>3, <2>1, ExportAgrees
<1>12. QED BY <1>6, <1>7, <1>8, <1>9, <1>10, <1>11 DEF IInv

\* The invariant is inductive.
LEMMA IInvStep == EvidenceAssumption /\ IInv /\ [Next]_vars => IInv'
<1> SUFFICES ASSUME EvidenceAssumption, IInv, [Next]_vars PROVE IInv' OBVIOUS
<1>1. TypeOK BY DEF IInv
<1>2. CASE Scan
  <2>1. TypeOK' BY <1>1, <1>2 DEF Scan, TypeOK
  <2>2. AtHand' /\ Rescanned' /\ MergeMatches'
    <3>1. newScan' # None BY <1>2 DEF Scan, EvidenceAssumption
    <3>2. /\ pc = "scan" /\ pc' = "verify"
          /\ UNCHANGED <<stream, pass, scan, verdict, failed, before>>
      BY <1>2 DEF Scan
    <3>3. AtHand' BY <3>1, <3>2 DEF IInv, AtHand
    <3>4. Rescanned' BY <3>2 DEF IInv, Rescanned
    <3>5. MergeMatches' BY <3>2 DEF MergeMatches
    <3>6. QED BY <3>3, <3>4, <3>5
  <2>3. (GateHolds /\ ScoreEarned /\ DowngradeRecorded /\ ExportFollows)'
    BY <1>2 DEF Scan, GateHolds, ScoreEarned, DowngradeRecorded, ExportFollows
  <2>4. QED BY <2>1, <2>2, <2>3 DEF IInv
<1>3. CASE Verify
  <2>1. PICK raw \in VerifierItem :
          /\ ValidVerifierItem(raw, stream, newScan.count)
          /\ newVerdict' = Verdict(stream, newScan, raw)
    BY <1>3 DEF Verify
  <2>2. newScan \in Scans /\ newScan # None /\ stream \in Streams
    BY <1>1, <1>3 DEF Verify, TypeOK, IInv, AtHand
  <2>3. Fits(stream, newScan, newVerdict')
    BY <2>1, <2>2, VerdictFits DEF EvidenceAssumption
  <2>4. newVerdict'.unresolved = "no" BY <2>1 DEF Verdict
  <2>5. newVerdict' \in Verdicts BY <2>3 DEF Fits
  <2>6. TypeOK' BY <1>1, <1>3, <2>5 DEF Verify, TypeOK
  <2>7. AtHand' /\ Rescanned' /\ MergeMatches'
    <3>1. /\ pc = "verify" /\ pc' = "adjudicate"
          /\ UNCHANGED <<stream, pass, scan, verdict, failed, newScan, before>>
      BY <1>3 DEF Verify
    <3>2. AtHand' BY <2>2, <2>3, <2>4, <3>1 DEF IInv, AtHand
    <3>3. Rescanned' BY <3>1 DEF IInv, Rescanned
    <3>4. MergeMatches' BY <3>1 DEF MergeMatches
    <3>5. QED BY <3>2, <3>3, <3>4
  <2>8. (GateHolds /\ ScoreEarned /\ DowngradeRecorded /\ ExportFollows)'
    BY <1>3 DEF Verify, GateHolds, ScoreEarned, DowngradeRecorded, ExportFollows
  <2>9. QED BY <2>6, <2>7, <2>8 DEF IInv
<1>4. CASE VerifyFails
  <2>1. newScan \in Scans /\ newScan # None /\ stream \in Streams
    BY <1>1, <1>4 DEF VerifyFails, TypeOK, IInv, AtHand
  <2>2. Fits(stream, newScan, Unverified(stream, newScan)) BY <2>1, UnverifiedFits
  <2>3. newVerdict' \in Verdicts \cup {None} BY <1>1, <1>4 DEF VerifyFails, TypeOK
  <2>4. QED BY <1>4, <2>2, <2>3, AdoptPreserves DEF VerifyFails
<1>5. CASE Adjudicate
  <2>1. PICK decision \in {"partially_present", "unknown_absent", None}, fails \in BOOLEAN :
          Adopt(IF NeedsAdjudication(newVerdict) THEN Adjudicated(newVerdict, decision)
                ELSE newVerdict, fails)
    BY <1>5 DEF Adjudicate
  <2>2. /\ newScan \in Scans /\ newScan # None /\ stream \in Streams
        /\ Fits(stream, newScan, newVerdict) /\ newVerdict.unresolved = "no"
        /\ newVerdict \in Verdicts
    BY <1>1, <1>5 DEF Adjudicate, TypeOK, IInv, AtHand, Fits
  <2> DEFINE v == IF NeedsAdjudication(newVerdict) THEN Adjudicated(newVerdict, decision)
                  ELSE newVerdict
  <2>3. Fits(stream, newScan, v) BY <2>2, AdjudicatedFits
  <2>4. v.unresolved # "verification"
    <3>1. Adjudicated(newVerdict, decision).unresolved # "verification"
      BY <2>2 DEF Adjudicated, Verdicts
    <3>2. QED BY <2>2, <3>1
  <2> HIDE DEF v
  <2>5. Adopt(v, fails) BY <2>1 DEF v
  <2>6. QED BY <1>5, <2>3, <2>4, <2>5, AdoptPreserves DEF Adjudicate
<1>6. CASE Expand
  <2>1. TypeOK' BY <1>1, <1>6 DEF Expand, TypeOK, EvidenceAssumption
  <2>2. pass' > 0 BY <1>1, <1>6 DEF Expand, TypeOK, EvidenceAssumption
  <2>3. AtHand' /\ MergeMatches' BY <1>6 DEF Expand, IInv, AtHand, MergeMatches
  <2>4. Rescanned' BY <1>6, <2>2 DEF Expand, IInv, Rescanned
  <2>5. (GateHolds /\ ScoreEarned /\ DowngradeRecorded /\ ExportFollows)'
    BY <1>6 DEF Expand, GateHolds, ScoreEarned, DowngradeRecorded, ExportFollows
  <2>6. QED BY <2>1, <2>3, <2>4, <2>5 DEF IInv
<1>7. CASE Rescan
  <2>1. scan \in Scans /\ scan # None BY <1>1, <1>7 DEF Rescan, TypeOK, IInv, AtHand
  <2>2. newScan' \in Scans /\ newScan' # None
    BY <1>7, <2>1 DEF Rescan, EvidenceAssumption
  <2>3. TypeOK' BY <1>1, <1>7, <2>2 DEF Rescan, TypeOK
  <2>4. pass > 0 BY <1>7 DEF Rescan, IInv, Rescanned
  <2>5. AtHand' /\ Rescanned' /\ MergeMatches'
    BY <1>7, <2>2, <2>4 DEF Rescan, IInv, AtHand, Rescanned, MergeMatches
  <2>6. (GateHolds /\ ScoreEarned /\ DowngradeRecorded /\ ExportFollows)'
    BY <1>7 DEF Rescan, GateHolds, ScoreEarned, DowngradeRecorded, ExportFollows
  <2>7. QED BY <2>3, <2>5, <2>6 DEF IInv
<1>8. CASE RescanFails
  <2>1. TypeOK' BY <1>1, <1>8 DEF RescanFails, TypeOK
  <2>2. AtHand' /\ Rescanned' /\ MergeMatches'
    BY <1>8 DEF RescanFails, IInv, AtHand, Rescanned, MergeMatches
  <2>3. (GateHolds /\ ScoreEarned /\ DowngradeRecorded /\ ExportFollows)'
    BY <1>8 DEF RescanFails, GateHolds, ScoreEarned, DowngradeRecorded, ExportFollows
  <2>4. QED BY <2>1, <2>2, <2>3 DEF IInv
<1>9. CASE LeaveLoop
  <2>1. TypeOK' BY <1>1, <1>9 DEF LeaveLoop, TypeOK
  <2>2. AtHand' /\ Rescanned' /\ MergeMatches'
    BY <1>9 DEF LeaveLoop, IInv, AtHand, Rescanned, MergeMatches
  <2>3. (GateHolds /\ ScoreEarned /\ DowngradeRecorded /\ ExportFollows)'
    BY <1>9 DEF LeaveLoop, GateHolds, ScoreEarned, DowngradeRecorded, ExportFollows
  <2>4. QED BY <2>1, <2>2, <2>3 DEF IInv
<1>10. CASE Apply BY <1>10, ApplyPreserves
<1>11. CASE Reconcile BY <1>11, ReconcilePreserves
<1>12. CASE UNCHANGED vars
  BY <1>12 DEF vars, IInv, TypeOK, AtHand, Rescanned, MergeMatches,
               GateHolds, ScoreEarned, DowngradeRecorded, ExportFollows
<1>13. QED
  BY <1>2, <1>3, <1>4, <1>5, <1>6, <1>7, <1>8, <1>9, <1>10, <1>11, <1>12 DEF Next

-----------------------------------------------------------------------------
(* The theorems *)

\* It holds of the initial states and in every behaviour.
LEMMA IInvInit == EvidenceAssumption /\ Init => IInv
<1> SUFFICES ASSUME EvidenceAssumption, Init PROVE IInv OBVIOUS
<1>1. TypeOK
  <2>1. pass \in 0 .. Passes BY DEF Init, EvidenceAssumption
  <2>2. QED BY <2>1 DEF Init, TypeOK
<1>2. AtHand /\ Rescanned /\ MergeMatches BY DEF Init, AtHand, Rescanned, MergeMatches
<1>3. GateHolds /\ ScoreEarned /\ DowngradeRecorded /\ ExportFollows
  BY DEF Init, GateHolds, ScoreEarned, DowngradeRecorded, ExportFollows
<1>4. QED BY <1>1, <1>2, <1>3 DEF IInv

\* Whatever the models answer, and however many rescans there are, a verdict
\* fits the item it was given on until the log is reconciled with the chunks.
THEOREM EvidenceInvariant == Spec => []IInv
<1>1. Init => IInv BY IInvInit, EvidenceAssumption
<1>2. IInv /\ [Next]_vars => IInv' BY IInvStep, EvidenceAssumption
<1>3. QED BY <1>1, <1>2, PTL DEF Spec

\* Every variable keeps its type.
THEOREM EvidenceTypeCorrect == Spec => []TypeOK
<1>1. IInv => TypeOK BY DEF IInv
<1>2. QED BY <1>1, EvidenceInvariant, PTL

\* The gate before synthesis accepts every criterion that went through check,
\* merge and reconciliation.
THEOREM GateSafe == Spec => []GateHolds
<1>1. IInv => GateHolds BY DEF IInv
<1>2. QED BY <1>1, EvidenceInvariant, PTL

\* A score rests on an assessed item with a quote that was found and bound.
THEOREM ScoreSafe == Spec => []ScoreEarned
<1>1. IInv => ScoreEarned BY DEF IInv
<1>2. QED BY <1>1, EvidenceInvariant, PTL

\* No score is lowered without an adjustment that says so.
THEOREM DowngradeSafe == Spec => []DowngradeRecorded
<1>1. IInv => DowngradeRecorded BY DEF IInv
<1>2. QED BY <1>1, EvidenceInvariant, PTL

\* The exported check agrees with the reconciled log.
THEOREM ExportSafe == Spec => []ExportFollows
<1>1. IInv => ExportFollows BY DEF IInv
<1>2. QED BY <1>1, EvidenceInvariant, PTL

\* The adjustments and the exported check tell what the log tells.
THEOREM RecordSafe == Spec => []RecordFollows
<1>1. DowngradeRecorded /\ ExportFollows => RecordFollows BY DEF RecordFollows
<1>2. QED BY <1>1, DowngradeSafe, ExportSafe, PTL

\* A check that failed never takes the place of one that succeeded.
THEOREM CheckSafe == Spec => CheckStays
<1> DEFINE Stays == verdict # None /\ ~failed => ~failed'
<1>1. IInv /\ [Next]_vars => [Stays]_vars
  <2> SUFFICES ASSUME TypeOK, AtHand, [Next]_vars, verdict # None, ~failed, failed'
               PROVE  FALSE
    BY DEF IInv
  <2>1. pc \in {"verify", "adjudicate"}
    BY DEF Next, vars, Scan, Verify, VerifyFails, Adjudicate, Expand, Rescan, RescanFails,
           LeaveLoop, Apply, Reconcile
  <2>2. pass > 0 BY <2>1 DEF AtHand, TypeOK
  <2>3. ASSUME NEW v, NEW fails \in BOOLEAN, Adopt(v, fails) PROVE failed' = failed
    BY <2>2, <2>3 DEF Adopt, TypeOK
  <2>4. VerifyFails \/ Adjudicate
    BY <2>1 DEF Next, vars, Scan, Verify, Expand, Rescan, RescanFails, LeaveLoop, Apply,
                Reconcile
  <2>5. QED BY <2>3, <2>4 DEF VerifyFails, Adjudicate
<1>2. QED BY <1>1, EvidenceInvariant, PTL DEF Spec, CheckStays

-----------------------------------------------------------------------------
(* Shares and percentages *)

\* What the integer division yields.
LEMMA Division ==
  ASSUME NEW a \in Nat, NEW w \in Nat \ {0}
  PROVE  /\ a \div w \in Nat
         /\ w * (a \div w) <= a
         /\ a < w * (a \div w) + w
  OBVIOUS

\* A quotient is at least what it is tested for.
LEMMA QuotientAtLeast ==
  ASSUME NEW a \in Nat, NEW w \in Nat \ {0}, NEW q \in Nat
  PROVE  a \div w >= q <=> a >= w * q
<1> DEFINE d == a \div w
<1>1. d \in Nat /\ w * d <= a /\ a < w * d + w BY Division
<1> HIDE DEF d
<1>2. ASSUME d >= q PROVE a >= w * q
  <2>1. w * d >= w * q BY <1>1, <1>2
  <2>2. QED BY <1>1, <2>1
<1>3. ASSUME a >= w * q, ~(d >= q) PROVE FALSE
  <2>1. q >= d + 1 BY <1>1, <1>3
  <2>2. w * q >= w * (d + 1) BY <1>1, <2>1
  <2>3. w * (d + 1) = w * d + w BY <1>1
  <2>4. QED BY <1>1, <1>3, <2>2, <2>3
<1>4. d >= q <=> a >= w * q BY <1>2, <1>3
<1>5. QED BY <1>4 DEF d

\* So is a number that is rounded half up.
LEMMA RoundedAtLeast ==
  ASSUME NEW a \in Nat, NEW w \in Nat \ {0}, NEW q \in Nat
  PROVE  Rounded(a, w) \in Nat /\ (Rounded(a, w) >= q <=> 2 * a + w >= 2 * w * q)
<1>1. 2 * a + w \in Nat /\ 2 * w \in Nat \ {0} OBVIOUS
<1>2. QED BY <1>1, Division, QuotientAtLeast DEF Rounded

\* A percentage of two streams together is no more than that of the one of them
\* that has more.
LEMMA StreamAtLeast ==
  ASSUME NEW a \in Nat, NEW b \in Nat, NEW m \in Nat, NEW n \in Nat \ {0}, a <= m, b <= m
  PROVE  Percent(a + b, 2 * n) <= Percent(m, n)
<1> DEFINE q == Rounded(100 * (a + b), 2 * n)
           r == Rounded(100 * m, n)
<1>1. /\ 100 * (a + b) \in Nat /\ 100 * m \in Nat /\ 2 * n \in Nat \ {0} OBVIOUS
<1>2. q \in Nat /\ (q >= q <=> 2 * (100 * (a + b)) + 2 * n >= 2 * (2 * n) * q)
  <2>1. \A k \in Nat : q \in Nat /\ (q >= k <=> 2 * (100 * (a + b)) + 2 * n >= 2 * (2 * n) * k)
    BY <1>1, RoundedAtLeast
  <2>2. q \in Nat BY <2>1
  <2> HIDE DEF q
  <2>3. QED BY <2>1, <2>2
<1>3. \A k \in Nat : r \in Nat /\ (r >= k <=> 2 * (100 * m) + n >= 2 * n * k)
  BY <1>1, RoundedAtLeast
<1>4. Percent(a + b, 2 * n) = q /\ Percent(m, n) = r BY DEF Percent
<1> HIDE DEF q, r
<1>5. 2 * (100 * m) + n >= 2 * n * q
  <2>1. 2 * (2 * n) * q = 4 * (n * q) /\ 2 * n * q = 2 * (n * q) /\ n * q \in Nat BY <1>2
  <2>2. QED BY <1>2, <2>1
<1>6. r \in Nat /\ r >= q BY <1>2, <1>3, <1>5
<1>7. QED BY <1>2, <1>4, <1>6

\* Three tenths of the criteria are thirty percent of them.
LEMMA SharePercent ==
  ASSUME NEW a \in Nat, NEW b \in Nat, NEW n \in Nat \ {0}, a <= b, Share(a, 2 * n) >= 300
  PROVE  Percent(b, 2 * n) >= 30
<1>1. Rounded(1000 * a, 2 * n) >= 300 BY DEF Share
<1>2. 2 * (1000 * a) + 2 * n >= 2 * (2 * n) * 300
  <2>1. 1000 * a \in Nat /\ 2 * n \in Nat \ {0} /\ 300 \in Nat OBVIOUS
  <2>2. QED BY <1>1, <2>1, RoundedAtLeast
<1>3. 2 * (100 * b) + 2 * n >= 2 * (2 * n) * 30 BY <1>2
<1>4. Rounded(100 * b, 2 * n) >= 30
  <2>1. 100 * b \in Nat /\ 2 * n \in Nat \ {0} /\ 30 \in Nat OBVIOUS
  <2>2. QED BY <1>3, <2>1, RoundedAtLeast
<1>5. QED BY <1>4 DEF Percent

-----------------------------------------------------------------------------
(* Criteria that are counted *)

\* The pairs whose criterion of a stream is verified
Proven(l, s) == {p \in Pairs : Verified(s, l[p][s])}

\* The registry.
LEMMA Registry ==
  /\ Cardinality(Pairs) \in Nat \ {0}
  /\ IsFiniteSet(Criteria) /\ Cardinality(Criteria) = 2 * Cardinality(Pairs)
  /\ \A s \in Streams : /\ IsFiniteSet(Pairs \X {s})
                        /\ Cardinality(Pairs \X {s}) = Cardinality(Pairs)
<1>1. IsFiniteSet(Pairs) /\ Pairs # {} BY AssessmentAssumption
<1>2. Cardinality(Pairs) \in Nat \ {0} BY <1>1, FS_CardinalityType, FS_EmptySet
<1>3. \A x : IsFiniteSet({x}) /\ Cardinality({x}) = 1 BY FS_Singleton
<1>4. IsFiniteSet(Streams) /\ Cardinality(Streams) = 2
  <2>1. Streams = {"maturity"} \cup {"antipattern"} BY DEF Streams
  <2>2. IsFiniteSet({"maturity"}) /\ Cardinality({"maturity"}) = 1 BY <1>3
  <2>3. "antipattern" \notin {"maturity"} OBVIOUS
  <2>4. QED BY <2>1, <2>2, <2>3, FS_AddElement
<1>5. IsFiniteSet(Criteria) /\ Cardinality(Criteria) = 2 * Cardinality(Pairs)
  <2>1. IsFiniteSet(Criteria) /\ Cardinality(Criteria) = Cardinality(Pairs) * Cardinality(Streams)
    BY <1>1, <1>4, FS_Product DEF Criteria
  <2>2. QED BY <1>2, <1>4, <2>1
<1>6. \A s \in Streams : /\ IsFiniteSet(Pairs \X {s})
                         /\ Cardinality(Pairs \X {s}) = Cardinality(Pairs)
  <2>1. TAKE s \in Streams
  <2>2. /\ IsFiniteSet(Pairs \X {s})
        /\ Cardinality(Pairs \X {s}) = Cardinality(Pairs) * Cardinality({s})
    BY <1>1, <1>3, FS_Product
  <2>3. Cardinality({s}) = 1 BY <1>3
  <2>4. \A k \in Nat : k * 1 = k OBVIOUS
  <2>5. QED BY <1>2, <2>2, <2>3, <2>4
<1>7. QED BY <1>2, <1>5, <1>6

\* As many pairs as criteria of a stream.
LEMMA OfStream ==
  ASSUME NEW S \in SUBSET Pairs, NEW s \in Streams
  PROVE  /\ IsFiniteSet(S) /\ IsFiniteSet(S \X {s})
         /\ Cardinality(S \X {s}) = Cardinality(S)
         /\ Cardinality(S) \in Nat
<1>1. IsFiniteSet(S) BY AssessmentAssumption, FS_Subset
<1>2. IsFiniteSet({s}) /\ Cardinality({s}) = 1 BY FS_Singleton
<1>3. /\ IsFiniteSet(S \X {s})
      /\ Cardinality(S \X {s}) = Cardinality(S) * Cardinality({s})
  BY <1>1, <1>2, FS_Product
<1>4. Cardinality(S) \in Nat BY <1>1, FS_CardinalityType
<1>5. QED BY <1>1, <1>2, <1>3, <1>4

\* The density counts every verified criterion.
LEMMA DensityCounts ==
  ASSUME NEW l
  PROVE  Tally(l).density = Percent(Cardinality(Proven(l, "maturity"))
                                      + Cardinality(Proven(l, "antipattern")),
                                    2 * Cardinality(Pairs))
<1>1. \A s : {p \in {q \in Pairs : ~l[q][s].unresolved} : Verified(s, l[p][s])} = Proven(l, s)
  BY DEF Proven, Verified
<1>2. QED BY <1>1 DEF Tally

\* Criteria that are all verified are no more than it counts.
LEMMA VerifiedCounted ==
  ASSUME NEW l, NEW X \in SUBSET Criteria, \A c \in X : Verified(c[2], l[c[1]][c[2]])
  PROVE  /\ Cardinality(X) \in Nat
         /\ Cardinality(X) <= Cardinality(Proven(l, "maturity")) + Cardinality(Proven(l, "antipattern"))
<1> DEFINE M == Proven(l, "maturity") \X {"maturity"}
           A == Proven(l, "antipattern") \X {"antipattern"}
<1>1. X \subseteq M \cup A
  <2>1. SUFFICES ASSUME NEW c \in X PROVE c \in M \cup A OBVIOUS
  <2>2. PICK p \in Pairs : \E s \in Streams : c = <<p, s>> BY DEF Criteria
  <2>3. PICK s \in Streams : c = <<p, s>> BY <2>2
  <2>4. Verified(s, l[p][s]) BY <2>3
  <2>5. QED BY <2>3, <2>4 DEF Proven, Streams
<1>2. \A s \in Streams : Proven(l, s) \in SUBSET Pairs BY DEF Proven
<1>3. "maturity" \in Streams /\ "antipattern" \in Streams BY DEF Streams
<1>4. /\ IsFiniteSet(M) /\ Cardinality(M) = Cardinality(Proven(l, "maturity"))
      /\ IsFiniteSet(A) /\ Cardinality(A) = Cardinality(Proven(l, "antipattern"))
  BY <1>2, <1>3, OfStream
<1> HIDE DEF M, A
<1>5. IsFiniteSet(M \cup A) /\ Cardinality(M \cup A) <= Cardinality(M) + Cardinality(A)
  <2>1. /\ IsFiniteSet(M \cup A)
        /\ Cardinality(M \cup A) = Cardinality(M) + Cardinality(A) - Cardinality(M \cap A)
    BY <1>4, FS_Union
  <2>2. IsFiniteSet(M \cap A) BY <1>4, FS_Subset
  <2>3. Cardinality(M \cap A) \in Nat /\ Cardinality(M) \in Nat /\ Cardinality(A) \in Nat
    BY <1>4, <2>2, FS_CardinalityType
  <2>4. QED BY <2>1, <2>3
<1>6. IsFiniteSet(X) /\ Cardinality(X) <= Cardinality(M \cup A) BY <1>1, <1>5, FS_Subset
<1>7. /\ Cardinality(X) \in Nat /\ Cardinality(M \cup A) \in Nat
      /\ Cardinality(M) \in Nat /\ Cardinality(A) \in Nat
  BY <1>4, <1>5, <1>6, FS_CardinalityType
<1>8. QED BY <1>4, <1>5, <1>6, <1>7


\* A stream of the snapshot counts at least the criteria that are verified in it.
LEMMA StreamCovers ==
  ASSUME NEW l, NEW s \in Streams,
         \A c \in Criteria : Verified(c[2], l[c[1]][c[2]]) => Covered(c[2], l[c[1]][c[2]])
  PROVE  LET covered == {c \in Criteria : Covered(c[2], l[c[1]][c[2]])} \cap (Pairs \X {s})
         IN /\ Snapshot(l).streams[s] = Percent(Cardinality(covered), Cardinality(Pairs))
            /\ Cardinality(covered) \in Nat
            /\ Cardinality(Proven(l, s)) \in Nat
            /\ Cardinality(Proven(l, s)) <= Cardinality(covered)
<1> DEFINE all == {c \in Criteria : Covered(c[2], l[c[1]][c[2]])}
           covered == all \cap (Pairs \X {s})
<1>1. Snapshot(l).streams[s] = Percent(Cardinality(covered), Cardinality(Pairs))
  <2>1. Snapshot(l).streams[s] = Percent(Cardinality(covered), Cardinality(Pairs \X {s}))
    BY DEF Snapshot
  <2>2. QED BY <2>1, Registry
<1>2. Proven(l, s) \X {s} \subseteq covered
  <2>1. SUFFICES ASSUME NEW p \in Proven(l, s) PROVE <<p, s>> \in covered OBVIOUS
  <2>2. p \in Pairs /\ Verified(s, l[p][s]) BY DEF Proven
  <2>3. <<p, s>> \in Criteria BY <2>2 DEF Criteria
  <2>4. Covered(s, l[p][s]) BY <2>2, <2>3
  <2>5. QED BY <2>2, <2>3, <2>4
<1>3. IsFiniteSet(covered) BY Registry, FS_Subset
<1> HIDE DEF covered
<1>4. /\ IsFiniteSet(covered)
      /\ Cardinality(Proven(l, s) \X {s}) <= Cardinality(covered)
  BY <1>2, <1>3, FS_Subset
<1>5. /\ Cardinality(Proven(l, s) \X {s}) = Cardinality(Proven(l, s))
      /\ Cardinality(Proven(l, s)) \in Nat
  <2>1. Proven(l, s) \in SUBSET Pairs BY DEF Proven
  <2>2. QED BY <2>1, OfStream
<1>6. Cardinality(covered) \in Nat BY <1>3, FS_CardinalityType
<1>7. QED BY <1>1, <1>4, <1>5, <1>6 DEF covered

-----------------------------------------------------------------------------
(* What the services say of one item *)

\* What the words and the count of an anti-pattern infer.
LEMMA InferredFollows ==
  ASSUME EvidenceAssumption, NEW item \in AuditItem
  PROVE  /\ item.count # 0 => Inferred(item) \in Present
         /\ Inferred(item) = "tested_absent" =>
              item.count = 0 /\ item.absence = "tested_absent" /\ item.status = "supported"
         /\ Inferred(item) \in Absences
<1>1. item.count \in 0 .. 3 /\ item.absence \in Absences \cup {None} BY DEF AuditItem, Counts
<1>2. CASE item.count = 3
  BY <1>2 DEF Inferred, InferredAbsence, Present, Absences
<1>3. CASE item.count \in {1, 2}
  BY <1>3 DEF Inferred, InferredAbsence, Present, Absences
<1>4. CASE item.count = 0
  <2>1. CASE item.absence \in {"confirmed_present", "partially_present"}
    <3>1. Inferred(item) \in {"confirmed_present", "partially_present"}
      BY <1>4, <2>1 DEF Inferred, InferredAbsence
    <3>2. QED BY <1>4, <3>1 DEF Absences, Present
  <2>2. CASE item.absence \notin {"confirmed_present", "partially_present"}
    BY <1>4, <2>2 DEF Inferred, InferredAbsence, Absences
  <2>3. QED BY <2>1, <2>2
<1>5. QED BY <1>1, <1>2, <1>3, <1>4

\* A score is the count, and it takes an item that is resolved, assessed and not
\* refuted; a zero of an anti-pattern takes a tested absence.
LEMMA ScoreTakes ==
  ASSUME EvidenceAssumption, NEW s \in Streams, NEW item \in AuditItem, Score(s, item) # None
  PROVE  /\ ~item.unresolved /\ item.assessed
         /\ item.status \in {"supported", "weak"}
         /\ Score(s, item) = item.count /\ item.count \in Counts
         /\ s = "maturity" => item.bound \/ item.stray
         /\ s = "antipattern" /\ item.count = 0 => Inferred(item) = "tested_absent"
<1>1. /\ item.count \in Counts /\ item.unresolved \in BOOLEAN /\ item.status \in Statuses
      /\ item.assessed \in BOOLEAN
  BY DEF AuditItem
<1>2. ~item.unresolved BY DEF Score, Resolution
<1>3. CASE s = "maturity"
  <2>1. Score(s, item) = IF Governed(item) THEN item.count ELSE None
    BY <1>2, <1>3 DEF Score, Resolution
  <2>2. Governed(item) /\ Score(s, item) = item.count BY <2>1
  <2>3. QED BY <1>1, <1>2, <1>3, <2>2 DEF Governed, Statuses
<1>4. CASE s = "antipattern"
  <2> DEFINE absence == Inferred(item)
             Tests == /\ absence = "tested_absent" /\ item.count = 0
                      /\ item.assessed /\ item.status = "supported"
             Contradicts == \/ absence = "confirmed_present" /\ item.count # 3
                            \/ absence = "partially_present" /\ item.count \notin {1, 2}
  <2>1. Score(s, item) = IF Tests THEN 0
                         ELSE IF Contradicts THEN None
                         ELSE IF absence = "unknown_absent" \/ ~Governed(item) THEN None
                         ELSE item.count
    BY <1>2, <1>4 DEF Score, Resolution, Inferred
  <2>2. absence \in Absences BY InferredFollows
  <2>3. absence = "tested_absent" => item.count = 0 /\ item.status = "supported"
    BY InferredFollows
  <2> HIDE DEF absence
  <2>4. CASE Tests BY <1>1, <1>2, <1>4, <2>1, <2>4 DEF absence
  <2>5. CASE ~Tests
    <3>1. ~Contradicts /\ absence # "unknown_absent" /\ Governed(item) /\ Score(s, item) = item.count
      BY <2>1, <2>5
    <3>2. absence # "tested_absent" BY <2>3, <2>5, <3>1 DEF Governed
    <3>3. item.count # 0
      BY <2>2, <3>1, <3>2 DEF Absences
    <3>4. QED BY <1>1, <1>2, <1>4, <3>1, <3>3 DEF Governed, Statuses
  <2>6. QED BY <2>4, <2>5
<1>5. QED BY <1>3, <1>4 DEF Streams

\* What is resolved on direct evidence is verified, and a shortfall of it a finding.
LEMMA ResolvedVerified ==
  ASSUME EvidenceAssumption, NEW s \in Streams, NEW item \in AuditItem, Score(s, item) # None
  PROVE  /\ item.direct \/ (item.count = 0 /\ s = "antipattern") => Verified(s, item)
         /\ s = "antipattern" /\ Resolution(s, item, item.words).reason = "GOVERNED_TESTED_ABSENCE"
              => Verified(s, item)
         /\ Value(s, item) < 3 =>
              IF s = "maturity" THEN item.count < 3 ELSE Inferred(item) \in Present
         /\ s = "maturity" /\ Consistent(s, item) => RowAssessed(item)
<1>1. /\ ~item.unresolved /\ item.assessed
      /\ item.status \in {"supported", "weak"}
      /\ Score(s, item) = item.count /\ item.count \in Counts
      /\ s = "maturity" => item.bound \/ item.stray
      /\ s = "antipattern" /\ item.count = 0 => Inferred(item) = "tested_absent"
  BY ScoreTakes
<1>2. item.direct \/ (item.count = 0 /\ s = "antipattern") => Verified(s, item)
  BY <1>1 DEF Verified
<1>3. ASSUME s = "antipattern", Resolution(s, item, item.words).reason = "GOVERNED_TESTED_ABSENCE"
      PROVE  Verified(s, item)
  <2>1. Inferred(item) = "tested_absent" BY <1>1, <1>3 DEF Resolution, Inferred
  <2>2. QED BY <1>1, <1>3, <2>1 DEF Verified
<1>4. ASSUME Value(s, item) < 3
      PROVE  IF s = "maturity" THEN item.count < 3 ELSE Inferred(item) \in Present
  <2>1. CASE s = "maturity" BY <1>1, <1>4, <2>1 DEF Value
  <2>2. CASE s # "maturity"
    <3>1. 3 - item.count < 3 BY <1>1, <1>4, <2>2 DEF Value
    <3>2. item.count # 0 BY <1>1, <3>1 DEF Counts
    <3>3. QED BY <2>2, <3>2, InferredFollows
  <2>3. QED BY <2>1, <2>2
<1>5. ASSUME s = "maturity", Consistent(s, item) PROVE RowAssessed(item)
  BY <1>1, <1>5 DEF Consistent, RowAssessed
<1>6. QED BY <1>2, <1>3, <1>4, <1>5

\* What is verified is covered.
LEMMA VerifiedCovered ==
  ASSUME EvidenceAssumption, NEW s \in Streams, NEW item \in AuditItem, Consistent(s, item),
         Verified(s, item)
  PROVE  Covered(s, item)
<1>1. CASE item.assessed /\ item.direct BY <1>1 DEF Consistent, Covered
<1>2. CASE /\ s = "antipattern"
           /\ item.status \notin {"unsupported", "missing"}
           /\ Inferred(item) = "tested_absent"
  BY <1>2, InferredFollows DEF Covered
<1>3. QED BY <1>1, <1>2 DEF Verified

-----------------------------------------------------------------------------
(* What they say of a log *)

\* A log: items of the criteria, as the code leaves them
LogFits(l) ==
  /\ l \in [Pairs -> [Streams -> AuditItem]]
  /\ \A c \in Criteria : Consistent(c[2], l[c[1]][c[2]])

\* The criterion behind a pair and a stream.
LEMMA LogItem ==
  ASSUME NEW l, LogFits(l), NEW c \in Criteria
  PROVE  /\ c[1] \in Pairs /\ c[2] \in Streams
         /\ l[c[1]][c[2]] \in AuditItem
         /\ Consistent(c[2], l[c[1]][c[2]])
<1>1. c[1] \in Pairs /\ c[2] \in Streams BY DEF Criteria
<1>2. QED BY <1>1 DEF LogFits

\* The answers of the services nest, whatever the log.
LEMMA LogNests ==
  ASSUME EvidenceAssumption, NEW l, LogFits(l), NEW ready \in BOOLEAN
  PROVE  LET computed == Metrics(l, ready)
             Item(c) == l[c[1]][c[2]]
         IN /\ \A c \in Resolved(l) :
                 /\ Item(c).direct \/ (Item(c).count = 0 /\ c[2] = "antipattern")
                      => Verified(c[2], Item(c))
                 /\ c[2] = "maturity" => RowAssessed(Item(c))
                 /\ /\ Item(c).direct /\ DomainOf[c[1]] \notin computed.silent
                    /\ Value(c[2], Item(c)) < 3
                    => c \in ActiveCriteria(l, computed.silent)
            /\ \A c \in Criteria : Verified(c[2], Item(c)) => Covered(c[2], Item(c))
            /\ \E s \in Streams : computed.tally.density <= Snapshot(l).streams[s]
            /\ /\ computed.sufficient
               /\ \A c \in Resolved(l) : Item(c).bound => Item(c).direct
               => computed.tally.density >= 30
<1> DEFINE Item(c) == l[c[1]][c[2]]
           computed == Metrics(l, ready)
           n == Cardinality(Pairs)
           m == Cardinality(Proven(l, "maturity"))
           a == Cardinality(Proven(l, "antipattern"))
<1>1. /\ computed.tally = Tally(l) /\ computed.silent = Silent(Resolved(l))
      /\ computed.sufficient = Sufficient(l, Resolved(l), Maturity(l).overall, ready)
  BY DEF Metrics
<1>2. ASSUME NEW c \in Resolved(l)
      PROVE  /\ c \in Criteria /\ c[2] \in Streams /\ Item(c) \in AuditItem
             /\ Consistent(c[2], Item(c)) /\ Score(c[2], Item(c)) # None
  BY LogItem DEF Resolved
<1>3. ASSUME NEW c \in Resolved(l)
      PROVE  /\ Item(c).direct \/ (Item(c).count = 0 /\ c[2] = "antipattern")
                  => Verified(c[2], Item(c))
             /\ c[2] = "maturity" => RowAssessed(Item(c))
             /\ /\ Item(c).direct /\ DomainOf[c[1]] \notin computed.silent
                /\ Value(c[2], Item(c)) < 3
                => c \in ActiveCriteria(l, computed.silent)
  <2>1. /\ Item(c).direct \/ (Item(c).count = 0 /\ c[2] = "antipattern")
             => Verified(c[2], Item(c))
        /\ Value(c[2], Item(c)) < 3 =>
             IF c[2] = "maturity" THEN Item(c).count < 3 ELSE Inferred(Item(c)) \in Present
        /\ c[2] = "maturity" => RowAssessed(Item(c))
    BY <1>2, ResolvedVerified
  <2>2. Item(c).assessed BY <1>2, ScoreTakes
  <2> HIDE DEF computed
  <2>3. ASSUME Item(c).direct, DomainOf[c[1]] \notin computed.silent, Value(c[2], Item(c)) < 3
        PROVE  c \in ActiveCriteria(l, computed.silent)
    <3>1. c \in Findings(l) BY <1>2, <2>1, <2>2, <2>3 DEF Findings
    <3>2. QED BY <2>3, <3>1 DEF ActiveCriteria
  <2>4. QED BY <2>1, <2>3
<1>4. ASSUME NEW c \in Criteria, Verified(c[2], Item(c)) PROVE Covered(c[2], Item(c))
  BY <1>4, LogItem, VerifiedCovered
<1>5. n \in Nat \ {0} BY Registry
<1>6. computed.tally.density = Percent(m + a, 2 * n) BY <1>1, DensityCounts
<1>7. \E s \in Streams : computed.tally.density <= Snapshot(l).streams[s]
  <2> DEFINE k(s) == Cardinality({c \in Criteria : Covered(c[2], l[c[1]][c[2]])} \cap (Pairs \X {s}))
  <2>1. "maturity" \in Streams /\ "antipattern" \in Streams BY DEF Streams
  <2>2. \A s \in Streams :
          /\ Snapshot(l).streams[s] = Percent(k(s), n) /\ k(s) \in Nat
          /\ Cardinality(Proven(l, s)) \in Nat /\ Cardinality(Proven(l, s)) <= k(s)
    BY <1>4, StreamCovers
  <2> HIDE DEF k, n, computed
  <2>3. /\ m \in Nat /\ m <= k("maturity") /\ k("maturity") \in Nat
        /\ a \in Nat /\ a <= k("antipattern") /\ k("antipattern") \in Nat
    BY <2>1, <2>2
  <2> HIDE DEF m, a
  <2>4. PICK s \in Streams : m <= k(s) /\ a <= k(s) BY <2>1, <2>3
  <2>5. k(s) \in Nat /\ Snapshot(l).streams[s] = Percent(k(s), n) BY <2>2
  <2>6. Percent(m + a, 2 * n) <= Percent(k(s), n) BY <1>5, <2>3, <2>4, <2>5, StreamAtLeast
  <2>7. QED BY <1>6, <2>5, <2>6
<1>8. ASSUME computed.sufficient, \A c \in Resolved(l) : Item(c).bound => Item(c).direct
      PROVE  computed.tally.density >= 30
  <2>1. /\ Share(Cardinality(Resolved(l)), Cardinality(Criteria)) >= 300
        /\ \A c \in Resolved(l) :
             \/ Item(c).bound
             \/ Resolution(c[2], Item(c), Item(c).words).reason = "GOVERNED_TESTED_ABSENCE"
    BY <1>1, <1>8 DEF Sufficient
  <2>2. ASSUME NEW c \in Resolved(l) PROVE Verified(c[2], Item(c))
    <3>1. CASE Item(c).bound BY <1>3, <1>8, <3>1
    <3>2. CASE Resolution(c[2], Item(c), Item(c).words).reason = "GOVERNED_TESTED_ABSENCE"
      <4>1. c[2] = "antipattern"
        <5>1. CASE c[2] = "maturity" BY <3>2, <5>1 DEF Resolution
        <5>2. QED BY <1>2, <5>1 DEF Streams
      <4>2. QED BY <1>2, <3>2, <4>1, ResolvedVerified
    <3>3. QED BY <2>1, <3>1, <3>2
  <2>3. Resolved(l) \in SUBSET Criteria BY DEF Resolved
  <2>4. Cardinality(Resolved(l)) \in Nat /\ Cardinality(Resolved(l)) <= m + a
    BY <2>2, <2>3, VerifiedCounted
  <2>5. m \in Nat /\ a \in Nat
    <3>1. \A s \in Streams : Proven(l, s) \in SUBSET Pairs BY DEF Proven
    <3>2. QED BY <3>1, OfStream DEF Streams
  <2>6. Share(Cardinality(Resolved(l)), 2 * n) >= 300 BY <2>1, Registry
  <2> HIDE DEF m, a, n, computed
  <2>7. Percent(m + a, 2 * n) >= 30
    <3>1. m + a \in Nat BY <2>5
    <3>2. QED BY <1>5, <2>4, <2>6, <3>1, SharePercent
  <2>8. QED BY <1>6, <2>7
<1>9. QED BY <1>3, <1>4, <1>7, <1>8

\* What was not verified is not acted on, whatever the log.
LEMMA LogSafe ==
  ASSUME EvidenceAssumption, NEW l, LogFits(l), NEW ready \in BOOLEAN,
         NEW c \in Criteria, l[c[1]][c[2]].doubt = "verification"
  PROVE  LET computed == Metrics(l, ready)
             item == l[c[1]][c[2]]
         IN /\ computed.band = 1
            /\ c \notin Resolved(l)
            /\ c \notin ActiveCriteria(l, computed.silent)
            /\ ~Verified(c[2], item) /\ ~RowAssessed(item)
<1> DEFINE item == l[c[1]][c[2]]
           computed == Metrics(l, ready)
<1>1. item.unresolved = TRUE
  <2>1. Consistent(c[2], item) /\ item \in AuditItem BY LogItem
  <2>2. item.unresolved \in BOOLEAN BY <2>1 DEF AuditItem
  <2>3. QED BY <2>1, <2>2 DEF Consistent
<1>2. ~Verified(c[2], item) /\ ~RowAssessed(item) BY <1>1 DEF Verified, RowAssessed
<1>3. c \notin Resolved(l) BY <1>1 DEF Resolved, Score, Resolution
<1>4. c \notin ActiveCriteria(l, computed.silent) BY <1>2 DEF ActiveCriteria, Findings
<1>5. computed.band = 1
  <2>1. ~Sufficient(l, Resolved(l), Maturity(l).overall, ready) BY <1>1 DEF Sufficient
  <2>2. computed.band = Band(Sufficient(l, Resolved(l), Maturity(l).overall, ready),
                             Maturity(l).overall)
    BY DEF Metrics
  <2>3. QED BY <2>1, <2>2 DEF Band
<1>6. QED BY <1>2, <1>3, <1>4, <1>5

-----------------------------------------------------------------------------
(* The invariant of the assessment *)

\* Until the gate lets it through, the criterion is where CriterionEvidence has
\* it, and a verdict that was not reached has failed the check of its domain.
DoubtFails == verdict # None /\ verdict.unresolved # "no" => failed

Collected ==
  pc \notin {"assemble", "calculate", "plan", "strategy"} =>
    /\ IInv /\ DoubtFails
    /\ pc = "gate" => entry # None /\ verdict # None

\* Its item, once sanitized, is what the code leaves of any answer.
Followed ==
  pc = "assemble" =>
    /\ followed \in AuditItem /\ Consistent(stream, followed) /\ ~followed.stray
    /\ check = [failed |-> check.failed, lowered |-> check.lowered]
    /\ check.failed \in BOOLEAN
    /\ followed.doubt # "no" => check.failed

\* The log is that of the criteria, the one that was followed has no stray quote,
\* and a doubt about any of them has failed the check.
Logged ==
  pc \in {"calculate", "plan", "strategy"} =>
    /\ LogFits(log) /\ ~log[Self][stream].stray
    /\ \A c \in Criteria : At(c).doubt # "no" => check.failed

\* What was computed is of this log.
Computed ==
  pc \in {"plan", "strategy"} =>
    /\ \E ready \in BOOLEAN : metrics = Metrics(log, ready)
    /\ check.failed => bracket = 1

Planned ==
  pc = "strategy" =>
    /\ active = ActiveCriteria(log, metrics.silent)
    /\ check.failed => audit = 1

AInv == stream \in Streams /\ Collected /\ Followed /\ Logged /\ Computed /\ Planned

\* A new batch of a criterion has nothing after its gate yet.
LEMMA AInvInit == AssessmentInit => AInv
<1> SUFFICES ASSUME AssessmentInit PROVE AInv OBVIOUS
<1>1. IInv BY IInvInit, EvidenceAssumption DEF AssessmentInit
<1>2. pc = "scan" /\ verdict = None /\ stream \in Streams BY DEF AssessmentInit, Init
<1>3. QED BY <1>1, <1>2 DEF AInv, Collected, DoubtFails, Followed, Logged, Computed, Planned

\* A batch goes on as CriterionEvidence says, and the step that leaves the
\* verdict undecided fails the check.
LEMMA BatchKeeps == AInv /\ Batch => AInv'
<1> SUFFICES ASSUME AInv, Batch PROVE AInv' OBVIOUS
<1>1. Next /\ UNCHANGED assessmentVars BY DEF Batch
<1>2. pc \notin {"assemble", "calculate", "plan", "strategy"}
  BY <1>1 DEF Next, Scan, Verify, VerifyFails, Adjudicate, Expand, Rescan, RescanFails,
              LeaveLoop, Apply, Reconcile
<1>3. IInv /\ DoubtFails BY <1>2 DEF AInv, Collected
<1>4. IInv' BY <1>1, <1>3, IInvStep, EvidenceAssumption
<1>5. TypeOK /\ TypeOK' BY <1>3, <1>4 DEF IInv
<1>6. DoubtFails'
  <2>1. ASSUME NEW v, NEW fails \in BOOLEAN, Adopt(v, fails), v.unresolved # "no" => fails
        PROVE  DoubtFails'
    BY <1>3, <2>1 DEF Adopt, DoubtFails
  <2>2. CASE VerifyFails BY <2>1, <2>2 DEF VerifyFails
  <2>3. CASE Adjudicate
    <3>1. PICK decision \in {"partially_present", "unknown_absent", None}, fails \in BOOLEAN :
            /\ NeedsAdjudication(newVerdict) /\ decision = None => fails
            /\ Adopt(IF NeedsAdjudication(newVerdict) THEN Adjudicated(newVerdict, decision)
                     ELSE newVerdict, fails)
      BY <2>3 DEF Adjudicate
    <3>2. newVerdict \in Verdicts /\ newVerdict.unresolved = "no"
      BY <1>3, <2>3 DEF IInv, AtHand, Adjudicate, Fits
    <3>3. None \notin {"partially_present", "unknown_absent"}
      BY EvidenceAssumption DEF EvidenceAssumption, Absences
    <3> DEFINE v == IF NeedsAdjudication(newVerdict) THEN Adjudicated(newVerdict, decision)
                    ELSE newVerdict
    <3>4. v.unresolved # "no" => fails
      <4>1. decision # None => Adjudicated(newVerdict, decision).unresolved = newVerdict.unresolved
        BY <3>2, <3>3 DEF Adjudicated, Verdicts
      <4>2. QED BY <3>1, <3>2, <4>1
    <3> HIDE DEF v
    <3>5. Adopt(v, fails) BY <3>1 DEF v
    <3>6. QED BY <2>1, <3>4, <3>5
  <2>4. CASE Reconcile
    <3>1. verdict \in Verdicts
      BY <1>3, <2>4 DEF IInv, AtHand, Reconcile, Fits
    <3>2. verdict'.unresolved = verdict.unresolved /\ failed' = failed
      BY <2>4, <3>1 DEF Reconcile, ReconciledVerdict, Verdicts
    <3>3. verdict # None BY <3>1, EvidenceAssumption DEF EvidenceAssumption
    <3>4. QED BY <1>3, <3>2, <3>3 DEF DoubtFails
  <2>5. CASE UNCHANGED <<verdict, failed>> BY <1>3, <2>5 DEF DoubtFails
  <2>6. QED
    BY <1>1, <2>2, <2>3, <2>4, <2>5
       DEF Next, Scan, Verify, Expand, Rescan, RescanFails, LeaveLoop, Apply
<1>7. pc' \notin {"assemble", "calculate", "plan", "strategy"} /\ stream' \in Streams
  BY <1>5 DEF TypeOK
<1>8. ASSUME pc' = "gate" PROVE entry' # None /\ verdict' # None
  <2>1. CASE Reconcile
    <3>1. entry' \in Entries /\ verdict' \in Verdicts
      BY <1>3, <2>1, ReconcileFits, EvidenceAssumption
    <3>2. QED BY <3>1, EvidenceAssumption DEF EvidenceAssumption
  <2>2. CASE ~Reconcile
    BY <1>1, <1>8, <2>2
       DEF Next, Scan, Verify, VerifyFails, Adjudicate, Adopt, Expand, Rescan, RescanFails,
           LeaveLoop, Apply
  <2>3. QED BY <2>1, <2>2
<1>9. QED BY <1>4, <1>6, <1>7, <1>8 DEF AInv, Collected, Followed, Logged, Computed, Planned

\* What the gate lets through is sanitized into such an item.
LEMMA AcceptKeeps == AInv /\ Accept => AInv'
<1> SUFFICES ASSUME AInv, Accept PROVE AInv' OBVIOUS
<1>1. /\ pc = "gate" /\ pc' = "assemble" /\ stream' = stream /\ stream \in Streams
      /\ GateAccepts(entry, verdict)
      /\ check' = [failed |-> failed,
                   lowered |-> /\ adjustment # None /\ ~entry.unresolved
                               /\ adjustment.verified < adjustment.original]
  BY DEF Accept, AInv
<1>2. IInv /\ DoubtFails /\ entry # None /\ verdict # None BY <1>1 DEF AInv, Collected
<1>3. entry \in Entries /\ verdict \in Verdicts /\ verdict # None /\ failed \in BOOLEAN
  BY <1>2 DEF IInv, TypeOK
<1>4. PICK words \in Words, direct \in BOOLEAN :
        /\ direct => entry.bound
        /\ followed' = Sanitized(stream, entry, verdict.unresolved, words, direct)
  BY DEF Accept
<1> DEFINE silent == IF stream = "antipattern" /\ entry.absence # None
                     THEN entry.absence = "unknown_absent" ELSE ~entry.assessed
<1>5. silent \in BOOLEAN BY <1>3 DEF Entries
<1>6. stream = "maturity" => (silent <=> ~entry.assessed) BY <1>3 DEF Entries
<1>7. followed' = [count |-> entry.count, assessed |-> entry.assessed,
                   supported |-> entry.supported, bound |-> entry.bound,
                   stray |-> entry.stray, direct |-> direct, status |-> entry.status,
                   absence |-> entry.absence, unresolved |-> entry.unresolved,
                   silent |-> silent, words |-> words, doubt |-> verdict.unresolved]
  BY <1>4 DEF Sanitized
<1> HIDE DEF silent
<1>8. followed' \in AuditItem
  BY <1>3, <1>4, <1>5, <1>7 DEF AuditItem, Entries, Verdicts
<1>9. verdict.unresolved = "verification" => entry.unresolved
  BY <1>1 DEF GateAccepts, UnresolvedSafe
<1>10. Consistent(stream, followed') BY <1>4, <1>6, <1>7, <1>9 DEF Consistent
<1>11. check'.failed = failed /\ check' = [failed |-> check'.failed, lowered |-> check'.lowered]
  BY <1>1
<1>12. followed'.doubt # "no" => check'.failed BY <1>2, <1>3, <1>7, <1>11 DEF DoubtFails
<1>13. ~followed'.stray BY <1>1, <1>7 DEF GateAccepts, ProvenanceValid
<1>14. Followed' BY <1>1, <1>3, <1>8, <1>10, <1>11, <1>12, <1>13 DEF Followed
<1>15. QED BY <1>1, <1>14 DEF AInv, Collected, Logged, Computed, Planned

\* A company's log takes the item in.
LEMMA AssembleKeeps == AInv /\ Assemble => AInv'
<1> SUFFICES ASSUME AInv, Assemble PROVE AInv' OBVIOUS
<1>1. /\ pc = "assemble" /\ pc' = "calculate" /\ stream' = stream /\ stream \in Streams
      /\ followed \in AuditItem /\ Consistent(stream, followed) /\ ~followed.stray
      /\ check = [failed |-> check.failed, lowered |-> check.lowered]
      /\ check.failed \in BOOLEAN
      /\ followed.doubt # "no" => check.failed
  BY DEF Assemble, AInv, Followed, Locals
<1>2. PICK company \in Companies :
        /\ log' = [company EXCEPT ![Self][stream] = followed]
        /\ check' = [check EXCEPT !.failed =
                       AnyFailed([company EXCEPT ![Self][stream] = followed], @)]
  BY DEF Assemble
<1>3. /\ company \in [Pairs -> [Streams -> AuditItem]] /\ Self \in Pairs
      /\ \A p \in Pairs, s \in Streams : Consistent(s, company[p][s])
  BY AssessmentAssumption
<1>4. log' \in [Pairs -> [Streams -> AuditItem]] BY <1>1, <1>2, <1>3
<1>5. ASSUME NEW p \in Pairs, NEW s \in Streams
      PROVE  log'[p][s] = IF p = Self /\ s = stream THEN followed ELSE company[p][s]
  BY <1>2, <1>3
<1>6. ASSUME NEW c \in Criteria PROVE Consistent(c[2], log'[c[1]][c[2]])
  <2>1. c[1] \in Pairs /\ c[2] \in Streams BY DEF Criteria
  <2>2. QED BY <1>1, <1>3, <1>5, <2>1
<1>7. check'.failed = AnyFailed(log', check.failed) BY <1>1, <1>2
<1>8. ASSUME NEW c \in Criteria, log'[c[1]][c[2]].doubt # "no" PROVE check'.failed
  <2>1. c[1] \in Pairs /\ c[2] \in Streams /\ c = <<c[1], c[2]>> BY DEF Criteria
  <2>2. CASE c = <<Self, stream>>
    <3>1. check.failed BY <1>1, <1>5, <1>8, <2>1, <2>2
    <3>2. QED BY <1>7, <3>1 DEF AnyFailed
  <2>3. CASE c # <<Self, stream>> BY <1>7, <1>8, <2>3 DEF AnyFailed
  <2>4. QED BY <2>2, <2>3
<1>9. log'[Self][stream] = followed /\ ~followed.stray BY <1>1, <1>3, <1>5
<1>10. Logged' BY <1>1, <1>4, <1>6, <1>8, <1>9 DEF Logged, LogFits, At
<1>11. QED BY <1>1, <1>10 DEF AInv, Collected, Followed, Computed, Planned

\* The computations read the log and leave it.
LEMMA CalculateKeeps == AInv /\ Calculate => AInv'
<1> SUFFICES ASSUME AInv, Calculate PROVE AInv' OBVIOUS
<1>1. /\ pc = "calculate" /\ pc' = "plan" /\ stream' = stream /\ log' = log /\ check' = check
      /\ stream \in Streams
  BY DEF Calculate, Locals, AInv
<1>2. PICK ready \in BOOLEAN :
        /\ metrics' = Metrics(log, ready)
        /\ bracket' = IF check.failed THEN 1 ELSE Bracket(Metrics(log, ready).tally)
  BY DEF Calculate
<1>3. Logged' BY <1>1 DEF AInv, Logged, At
<1>4. Computed' BY <1>1, <1>2 DEF Computed
<1>5. QED BY <1>1, <1>3, <1>4 DEF AInv, Collected, Followed, Planned

\* The activated criteria and the gate's verdict on the audit are of the log and
\* of its metrics.
LEMMA PlanKeeps == AInv /\ Plan => AInv'
<1> SUFFICES ASSUME AInv, Plan PROVE AInv' OBVIOUS
<1>1. /\ pc = "plan" /\ pc' = "strategy" /\ stream' = stream /\ log' = log /\ check' = check
      /\ metrics' = metrics /\ bracket' = bracket
      /\ active' = ActiveCriteria(log, metrics.silent)
      /\ stream \in Streams
  BY DEF Plan, Locals, AInv
<1>2. PICK unrouted \in BOOLEAN : audit' = AuditVerdict(log, metrics.tally, check, unrouted)
  BY DEF Plan
<1>3. Logged' BY <1>1 DEF AInv, Logged, At
<1>4. Computed' BY <1>1 DEF AInv, Computed
<1>5. Planned' BY <1>1, <1>2 DEF Planned, AuditVerdict
<1>6. QED BY <1>1, <1>3, <1>4, <1>5 DEF AInv, Collected, Followed

\* Every log of a run is of items that the code left, and a doubt about one of
\* them has failed its check.
THEOREM AssessmentInvariant == AssessmentSpec => []AInv
<1>1. AInv /\ UNCHANGED <<vars, assessmentVars>> => AInv'
  BY DEF AInv, Collected, DoubtFails, Followed, Logged, Computed, Planned, At, vars,
         assessmentVars, IInv, TypeOK, AtHand, Rescanned, MergeMatches,
         GateHolds, ScoreEarned, DowngradeRecorded, ExportFollows
<1>2. AInv /\ [AssessmentNext]_<<vars, assessmentVars>> => AInv'
  BY <1>1, BatchKeeps, AcceptKeeps, AssembleKeeps, CalculateKeeps, PlanKeeps DEF AssessmentNext
<1>3. QED BY <1>2, AInvInit, PTL DEF AssessmentSpec

\* The services that ask whether a criterion has evidence do not contradict each
\* other, for any registry and whatever the other criteria are.
THEOREM CoverageSafe == AssessmentSpec => []CoverageNests
<1>1. AInv => CoverageNests
  <2> SUFFICES ASSUME AInv, pc = "strategy" PROVE CoverageNests BY DEF CoverageNests
  <2>1. LogFits(log) /\ active = ActiveCriteria(log, metrics.silent)
    BY DEF AInv, Logged, Planned
  <2>2. PICK ready \in BOOLEAN : metrics = Metrics(log, ready) BY DEF AInv, Computed
  <2>3. QED BY <2>1, <2>2, LogNests, EvidenceAssumption DEF CoverageNests, At
<1>2. QED BY <1>1, AssessmentInvariant, PTL

\* One verdict that was not reached keeps the report from being acted on, and an
\* item without a verification takes no score, proves nothing and activates nothing.
THEOREM UnverifiedSafe == AssessmentSpec => []UnverifiedNotActionable
<1>1. AInv => UnverifiedNotActionable
  <2> SUFFICES ASSUME AInv, pc = "strategy", NEW c \in Criteria
               PROVE  /\ At(c).doubt # "no" => bracket = 1 /\ audit = 1
                      /\ At(c).doubt = "verification" =>
                           /\ metrics.band = 1
                           /\ c \notin Resolved(log) \cup active
                           /\ ~Verified(c[2], At(c)) /\ (c[2] = "maturity" => ~RowAssessed(At(c)))
    BY DEF UnverifiedNotActionable
  <2>1. LogFits(log) /\ active = ActiveCriteria(log, metrics.silent)
    BY DEF AInv, Logged, Planned
  <2>2. PICK ready \in BOOLEAN : metrics = Metrics(log, ready) BY DEF AInv, Computed
  <2>3. At(c).doubt # "no" => bracket = 1 /\ audit = 1
    BY DEF AInv, Logged, Computed, Planned
  <2>4. ASSUME At(c).doubt = "verification"
        PROVE  /\ metrics.band = 1
               /\ c \notin Resolved(log) \cup active
               /\ ~Verified(c[2], At(c)) /\ ~RowAssessed(At(c))
    BY <2>1, <2>2, <2>4, LogSafe, EvidenceAssumption DEF At
  <2>5. QED BY <2>3, <2>4
<1>2. QED BY <1>1, AssessmentInvariant, PTL

\* A score is earned in every assessment: it rests on an assessed item with a
\* quote that was found and bound.
THEOREM AssessmentScoreSafe == AssessmentSpec => []ScoreEarned
<1>1. AInv => ScoreEarned BY DEF AInv, Collected, IInv, ScoreEarned
<1>2. QED BY <1>1, AssessmentInvariant, PTL

\* The adjustments and the exported check follow the log in every assessment.
THEOREM AssessmentRecordSafe == AssessmentSpec => []RecordFollows
<1>1. AInv => RecordFollows
  BY DEF AInv, Collected, IInv, RecordFollows, DowngradeRecorded, ExportFollows
<1>2. QED BY <1>1, AssessmentInvariant, PTL

-----------------------------------------------------------------------------
(* Quotients, percentages and roots that rise *)

\* A quotient does not fall with what is divided.
LEMMA QuotientRises ==
  ASSUME NEW a \in Nat, NEW b \in Nat, NEW w \in Nat \ {0}, a <= b
  PROVE  a \div w \in Nat /\ a \div w <= b \div w
<1>1. a \div w \in Nat /\ b \div w \in Nat BY Division
<1>2. a >= w * (a \div w) BY <1>1, QuotientAtLeast
<1>3. b >= w * (a \div w) BY <1>1, <1>2
<1>4. QED BY <1>1, <1>3, QuotientAtLeast

\* Neither does what is rounded ...
LEMMA RoundedRises ==
  ASSUME NEW a \in Nat, NEW b \in Nat, NEW w \in Nat \ {0}, a <= b
  PROVE  Rounded(a, w) \in Nat /\ Rounded(b, w) \in Nat /\ Rounded(a, w) <= Rounded(b, w)
<1>1. 2 * a + w \in Nat /\ 2 * b + w \in Nat /\ 2 * w \in Nat \ {0} /\ 2 * a + w <= 2 * b + w
  OBVIOUS
<1>2. QED BY <1>1, QuotientRises, Division DEF Rounded

\* ... and it does not rise with what it is divided by.
LEMMA RoundedFalls ==
  ASSUME NEW a \in Nat, NEW w \in Nat \ {0}, NEW v \in Nat \ {0}, w <= v
  PROVE  Rounded(a, v) <= Rounded(a, w)
<1> DEFINE q == Rounded(a, v)
           r == Rounded(a, w)
<1>1. \A k \in Nat : q \in Nat /\ (q >= k <=> 2 * a + v >= 2 * v * k) BY RoundedAtLeast
<1>2. \A k \in Nat : r \in Nat /\ (r >= k <=> 2 * a + w >= 2 * w * k) BY RoundedAtLeast
<1> HIDE DEF q, r
<1>3. q \in Nat /\ r \in Nat /\ 2 * a + v >= 2 * v * q BY <1>1, <1>2
<1>4. CASE q = 0
  <2>1. r \in Nat BY <1>3
  <2>2. QED BY <1>4, <2>1 DEF q, r
<1>5. CASE q # 0
  <2> DEFINE k == 2 * q - 1
  <2>1. k \in Nat /\ 2 * q = k + 1 BY <1>3, <1>5
  <2> HIDE DEF k
  <2>2. 2 * v * q = v * k + v /\ 2 * w * q = w * k + w BY <1>3, <2>1
  <2>3. w * k <= v * k /\ w * k \in Nat /\ v * k \in Nat BY <2>1
  <2>4. 2 * a + w >= 2 * w * q BY <1>3, <2>2, <2>3
  <2>5. r >= q <=> 2 * a + w >= 2 * w * q BY <1>2, <1>3
  <2>6. q <= r BY <1>3, <2>4, <2>5
  <2>7. QED BY <2>6 DEF q, r
<1>6. QED BY <1>4, <1>5 DEF q, r

\* A percentage does not fall with the part.
LEMMA PercentRises ==
  ASSUME NEW a \in Nat, NEW b \in Nat, NEW w \in Nat, a <= b
  PROVE  Percent(a, w) \in Nat /\ Percent(b, w) \in Nat /\ Percent(a, w) <= Percent(b, w)
<1>1. CASE w = 0 BY <1>1 DEF Percent
<1>2. CASE w # 0
  <2>1. 100 * a \in Nat /\ 100 * b \in Nat /\ 100 * a <= 100 * b OBVIOUS
  <2>2. QED BY <1>2, <2>1, RoundedRises DEF Percent
<1>3. QED BY <1>1, <1>2

\* It does not rise with the whole.
LEMMA PercentFalls ==
  ASSUME NEW a \in Nat, NEW w \in Nat, NEW v \in Nat, w <= v, w = 0 => a = 0
  PROVE  Percent(a, v) <= Percent(a, w)
<1>1. CASE w # 0
  <2>1. 100 * a \in Nat OBVIOUS
  <2>2. QED BY <1>1, <2>1, RoundedFalls DEF Percent
<1>2. CASE w = 0
  <2>1. Percent(a, w) = 0 BY <1>2 DEF Percent
  <2>2. CASE v = 0 BY <1>2, <2>1, <2>2
  <2>3. CASE v # 0
    <3>1. Rounded(0, v) \in Nat /\ (Rounded(0, v) >= 1 <=> 2 * 0 + v >= 2 * v * 1)
      BY <2>3, RoundedAtLeast
    <3>2. Rounded(0, v) = 0 BY <2>3, <3>1
    <3>3. QED BY <1>2, <2>1, <2>3, <3>2 DEF Percent
  <2>4. QED BY <2>2, <2>3
<1>3. QED BY <1>1, <1>2

\* The values of the places of a root
FirstPlace == 32768
PlaceValue(k) == IF k = 0 THEN FirstPlace ELSE Digits[k]

\* Every place is worth half of the one before, and the last is worth one.
LEMMA PlacesHalve ==
  /\ PlaceValue(0) = FirstPlace /\ PlaceValue(15) = 1
  /\ \A k \in 0 .. 15 : PlaceValue(k) \in Nat
  /\ \A k \in 0 .. 14 : PlaceValue(k) = 2 * PlaceValue(k + 1) /\ PlaceValue(k + 1) = Digits[k + 1]
<1>1. \A k \in 0 .. 14 :
        k \in {0, 1, 2, 3, 4, 5, 6, 7, 8, 9, 10, 11, 12, 13, 14}
  OBVIOUS
<1>2. /\ Digits[1] = 16384 /\ Digits[2] = 8192 /\ Digits[3] = 4096 /\ Digits[4] = 2048
      /\ Digits[5] = 1024 /\ Digits[6] = 512 /\ Digits[7] = 256 /\ Digits[8] = 128
      /\ Digits[9] = 64 /\ Digits[10] = 32 /\ Digits[11] = 16 /\ Digits[12] = 8
      /\ Digits[13] = 4 /\ Digits[14] = 2 /\ Digits[15] = 1
  BY SMT DEF Digits
<1>3. FirstPlace = 32768 BY SMT DEF FirstPlace
<1>4. \A k \in 1 .. 15 : PlaceValue(k) = Digits[k] BY DEF PlaceValue
<1>5. PlaceValue(0) = FirstPlace BY DEF PlaceValue
<1>6. \A k \in 0 .. 15 : PlaceValue(k) \in Nat
  <2>1. \A k \in 0 .. 15 :
          k \in {0, 1, 2, 3, 4, 5, 6, 7, 8, 9, 10, 11, 12, 13, 14, 15}
    OBVIOUS
  <2>2. QED BY <1>2, <1>3, <1>4, <1>5, <2>1, SMT
<1>7. \A k \in 0 .. 14 : k + 1 \in 1 .. 15 /\ (k = 0 \/ k \in 1 .. 15) OBVIOUS
<1>8. ASSUME NEW k \in 0 .. 14 PROVE PlaceValue(k) = 2 * PlaceValue(k + 1)
  <2>1. PlaceValue(k + 1) = Digits[k + 1] BY <1>4, <1>7
  <2>2. CASE k = 0 BY <1>2, <1>3, <1>5, <2>1, <2>2, SMT
  <2>3. CASE k # 0
    <3>1. PlaceValue(k) = Digits[k] BY <1>4, <1>7, <2>3
    <3>2. QED BY <1>1, <1>2, <2>1, <2>3, <3>1, SMT
  <2>4. QED BY <2>2, <2>3
<1>9. PlaceValue(15) = 1 BY <1>2, <1>4, SMT
<1>10. QED BY <1>4, <1>5, <1>6, <1>7, <1>8, <1>9

\* Numbers that have a root of fifteen places
RootLimit == 1073741824

\* A root is a number.
LEMMA RootType ==
  ASSUME NEW n \in Nat
  PROVE  /\ Root(n) \in Nat
         /\ \E root : /\ root[0] = 0 /\ root[15] = Root(n)
                      /\ \A k \in 0 .. 15 : root[k] \in Nat
                      /\ \A k \in 1 .. 15 : root[k] = WithDigit(n, root[k - 1], Digits[k])
<1> DEFINE G == [k \in 1 .. 15 |-> [r \in Nat |-> WithDigit(n, r, Digits[k])]]
           Plain(f) == f = [k \in 0 .. 15 |-> IF k = 0 THEN 0
                                              ELSE WithDigit(n, f[k - 1], Digits[k])]
           loop == CHOOSE f : Plain(f)
           U == {k \in 0 .. 15 : loop[k] \in Nat}
<1>1. \A k \in 1 .. 15 : Digits[k] \in Nat
  <2>1. \A k \in 1 .. 15 : k - 1 \in 0 .. 14 /\ (k - 1) + 1 = k /\ k \in 0 .. 15 OBVIOUS
  <2>2. QED BY <2>1, PlacesHalve
<1>2. \A r \in Nat : \A k \in 1 .. 15 : WithDigit(n, r, Digits[k]) \in Nat
  BY <1>1 DEF WithDigit
<1>3. Root(n) = loop[15] BY DEF Root
<1>4. PICK f \in [0 .. 15 -> Nat] : Unfolds(f, 15, 0, G)
  <2>1. G \in [1 .. 15 -> [Nat -> Nat]] BY <1>2
  <2> HIDE DEF G
  <2>2. QED BY <2>1, Recursion
<1>5. Plain(f)
  <2>1. f[0] = 0 /\ \A k \in 1 .. 15 : f[k] = G[k][f[k - 1]]
    <3> HIDE DEF G
    <3>1. QED BY <1>4 DEF Unfolds
  <2>2. \A k \in 1 .. 15 : f[k - 1] \in Nat BY <1>4
  <2>3. \A k \in 1 .. 15 : f[k] = WithDigit(n, f[k - 1], Digits[k]) BY <2>1, <2>2
  <2> HIDE DEF G
  <2>4. \A k \in 0 .. 15 : f[k] = IF k = 0 THEN 0 ELSE WithDigit(n, f[k - 1], Digits[k])
    BY <2>1, <2>3
  <2>5. QED BY <1>4, <2>4
<1>6. Plain(loop)
  <2> HIDE DEF Plain
  <2>1. QED BY <1>5
<1>7. loop[0] = 0 /\ \A k \in 1 .. 15 : loop[k] = WithDigit(n, loop[k - 1], Digits[k])
  <2> HIDE DEF loop
  <2>1. QED BY <1>6
<1> HIDE DEF loop, Plain, G
<1>8. 0 \in U BY <1>7
<1>9. ASSUME NEW k \in U, k < 15 PROVE k + 1 \in U
  <2>1. k + 1 \in 1 .. 15 /\ k + 1 \in 0 .. 15 /\ (k + 1) - 1 = k /\ loop[k] \in Nat BY <1>9
  <2>2. QED BY <1>2, <1>7, <2>1
<1>10. U = 0 .. 15
  <2>1. U \in SUBSET (0 .. 15) OBVIOUS
  <2> HIDE DEF U
  <2>2. QED BY <1>8, <1>9, <2>1, StepsUpTo
<1>11. \A k \in 0 .. 15 : loop[k] \in Nat BY <1>10
<1>12. QED BY <1>3, <1>7, <1>11

\* The root of a number below 2^30 is the integer part of its square root.
LEMMA RootIs ==
  ASSUME NEW n \in Nat, n < RootLimit
  PROVE  Root(n) \in Nat /\ Root(n) * Root(n) <= n /\ n < (Root(n) + 1) * (Root(n) + 1)
<1>1. PICK root : /\ root[0] = 0 /\ root[15] = Root(n)
                  /\ \A k \in 0 .. 15 : root[k] \in Nat
                  /\ \A k \in 1 .. 15 : root[k] = WithDigit(n, root[k - 1], Digits[k])
  BY RootType
<1> DEFINE Near(r, w) == r \in Nat /\ r * r <= n /\ n < (r + w) * (r + w)
           U == {k \in 0 .. 15 : Near(root[k], PlaceValue(k))}
<1>2. 0 \in U
  <2>1. Near(0, FirstPlace) BY SMT DEF FirstPlace, RootLimit
  <2> HIDE DEF Near
  <2>2. QED BY <1>1, <2>1, PlacesHalve
<1>3. ASSUME NEW k \in U, k < 15 PROVE k + 1 \in U
  <2> DEFINE r == root[k]
             w == Digits[k + 1]
             next == root[k + 1]
  <2>1. k \in 0 .. 14 /\ k + 1 \in 1 .. 15 /\ k + 1 \in 0 .. 15 /\ (k + 1) - 1 = k BY <1>3
  <2>2. /\ w \in Nat /\ PlaceValue(k) = 2 * w /\ PlaceValue(k + 1) = w
        /\ Near(r, PlaceValue(k)) /\ next = WithDigit(n, r, w)
    <3> HIDE DEF Near
    <3>1. QED BY <1>1, <2>1, PlacesHalve
  <2> HIDE DEF r, w, next
  <2>3. r \in Nat /\ r * r <= n /\ n < (r + 2 * w) * (r + 2 * w) BY <2>2
  <2>4. CASE (r + w) * (r + w) <= n
    <3>1. next = r + w /\ (r + w) + w = r + 2 * w /\ r + w \in Nat
      BY <2>2, <2>3, <2>4 DEF WithDigit
    <3>2. Near(next, w) BY <2>3, <2>4, <3>1
    <3> HIDE DEF Near
    <3>3. QED BY <2>1, <2>2, <3>2 DEF next
  <2>5. CASE ~((r + w) * (r + w) <= n)
    <3>1. next = r BY <2>2, <2>5 DEF WithDigit
    <3>2. (r + w) * (r + w) \in Nat BY <2>2, <2>3
    <3>3. Near(next, w) BY <2>3, <2>5, <3>1, <3>2
    <3> HIDE DEF Near
    <3>4. QED BY <2>1, <2>2, <3>3 DEF next
  <2>6. QED BY <2>4, <2>5
<1>4. U = 0 .. 15
  <2>1. U \in SUBSET (0 .. 15) OBVIOUS
  <2> HIDE DEF U
  <2>2. QED BY <1>2, <1>3, <2>1, StepsUpTo
<1>5. Near(root[15], 1)
  <2> HIDE DEF Near
  <2>1. QED BY <1>4, PlacesHalve
<1>6. QED BY <1>1, <1>5

\* A root does not fall with its number.
LEMMA RootRises ==
  ASSUME NEW a \in Nat, NEW b \in Nat, a <= b, b < RootLimit
  PROVE  Root(a) \in Nat /\ Root(b) \in Nat /\ Root(a) <= Root(b)
<1> DEFINE r == Root(a)
           s == Root(b)
<1>1. /\ r \in Nat /\ r * r <= a /\ s \in Nat /\ b < (s + 1) * (s + 1)
  <2>1. RootLimit \in Nat BY SMT DEF RootLimit
  <2>2. a < RootLimit BY <2>1
  <2>3. QED BY <2>2, RootIs
<1> HIDE DEF r, s
<1>2. ASSUME r >= s + 1 PROVE FALSE
  <2>1. r * r >= (s + 1) * (s + 1) BY <1>1, <1>2
  <2>2. r * r \in Nat /\ (s + 1) * (s + 1) \in Nat BY <1>1
  <2>3. QED BY <1>1, <2>1, <2>2
<1>3. r <= s BY <1>1, <1>2
<1>4. QED BY <1>1, <1>3 DEF r, s


-----------------------------------------------------------------------------
(* What one step better changes in an item *)

Refuted == {"unsupported", "missing"}

\* Whether the burden of an anti-pattern is counted
Eligible(item) ==
  ~item.unresolved /\ Verified("antipattern", item) /\ Inferred(item) # "unknown_absent"

\* Whether the sufficiency accepts what a resolution of the item rests on
Rests(s, item) ==
  item.bound \/ Resolution(s, item, item.words).reason = "GOVERNED_TESTED_ABSENCE"

\* What every service says of an item that did not become worse.
Kept(s, old, new) ==
  /\ new.unresolved <=> old.unresolved
  /\ old.count \in Counts /\ new.count \in Counts
  /\ Score(s, new) = None <=> Score(s, old) = None
  /\ Rests(s, new) <=> Rests(s, old)
  /\ Verified(s, old) => Verified(s, new)
  /\ Covered(s, new) <=> Covered(s, old)
  /\ new.status \in Refuted <=> old.status \in Refuted
  /\ ~new.bound /\ ~new.stray <=> ~old.bound /\ ~old.stray
  /\ ~old.bound /\ ~old.stray /\ new.count > 0 => old.count > 0

Valued(s, old, new) ==
  /\ Score(s, old) # None =>
       Value(s, old) \in Counts /\ Value(s, new) \in Counts /\ Value(s, old) <= Value(s, new)
  /\ Weight(old) \in Nat /\ Weight(new) \in Nat /\ Weight(old) <= Weight(new)

Capable(old, new) ==
  /\ old.count <= new.count
  /\ Verified("maturity", new) <=> Verified("maturity", old)
  /\ RowAssessed(new) <=> RowAssessed(old)

Burdened(old, new) ==
  /\ Inferred(new) \in Present => Inferred(old) \in Present
  /\ Inferred(new) = "confirmed_present" => Inferred(old) = "confirmed_present"
  /\ Inferred(new) = "unknown_absent" <=> Inferred(old) = "unknown_absent"
  /\ Burden(old) \in Nat /\ Burden(new) \in Nat /\ Burden(new) <= Burden(old)
  /\ Eligible(old) => Eligible(new)
  /\ Eligible(new) /\ ~Eligible(old) => Burden(new) = 0

NoWorse(s, old, new) ==
  /\ Kept(s, old, new) /\ Valued(s, old, new)
  /\ s = "maturity" => Capable(old, new)
  /\ s = "antipattern" => Burdened(old, new)

\* An item that stays is not worse.
LEMMA StaysNoWorse ==
  ASSUME EvidenceAssumption, NEW s \in Streams, NEW item \in AuditItem
  PROVE  NoWorse(s, item, item)
<1>1. item.count \in Counts /\ item.status \in Statuses BY DEF AuditItem
<1>2. Weight(item) \in Nat BY DEF Weight
<1>3. Burden(item) \in Nat BY <1>1 DEF Burden, Counts, Higher
<1>4. ASSUME Score(s, item) # None PROVE Value(s, item) \in Counts
  <2>1. Score(s, item) \in 0 .. 3 BY <1>4, ScoreTakes DEF Counts
  <2>2. CASE s = "maturity" BY <2>1, <2>2 DEF Value, Counts
  <2>3. CASE s # "maturity"
    <3>1. Value(s, item) = 3 - Score(s, item) BY <1>4, <2>3 DEF Value
    <3>2. QED BY <2>1, <3>1 DEF Counts
  <2>4. QED BY <2>2, <2>3
<1>5. \A n \in Nat : n <= n OBVIOUS
<1>6. Counts \subseteq Nat BY DEF Counts
<1>7. Valued(s, item, item) BY <1>2, <1>4, <1>5, <1>6 DEF Valued
<1>8. Kept(s, item, item) BY <1>1 DEF Kept
<1>9. Capable(item, item) BY <1>1, <1>5, <1>6 DEF Capable
<1>10. Burdened(item, item) BY <1>3, <1>5 DEF Burdened
<1>11. QED BY <1>7, <1>8, <1>9, <1>10 DEF NoWorse

\* Neither is a capability that is counted one higher ...
LEMMA CapabilityNoWorse ==
  ASSUME EvidenceAssumption, NEW item \in AuditItem, ~item.stray, Value("maturity", item) \in 0 .. 2
  PROVE  NoWorse("maturity", item, Better("maturity", item))
<1> DEFINE new == Better("maturity", item)
<1>1. Score("maturity", item) # None
  BY AssessmentAssumption DEF Value
<1>2. /\ ~item.unresolved /\ item.assessed /\ item.status \in {"supported", "weak"}
      /\ Score("maturity", item) = item.count /\ item.count \in Counts
      /\ item.bound \/ item.stray
  BY <1>1, ScoreTakes DEF Streams
<1>3. Value("maturity", item) = item.count /\ item.count \in 0 .. 2 BY <1>2 DEF Value
<1>4. /\ new.count = item.count + 1 /\ new.bound = item.bound /\ new.stray = item.stray
      /\ new.assessed = item.assessed /\ new.direct = item.direct /\ new.silent = item.silent
      /\ new.status = item.status /\ new.unresolved = item.unresolved
  BY DEF Better, AuditItem
<1> HIDE DEF new
<1>5. new.count \in Counts /\ item.count <= new.count BY <1>3, <1>4 DEF Counts
<1>6. Score("maturity", new) = new.count
  BY <1>2, <1>4 DEF Score, Resolution, Governed
<1>7. Score("maturity", new) # None /\ Value("maturity", new) = new.count
  BY <1>5, <1>6, EvidenceAssumption, AssessmentAssumption DEF Value, Counts
<1>8. Weight(new) = Weight(item) /\ Weight(item) \in Nat BY <1>4 DEF Weight
<1>9. Valued("maturity", item, new) BY <1>2, <1>3, <1>5, <1>7, <1>8 DEF Valued
<1>10. Verified("maturity", new) <=> Verified("maturity", item) BY <1>4 DEF Verified
<1>11. Rests("maturity", new) /\ Rests("maturity", item) BY <1>2, <1>4 DEF Rests
<1>12. Covered("maturity", new) /\ Covered("maturity", item) BY <1>2, <1>4 DEF Covered
<1>13. Kept("maturity", item, new)
  BY <1>1, <1>2, <1>4, <1>5, <1>7, <1>10, <1>11, <1>12 DEF Kept
<1>14. RowAssessed(new) <=> RowAssessed(item) BY <1>2, <1>4 DEF RowAssessed
<1>15. Capable(item, new) BY <1>5, <1>10, <1>14 DEF Capable
<1>16. NoWorse("maturity", item, new) BY <1>9, <1>13, <1>15 DEF NoWorse
<1>17. QED BY <1>16 DEF new

\* ... or an anti-pattern that is counted one lower.
LEMMA AntipatternNoWorse ==
  ASSUME EvidenceAssumption, NEW item \in AuditItem, ~item.stray,
         Value("antipattern", item) \in 0 .. 2
  PROVE  NoWorse("antipattern", item, Better("antipattern", item))
<1> DEFINE new == Better("antipattern", item)
<1>1. Score("antipattern", item) # None
  BY AssessmentAssumption DEF Value
<1>2. /\ ~item.unresolved /\ item.assessed /\ item.status \in {"supported", "weak"}
      /\ Score("antipattern", item) = item.count /\ item.count \in Counts
  BY <1>1, ScoreTakes DEF Streams
<1>3. Value("antipattern", item) = 3 - item.count /\ item.count \in 1 .. 3
  <2>1. Value("antipattern", item) = 3 - item.count BY <1>1, <1>2 DEF Value
  <2>2. QED BY <1>2, <2>1 DEF Counts
<1>4. /\ new.count = item.count - 1 /\ new.bound = item.bound /\ new.stray = item.stray
      /\ new.assessed = item.assessed /\ new.direct = item.direct /\ new.silent = item.silent
      /\ new.unresolved = item.unresolved /\ new.words = "neither"
      /\ new.status = (IF item.count = 1 THEN "supported" ELSE item.status)
      /\ new.absence = (IF item.count = 1 THEN "tested_absent" ELSE "partially_present")
  BY DEF Better, AuditItem
<1>5. Inferred(item) = IF item.count = 3 THEN "confirmed_present" ELSE "partially_present"
  BY <1>3 DEF Inferred, InferredAbsence
<1>6. Governed(item)
  BY <1>1, <1>2, <1>3, <1>5 DEF Score, Resolution, Inferred
<1>7. item.bound BY <1>6 DEF Governed
<1> HIDE DEF new
<1>8. new.count \in 0 .. 2 /\ new.count <= item.count BY <1>3, <1>4
<1>9. Inferred(new) = IF item.count = 1 THEN "tested_absent" ELSE "partially_present"
  <2>1. CASE item.count = 1
    BY <1>4, <2>1 DEF Inferred, InferredAbsence
  <2>2. CASE item.count # 1
    <3>1. new.count \in {1, 2} BY <1>3, <1>4, <2>2
    <3>2. QED BY <2>2, <3>1 DEF Inferred, InferredAbsence
  <2>3. QED BY <2>1, <2>2
<1>10. new.status \in {"supported", "weak"} /\ new.assessed /\ Governed(new)
  BY <1>2, <1>4, <1>7 DEF Governed
<1>11. Score("antipattern", new) = new.count
  <2>1. CASE item.count = 1
    <3>1. new.count = 0 /\ new.status = "supported" /\ Inferred(new) = "tested_absent"
      BY <1>4, <1>9, <2>1
    <3>2. QED BY <1>2, <1>4, <1>10, <3>1 DEF Score, Resolution, Inferred
  <2>2. CASE item.count # 1
    <3>1. new.count \in {1, 2} /\ Inferred(new) = "partially_present"
      BY <1>3, <1>4, <1>9, <2>2
    <3>2. QED BY <1>2, <1>4, <1>10, <3>1 DEF Score, Resolution, Inferred
  <2>3. QED BY <2>1, <2>2
<1>12. Score("antipattern", new) # None /\ Value("antipattern", new) = 3 - new.count
  BY <1>8, <1>11, AssessmentAssumption DEF Value
<1>13. Weight(item) \in Nat /\ Weight(new) \in Nat /\ Weight(item) <= Weight(new)
  BY <1>2, <1>4 DEF Weight
<1>14. Valued("antipattern", item, new) BY <1>3, <1>8, <1>12, <1>13 DEF Valued, Counts
<1>15. Verified("antipattern", item) => Verified("antipattern", new)
  BY <1>4, <1>5, <1>2 DEF Verified
<1>16. Rests("antipattern", new) /\ Rests("antipattern", item) BY <1>4, <1>7 DEF Rests
<1>17. Covered("antipattern", new) /\ Covered("antipattern", item) BY <1>4, <1>7 DEF Covered
<1>18. Kept("antipattern", item, new)
  BY <1>1, <1>2, <1>4, <1>7, <1>8, <1>10, <1>12, <1>15, <1>16, <1>17 DEF Kept, Counts, Refuted
<1>19. Burden(item) \in Nat /\ Burden(new) \in Nat /\ Burden(new) <= Burden(item)
  <2>1. Burden(item) = item.count BY <1>3, <1>5 DEF Burden, Higher
  <2>2. Burden(new) = new.count BY <1>3, <1>4, <1>9 DEF Burden, Higher
  <2>3. QED BY <1>3, <1>8, <2>1, <2>2
<1>20. Eligible(item) => Eligible(new)
  BY <1>4, <1>9, <1>15 DEF Eligible
<1>21. Eligible(new) /\ ~Eligible(item) => Burden(new) = 0
  <2>1. CASE item.count = 1
    <3>1. new.count = 0 BY <1>4, <2>1
    <3>2. QED BY <1>9, <2>1, <3>1 DEF Burden
  <2>2. CASE item.count # 1
    BY <1>2, <1>4, <1>5, <1>9, <2>2 DEF Eligible, Verified
  <2>3. QED BY <2>1, <2>2
<1>22. Burdened(item, new)
  BY <1>3, <1>5, <1>9, <1>19, <1>20, <1>21 DEF Burdened, Present
<1>23. NoWorse("antipattern", item, new) BY <1>14, <1>18, <1>22 DEF NoWorse
<1>24. QED BY <1>23 DEF new

-----------------------------------------------------------------------------
(* What it changes in a log *)

\* A log no item of which is worse, and whose items are the same outside a pair
Rises(l, b) ==
  /\ \A p \in Pairs, s \in Streams : NoWorse(s, l[p][s], b[p][s])
  /\ \A p \in Pairs \ {Self} : b[p] = l[p]

\* The log in which one criterion did better is such a log.
LEMMA BetterRises ==
  ASSUME EvidenceAssumption, NEW l, LogFits(l), NEW s \in Streams,
         ~l[Self][s].stray, Value(s, l[Self][s]) \in 0 .. 2
  PROVE  Rises(l, [l EXCEPT ![Self][s] = Better(s, @)])
<1> DEFINE b == [l EXCEPT ![Self][s] = Better(s, @)]
<1>1. l \in [Pairs -> [Streams -> AuditItem]] /\ Self \in Pairs
  BY AssessmentAssumption DEF LogFits
<1>2. /\ b[Self][s] = Better(s, l[Self][s])
      /\ \A t \in Streams \ {s} : b[Self][t] = l[Self][t]
      /\ \A p \in Pairs \ {Self} : b[p] = l[p]
  BY <1>1
<1> HIDE DEF b
<1>3. NoWorse(s, l[Self][s], b[Self][s])
  <2>1. CASE s = "maturity" BY <1>1, <1>2, <2>1, CapabilityNoWorse
  <2>2. CASE s = "antipattern" BY <1>1, <1>2, <2>2, AntipatternNoWorse
  <2>3. QED BY <2>1, <2>2 DEF Streams
<1>4. ASSUME NEW p \in Pairs, NEW t \in Streams PROVE NoWorse(t, l[p][t], b[p][t])
  <2>1. CASE p = Self /\ t = s BY <1>3, <2>1
  <2>2. CASE ~(p = Self /\ t = s)
    <3>1. b[p][t] = l[p][t] /\ l[p][t] \in AuditItem BY <1>1, <1>2, <2>2
    <3>2. QED BY <3>1, StaysNoWorse
  <2>3. QED BY <2>1, <2>2
<1>5. Rises(l, b) BY <1>2, <1>4 DEF Rises
<1>6. QED BY <1>5 DEF b

\* A product does not fall with its factor.
LEMMA ProductRises ==
  ASSUME NEW k \in Nat, NEW a \in Nat, NEW b \in Nat, a <= b
  PROVE  k * a \in Nat /\ k * b \in Nat /\ k * a <= k * b
  OBVIOUS

\* A value that is there stays there, and does not fall.
SameOrMore(old, new) ==
  \/ old = None /\ new = None
  \/ old \in Counts /\ new \in Counts /\ old <= new

\* The value of a pair does not fall with those of its members.
LEMMA PairValueRises ==
  ASSUME NEW p \in Pairs, NEW c, NEW c2, NEW h, NEW h2, SameOrMore(c, c2), SameOrMore(h, h2)
  PROVE  /\ PairValue(p, c, h) \in Nat /\ PairValue(p, c2, h2) \in Nat
         /\ PairValue(p, c, h) <= PairValue(p, c2, h2)
<1>1. \A n \in Counts : n # None BY AssessmentAssumption DEF Counts
<1>2. Unit \in Nat /\ Unit \div 2 \in Nat /\ 9 * Unit * Unit < RootLimit /\ RootLimit \in Nat
  BY SMT DEF Unit, RootLimit
<1>3. 300 \in Nat \ {0} /\ 3 \in Nat \ {0} OBVIOUS
<1>4. CASE c # None /\ h # None
  <2> DEFINE u == 100 - Strength[p]
             v == Strength[p]
             half == Unit \div 2
             r == Root(c * h * Unit * Unit)
             r2 == Root(c2 * h2 * Unit * Unit)
             x == u * (c + h) * half + v * r
             x2 == u * (c2 + h2) * half + v * r2
  <2>1. /\ c \in 0 .. 3 /\ c2 \in 0 .. 3 /\ h \in 0 .. 3 /\ h2 \in 0 .. 3
        /\ c <= c2 /\ h <= h2 /\ c2 # None /\ h2 # None
    BY <1>1, <1>4 DEF SameOrMore, Counts
  <2>2. PairValue(p, c, h) = x \div 300 /\ PairValue(p, c2, h2) = x2 \div 300
    BY <1>4, <2>1 DEF PairValue
  <2>3. u \in Nat /\ v \in Nat /\ half \in Nat BY <1>2, AssessmentAssumption
  <2>4. r \in Nat /\ r2 \in Nat /\ r <= r2
    <3> DEFINE m == c * h
               m2 == c2 * h2
               w == Unit * Unit
    <3>1. m \in Nat /\ m2 \in Nat /\ m <= m2 /\ m2 <= 9
      <4>1. c * h \in Nat /\ c * h2 \in Nat /\ c2 * h2 \in Nat BY <2>1
      <4>2. c * h <= c * h2 BY <2>1, ProductRises
      <4>3. h2 * c <= h2 * c2 BY <2>1, ProductRises
      <4>4. c2 * h2 <= 3 * h2 BY <2>1
      <4>5. QED BY <2>1, <4>1, <4>2, <4>3, <4>4
    <3>2. w \in Nat /\ 9 * w < RootLimit BY <1>2, SMT DEF Unit, RootLimit
    <3>3. c * h * Unit * Unit = m * w /\ c2 * h2 * Unit * Unit = m2 * w
      <4>1. c * h \in Nat /\ c2 * h2 \in Nat BY <3>1
      <4>2. \A i \in Nat : i * Unit * Unit = i * (Unit * Unit) BY <1>2, SMT
      <4>3. QED BY <4>1, <4>2
    <3> HIDE DEF m, m2, w
    <3>4. w * m \in Nat /\ w * m2 \in Nat /\ w * m <= w * m2 BY <3>1, <3>2, ProductRises
    <3>5. w * m2 <= w * 9 BY <3>1, <3>2, ProductRises
    <3>6. m * w = w * m /\ m2 * w = w * m2 /\ w * 9 = 9 * w BY <3>1, <3>2
    <3>7. w * m2 < RootLimit BY <1>2, <3>2, <3>4, <3>5, <3>6
    <3>8. QED BY <3>3, <3>4, <3>6, <3>7, RootRises
  <2> HIDE DEF u, v, half, r, r2
  <2>5. u * (c + h) \in Nat /\ u * (c2 + h2) \in Nat /\ u * (c + h) <= u * (c2 + h2)
    <3>1. c + h \in Nat /\ c2 + h2 \in Nat /\ c + h <= c2 + h2 BY <2>1
    <3>2. QED BY <2>3, <3>1, ProductRises
  <2>6. /\ u * (c + h) * half \in Nat /\ u * (c2 + h2) * half \in Nat
        /\ u * (c + h) * half <= u * (c2 + h2) * half
    <3> DEFINE i == u * (c + h)
               j == u * (c2 + h2)
    <3>1. i \in Nat /\ j \in Nat /\ i <= j BY <2>5
    <3> HIDE DEF i, j
    <3>2. i * half = half * i /\ j * half = half * j BY <2>3, <3>1
    <3>3. i * half \in Nat /\ j * half \in Nat /\ i * half <= j * half
      BY <2>3, <3>1, <3>2, ProductRises
    <3>4. QED BY <3>3 DEF i, j
  <2>7. v * r \in Nat /\ v * r2 \in Nat /\ v * r <= v * r2 BY <2>3, <2>4, ProductRises
  <2>8. x \in Nat /\ x2 \in Nat /\ x <= x2 BY <2>6, <2>7
  <2> HIDE DEF x, x2
  <2>9. QED BY <1>3, <2>2, <2>8, QuotientRises, Division
<1>5. CASE c # None /\ h = None
  <2>1. /\ c \in Nat /\ c2 \in Nat /\ c <= c2 /\ c2 # None /\ h2 = None
    BY <1>1, <1>5 DEF SameOrMore, Counts
  <2>2. PairValue(p, c, h) = (c * Unit) \div 3 /\ PairValue(p, c2, h2) = (c2 * Unit) \div 3
    BY <1>5, <2>1 DEF PairValue
  <2>3. c * Unit = Unit * c /\ c2 * Unit = Unit * c2 BY <1>2, <2>1, SMT
  <2>4. c * Unit \in Nat /\ c2 * Unit \in Nat /\ c * Unit <= c2 * Unit
    BY <1>2, <2>1, <2>3, ProductRises
  <2>5. QED BY <1>3, <2>2, <2>4, QuotientRises, Division
<1>6. CASE c = None /\ h # None
  <2>1. /\ h \in Nat /\ h2 \in Nat /\ h <= h2 /\ h2 # None /\ c2 = None
    BY <1>1, <1>6 DEF SameOrMore, Counts
  <2>2. PairValue(p, c, h) = (h * Unit) \div 3 /\ PairValue(p, c2, h2) = (h2 * Unit) \div 3
    BY <1>6, <2>1 DEF PairValue
  <2>3. h * Unit = Unit * h /\ h2 * Unit = Unit * h2 BY <1>2, <2>1, SMT
  <2>4. h * Unit \in Nat /\ h2 * Unit \in Nat /\ h * Unit <= h2 * Unit
    BY <1>2, <2>1, <2>3, ProductRises
  <2>5. QED BY <1>3, <2>2, <2>4, QuotientRises, Division
<1>7. CASE c = None /\ h = None
  <2>1. c2 = None /\ h2 = None BY <1>1, <1>7 DEF SameOrMore
  <2>2. PairValue(p, c, h) = 0 /\ PairValue(p, c2, h2) = 0 BY <1>7, <2>1 DEF PairValue
  <2>3. QED BY <2>2
<1>8. QED BY <1>4, <1>5, <1>6, <1>7

\* The result of a pair keeps its credit, and its value does not fall.
LEMMA PairRises ==
  ASSUME NEW l, NEW b, Rises(l, b), NEW p \in Pairs
  PROVE  /\ PairResult(p, l[p]).credit \in 0 .. 2
         /\ PairResult(p, b[p]).credit = PairResult(p, l[p]).credit
         /\ PairResult(p, l[p]).value \in Nat /\ PairResult(p, b[p]).value \in Nat
         /\ PairResult(p, l[p]).value <= PairResult(p, b[p]).value
<1>1. ASSUME NEW s \in Streams PROVE SameOrMore(Value(s, l[p][s]), Value(s, b[p][s]))
  <2>1. Kept(s, l[p][s], b[p][s]) /\ Valued(s, l[p][s], b[p][s]) BY DEF Rises, NoWorse
  <2>2. CASE Score(s, l[p][s]) = None
    <3>1. Score(s, b[p][s]) = None BY <2>1, <2>2 DEF Kept
    <3>2. QED BY <2>2, <3>1 DEF Value, SameOrMore
  <2>3. CASE Score(s, l[p][s]) # None BY <2>1, <2>3 DEF Valued, SameOrMore
  <2>4. QED BY <2>2, <2>3
<1> DEFINE c == Value("maturity", l[p].maturity)
           c2 == Value("maturity", b[p].maturity)
           h == Value("antipattern", l[p].antipattern)
           h2 == Value("antipattern", b[p].antipattern)
           Credit(v) == IF v # None THEN 1 ELSE 0
<1>2. SameOrMore(c, c2) /\ SameOrMore(h, h2) BY <1>1 DEF Streams
<1>3. /\ PairResult(p, l[p]).credit = Credit(c) + Credit(h)
      /\ PairResult(p, b[p]).credit = Credit(c2) + Credit(h2)
      /\ PairResult(p, l[p]).value = PairValue(p, c, h)
      /\ PairResult(p, b[p]).value = PairValue(p, c2, h2)
  BY DEF PairResult
<1> HIDE DEF c, c2, h, h2
<1>4. \A n \in Counts : n # None BY AssessmentAssumption DEF Counts
<1>5. (c2 = None <=> c = None) /\ (h2 = None <=> h = None) BY <1>2, <1>4 DEF SameOrMore
<1>6. QED BY <1>2, <1>3, <1>5, PairValueRises

-----------------------------------------------------------------------------
(* What it changes in the maturity model *)

\* An aggregate that did not become lower: what it resolves is the same
KeepsUp(old, new) ==
  /\ new.resolution = old.resolution
  /\ new.adjusted = None <=> old.adjusted = None
  /\ old.adjusted \in Nat \cup {None} /\ new.adjusted \in Nat \cup {None}
  /\ \A part \in {"corroborated", "observed", "adjusted"} : NoLower(old[part], new[part])

\* Results that keep their credit, and whose values do not fall, have such an aggregate.
LEMMA AggregateRises ==
  ASSUME NEW D, IsFiniteSet(D), D # {}, NEW r, NEW t, DOMAIN r = D, DOMAIN t = D,
         \A p \in D : /\ r[p].credit \in 0 .. 2 /\ t[p].credit = r[p].credit
                      /\ r[p].value \in Nat /\ t[p].value \in Nat
                      /\ r[p].value <= t[p].value
  PROVE  KeepsUp(Aggregate(r), Aggregate(t))
<1> DEFINE both == {p \in D : r[p].credit = 2}
           n == Cardinality(D)
           k == Cardinality(both)
           credit == SumFunction([p \in D |-> r[p].credit])
           total == SumFunction([p \in D |-> r[p].credit * r[p].value])
           total2 == SumFunction([p \in D |-> r[p].credit * t[p].value])
           corr == SumFunction([p \in both |-> r[p].value])
           corr2 == SumFunction([p \in both |-> t[p].value])
           root == Root((credit * Unit * Unit) \div (2 * n))
           seen == total \div credit
           seen2 == total2 \div credit
<1>1. Unit \in Nat \ {0} BY SMT DEF Unit
<1>2. n \in Nat \ {0} BY FS_CardinalityType, FS_EmptySet
<1>3. IsFiniteSet(both) /\ k \in Nat /\ (both # {} => k # 0)
  <2>1. IsFiniteSet(both) BY FS_Subset
  <2>2. QED BY <2>1, FS_CardinalityType, FS_EmptySet
<1>4. /\ {p \in D : t[p].credit = 2} = both
      /\ [p \in D |-> t[p].credit] = [p \in D |-> r[p].credit]
      /\ [p \in D |-> t[p].credit * t[p].value] = [p \in D |-> r[p].credit * t[p].value]
  OBVIOUS
<1>5. credit \in Nat
  <2>1. [p \in D |-> r[p].credit] \in [D -> Nat] OBVIOUS
  <2>2. QED BY <2>1, SumAdds
<1>6. total \in Nat /\ total2 \in Nat /\ total <= total2
  <2>1. \A p \in D : /\ r[p].credit * r[p].value \in Nat /\ r[p].credit * t[p].value \in Nat
                     /\ r[p].credit * r[p].value <= r[p].credit * t[p].value
    <3>1. \A p \in D : r[p].credit \in Nat OBVIOUS
    <3>2. QED BY <3>1, ProductRises
  <2> DEFINE f == [p \in D |-> r[p].credit * r[p].value]
             g == [p \in D |-> r[p].credit * t[p].value]
  <2>2. f \in [D -> Nat] /\ g \in [D -> Nat] /\ \A p \in D : f[p] <= g[p] BY <2>1
  <2> HIDE DEF f, g
  <2>3. SumFunction(f) \in Nat /\ SumFunction(g) \in Nat BY <2>2, SumAdds
  <2>4. SumFunction(f) <= SumFunction(g) BY <2>2, SumsCompare
  <2>5. QED BY <2>3, <2>4 DEF f, g
<1>7. corr \in Nat /\ corr2 \in Nat /\ corr <= corr2
  <2> DEFINE f == [p \in both |-> r[p].value]
             g == [p \in both |-> t[p].value]
  <2>1. f \in [both -> Nat] /\ g \in [both -> Nat] /\ \A p \in both : f[p] <= g[p] OBVIOUS
  <2> HIDE DEF f, g, both
  <2>2. SumFunction(f) \in Nat /\ SumFunction(g) \in Nat BY <1>3, <2>1, SumAdds
  <2>3. SumFunction(f) <= SumFunction(g) BY <1>3, <2>1, SumsCompare
  <2>4. QED BY <2>2, <2>3 DEF f, g
<1>8. /\ Aggregate(r).corroborated = (IF both = {} THEN None ELSE Rounded(corr, k * 10))
      /\ Aggregate(r).observed = (IF credit = 0 THEN None ELSE Rounded(seen, 10))
      /\ Aggregate(r).resolution = Share(credit, 2 * n)
      /\ Aggregate(r).adjusted = (IF credit = 0 THEN None ELSE Rounded(seen * root, 10 * Unit))
  BY DEF Aggregate
<1>9. /\ Aggregate(t).corroborated = (IF both = {} THEN None ELSE Rounded(corr2, k * 10))
      /\ Aggregate(t).observed = (IF credit = 0 THEN None ELSE Rounded(seen2, 10))
      /\ Aggregate(t).resolution = Share(credit, 2 * n)
      /\ Aggregate(t).adjusted = (IF credit = 0 THEN None ELSE Rounded(seen2 * root, 10 * Unit))
  BY <1>4 DEF Aggregate
<1>10. root \in Nat
  <2> DEFINE i == credit * Unit * Unit
  <2>1. i \in Nat /\ 2 * n \in Nat \ {0} BY <1>1, <1>2, <1>5
  <2> HIDE DEF i
  <2>2. i \div (2 * n) \in Nat BY <2>1, Division
  <2>3. QED BY <2>2, RootType DEF i
<1> HIDE DEF both, n, k, credit, total, total2, corr, corr2, root
<1>11. ASSUME credit # 0
       PROVE  /\ seen \in Nat /\ seen2 \in Nat /\ seen <= seen2
              /\ seen * root \in Nat /\ seen2 * root \in Nat /\ seen * root <= seen2 * root
  <2>1. credit \in Nat \ {0} BY <1>5, <1>11
  <2>2. seen \in Nat /\ seen2 \in Nat /\ seen <= seen2
    BY <1>6, <2>1, QuotientRises, Division
  <2> HIDE DEF seen, seen2
  <2>3. root * seen = seen * root /\ root * seen2 = seen2 * root BY <1>10, <2>2
  <2>4. QED BY <1>10, <2>2, <2>3, ProductRises
<1> HIDE DEF seen, seen2
<1>12. NoLower(Aggregate(r).corroborated, Aggregate(t).corroborated)
  <2>1. CASE both = {} BY <1>8, <2>1 DEF NoLower
  <2>2. CASE both # {}
    <3>1. k * 10 \in Nat \ {0} BY <1>3, <2>2
    <3>2. /\ Rounded(corr, k * 10) \in Nat /\ Rounded(corr2, k * 10) \in Nat
          /\ Rounded(corr, k * 10) <= Rounded(corr2, k * 10)
      BY <1>7, <3>1, RoundedRises
    <3>3. \A x \in Nat : x # None BY AssessmentAssumption
    <3>4. QED BY <1>8, <1>9, <2>2, <3>2, <3>3 DEF NoLower
  <2>3. QED BY <2>1, <2>2
<1>13. CASE credit = 0
  <2>1. /\ Aggregate(r).observed = None /\ Aggregate(r).adjusted = None
        /\ Aggregate(t).observed = None /\ Aggregate(t).adjusted = None
    BY <1>8, <1>9, <1>13
  <2>2. QED BY <1>8, <1>9, <1>12, <2>1 DEF KeepsUp, NoLower
<1>14. CASE credit # 0
  <2>1. 10 \in Nat \ {0} /\ 10 * Unit \in Nat \ {0} BY <1>1
  <2>2. /\ Rounded(seen, 10) \in Nat /\ Rounded(seen2, 10) \in Nat
        /\ Rounded(seen, 10) <= Rounded(seen2, 10)
    BY <1>11, <1>14, <2>1, RoundedRises
  <2>3. /\ Rounded(seen * root, 10 * Unit) \in Nat /\ Rounded(seen2 * root, 10 * Unit) \in Nat
        /\ Rounded(seen * root, 10 * Unit) <= Rounded(seen2 * root, 10 * Unit)
    BY <1>11, <1>14, <2>1, RoundedRises
  <2>4. \A x \in Nat : x # None BY AssessmentAssumption
  <2>5. NoLower(Aggregate(r).observed, Aggregate(t).observed)
    BY <1>8, <1>9, <1>14, <2>2, <2>4 DEF NoLower
  <2>6. /\ NoLower(Aggregate(r).adjusted, Aggregate(t).adjusted)
        /\ Aggregate(r).adjusted \in Nat /\ Aggregate(t).adjusted \in Nat
        /\ Aggregate(r).adjusted # None /\ Aggregate(t).adjusted # None
    BY <1>8, <1>9, <1>14, <2>3, <2>4 DEF NoLower
  <2>7. QED BY <1>8, <1>9, <1>12, <2>5, <2>6 DEF KeepsUp
<1>15. QED BY <1>13, <1>14

\* So do the whole and every domain.
LEMMA MaturityRises ==
  ASSUME NEW l, NEW b, Rises(l, b)
  PROVE  /\ KeepsUp(Maturity(l).overall, Maturity(b).overall)
         /\ \A d \in Domains : KeepsUp(Maturity(l).domains[d], Maturity(b).domains[d])
<1>1. ASSUME NEW D \in SUBSET Pairs, D # {}
      PROVE  KeepsUp(Aggregate([p \in D |-> PairResult(p, l[p])]),
                     Aggregate([p \in D |-> PairResult(p, b[p])]))
  <2> DEFINE r == [p \in D |-> PairResult(p, l[p])]
             t == [p \in D |-> PairResult(p, b[p])]
  <2>1. \A p \in D : r[p] = PairResult(p, l[p]) /\ t[p] = PairResult(p, b[p]) OBVIOUS
  <2>2. DOMAIN r = D /\ DOMAIN t = D OBVIOUS
  <2>3. IsFiniteSet(D) BY AssessmentAssumption, FS_Subset
  <2> HIDE DEF r, t
  <2>4. \A p \in D : /\ r[p].credit \in 0 .. 2 /\ t[p].credit = r[p].credit
                     /\ r[p].value \in Nat /\ t[p].value \in Nat
                     /\ r[p].value <= t[p].value
    BY <2>1, PairRises
  <2>5. KeepsUp(Aggregate(r), Aggregate(t)) BY <1>1, <2>2, <2>3, <2>4, AggregateRises
  <2>6. QED BY <2>5 DEF r, t
<1>2. KeepsUp(Maturity(l).overall, Maturity(b).overall)
  <2>1. Pairs \in SUBSET Pairs /\ Pairs # {} BY AssessmentAssumption
  <2>2. QED BY <1>1, <2>1 DEF Maturity
<1>3. ASSUME NEW d \in Domains PROVE KeepsUp(Maturity(l).domains[d], Maturity(b).domains[d])
  <2> DEFINE D == {p \in Pairs : DomainOf[p] = d}
  <2>1. D \in SUBSET Pairs /\ D # {} BY DEF Domains
  <2>2. /\ Maturity(l).domains[d] = Aggregate([p \in D |-> PairResult(p, l[p])])
        /\ Maturity(b).domains[d] = Aggregate([p \in D |-> PairResult(p, b[p])])
    BY DEF Maturity
  <2> HIDE DEF D
  <2>3. QED BY <1>1, <2>1, <2>2
<1>4. QED BY <1>2, <1>3

\* The same criteria are resolved, so the evidence is as sufficient, and the band
\* is no lower.
LEMMA BandRises ==
  ASSUME NEW l, NEW b, Rises(l, b), NEW ready
  PROVE  LET old == Metrics(l, ready)
             new == Metrics(b, ready)
         IN /\ Resolved(b) = Resolved(l)
            /\ old.band \in 1 .. 4 /\ new.band \in 1 .. 4 /\ old.band <= new.band
            /\ new.band = 2 => old.band = 2
<1> DEFINE Item(c) == l[c[1]][c[2]]
           New(c) == b[c[1]][c[2]]
           overall == Maturity(l).overall
           overall2 == Maturity(b).overall
           sufficient == Sufficient(l, Resolved(l), overall, ready)
           sufficient2 == Sufficient(b, Resolved(b), overall2, ready)
<1>1. \A c \in Criteria : Kept(c[2], Item(c), New(c))
  BY DEF Criteria, Rises, NoWorse
<1>2. Resolved(b) = Resolved(l)
  <2>1. \A c \in Criteria : Score(c[2], New(c)) = None <=> Score(c[2], Item(c)) = None
    BY <1>1 DEF Kept
  <2>2. QED BY <2>1 DEF Resolved
<1>3. KeepsUp(overall, overall2) BY MaturityRises
<1>4. sufficient2 <=> sufficient
  <2>1. \A c \in Resolved(l) : Rests(c[2], New(c)) <=> Rests(c[2], Item(c))
    BY <1>1 DEF Kept, Resolved
  <2>2. \A c \in Criteria : New(c).unresolved <=> Item(c).unresolved BY <1>1 DEF Kept
  <2>3. overall2.resolution = overall.resolution BY <1>3 DEF KeepsUp
  <2> HIDE DEF overall, overall2
  <2>4. sufficient <=>
          /\ Share(Cardinality(Resolved(l)), Cardinality(Criteria)) >= 300
          /\ overall.resolution >= 300
          /\ \A c \in Resolved(l) : Rests(c[2], Item(c))
          /\ \A c \in Criteria : ~Item(c).unresolved
          /\ ready
    BY DEF Sufficient, Rests
  <2>5. sufficient2 <=>
          /\ Share(Cardinality(Resolved(l)), Cardinality(Criteria)) >= 300
          /\ overall2.resolution >= 300
          /\ \A c \in Resolved(l) : Rests(c[2], New(c))
          /\ \A c \in Criteria : ~New(c).unresolved
          /\ ready
    BY <1>2 DEF Sufficient, Rests
  <2> HIDE DEF sufficient, sufficient2, Item, New
  <2>6. QED BY <2>1, <2>2, <2>3, <2>4, <2>5
<1>5. /\ Metrics(l, ready).band = Band(sufficient, overall)
      /\ Metrics(b, ready).band = Band(sufficient2, overall2)
  BY DEF Metrics
<1> HIDE DEF overall, overall2, sufficient, sufficient2
<1>6. /\ overall2.adjusted = None <=> overall.adjusted = None
      /\ overall.adjusted \in Nat \cup {None} /\ overall2.adjusted \in Nat \cup {None}
      /\ overall.adjusted # None => overall2.adjusted >= overall.adjusted
  BY <1>3 DEF KeepsUp, NoLower
<1>7. CASE ~sufficient \/ overall.adjusted = None
  BY <1>2, <1>4, <1>5, <1>6, <1>7 DEF Band
<1>8. CASE sufficient /\ overall.adjusted # None
  <2>1. /\ overall.adjusted \in Nat /\ overall2.adjusted \in Nat
        /\ overall2.adjusted >= overall.adjusted /\ overall2.adjusted # None /\ sufficient2
    BY <1>4, <1>6, <1>8
  <2>2. QED BY <1>2, <1>5, <1>8, <2>1 DEF Band
<1>9. QED BY <1>7, <1>8

-----------------------------------------------------------------------------
(* What it changes in the metrics *)

\* Subsets of a finite set are counted.
LEMMA Counting ==
  ASSUME NEW T, IsFiniteSet(T), NEW S \in SUBSET T
  PROVE  /\ IsFiniteSet(S) /\ Cardinality(S) \in Nat /\ Cardinality(T) \in Nat
         /\ Cardinality(S) <= Cardinality(T)
         /\ Cardinality(S) = 0 => S = {}
  BY FS_Subset, FS_CardinalityType, FS_EmptySet

\* A sum over the same set does not fall with what is added up.
LEMMA SumRises ==
  ASSUME NEW S, IsFiniteSet(S), NEW f \in [S -> Nat], NEW g \in [S -> Nat],
         \A x \in S : f[x] <= g[x]
  PROVE  SumFunction(f) \in Nat /\ SumFunction(g) \in Nat /\ SumFunction(f) <= SumFunction(g)
  BY SumAdds, SumsCompare

\* The pairs whose anti-pattern counts for the burden, those with a finding, and the
\* capabilities that count for nothing
Eligibles(l) == {p \in Pairs : Eligible(l[p].antipattern)}
Found(l)     == {p \in Pairs : /\ ~l[p].antipattern.unresolved
                               /\ Inferred(l[p].antipattern) \in Present}
Zeroes(l)    == {p \in Pairs : ~l[p].maturity.unresolved /\ l[p].maturity.count = 0}
CountsOf(l)  == [p \in Proven(l, "maturity") |-> l[p].maturity.count]
Burdens(l)   == [p \in Eligibles(l) |-> Burden(l[p].antipattern)]

\* The tally, in these words.
LEMMA TallyIs ==
  ASSUME NEW l
  PROVE  LET M == Proven(l, "maturity")
             A == Proven(l, "antipattern")
             n == Cardinality(Pairs)
         IN /\ Tally(l).density = Percent(Cardinality(M) + Cardinality(A), 2 * n)
            /\ Tally(l).coverage = Percent(Cardinality(A), n)
            /\ Tally(l).depth = Percent(SumFunction(CountsOf(l)), 3 * n)
            /\ Tally(l).gaps = Cardinality(Zeroes(l))
            /\ Tally(l).silentAreas = Cardinality(Zeroes(l) \ M)
            /\ Tally(l).mostlyZero <=>
                 M # {} /\ 100 * Cardinality(Zeroes(l) \cap M) >= 70 * Cardinality(M)
            /\ Tally(l).burden = Percent(SumFunction(Burdens(l)), 3 * Cardinality(Eligibles(l)))
            /\ Tally(l).heavy <=> 100 * SumFunction(Burdens(l)) > 210 * Cardinality(Eligibles(l))
            /\ Tally(l).findings = Cardinality(Found(l))
<1> DEFINE Items(s) == {p \in Pairs : ~l[p][s].unresolved}
           ProvenOf(s) == {p \in Items(s) : Verified(s, l[p][s])}
           zeroes == {p \in Items("maturity") : l[p]["maturity"].count = 0}
           eligible == {p \in ProvenOf("antipattern") :
                          Inferred(l[p]["antipattern"]) # "unknown_absent"}
           found == {p \in Items("antipattern") : Inferred(l[p]["antipattern"]) \in Present}
<1>1. \A s : ProvenOf(s) = Proven(l, s) BY DEF Proven, Verified
<1>2. zeroes = Zeroes(l) BY DEF Zeroes
<1>3. eligible = Eligibles(l) BY DEF Eligibles, Eligible
<1>4. found = Found(l) BY DEF Found
<1>5. /\ Tally(l).density = Percent(Cardinality(ProvenOf("maturity"))
                                      + Cardinality(ProvenOf("antipattern")),
                                    2 * Cardinality(Pairs))
      /\ Tally(l).coverage = Percent(Cardinality(ProvenOf("antipattern")), Cardinality(Pairs))
      /\ Tally(l).depth = Percent(SumFunction([p \in ProvenOf("maturity") |->
                                                 l[p]["maturity"].count]),
                                  3 * Cardinality(Pairs))
      /\ Tally(l).gaps = Cardinality(zeroes)
      /\ Tally(l).silentAreas = Cardinality(zeroes \ ProvenOf("maturity"))
      /\ Tally(l).mostlyZero = (/\ ProvenOf("maturity") # {}
                                /\ 100 * Cardinality(zeroes \cap ProvenOf("maturity"))
                                     >= 70 * Cardinality(ProvenOf("maturity")))
      /\ Tally(l).burden = Percent(SumFunction([p \in eligible |->
                                                  Burden(l[p]["antipattern"])]),
                                   3 * Cardinality(eligible))
      /\ Tally(l).heavy = (100 * SumFunction([p \in eligible |-> Burden(l[p]["antipattern"])])
                             > 210 * Cardinality(eligible))
      /\ Tally(l).findings = Cardinality(found)
  BY DEF Tally
<1> HIDE DEF zeroes, eligible, found, ProvenOf
<1>6. QED BY <1>1, <1>2, <1>3, <1>4, <1>5 DEF CountsOf, Burdens

\* What the report, the gate and the routing compare of two tallies
Improves(old, new) ==
  /\ old.density \in Nat /\ new.density \in Nat /\ old.density <= new.density
  /\ old.coverage \in Nat /\ new.coverage \in Nat /\ old.coverage <= new.coverage
  /\ old.depth \in Nat /\ new.depth \in Nat /\ old.depth <= new.depth
  /\ old.gaps \in Nat /\ new.gaps \in Nat /\ new.gaps <= old.gaps
  /\ old.silentAreas \in Nat /\ new.silentAreas \in Nat /\ new.silentAreas <= old.silentAreas
  /\ new.mostlyZero => old.mostlyZero
  /\ old.burden \in Nat /\ new.burden \in Nat /\ new.burden <= old.burden
  /\ new.heavy => old.heavy
  /\ old.findings \in Nat /\ new.findings \in Nat /\ new.findings <= old.findings

\* The burden counts what became eligible with nothing.
LEMMA BurdenFalls ==
  ASSUME NEW l, NEW b, Rises(l, b)
  PROVE  /\ Eligibles(l) \subseteq Eligibles(b)
         /\ SumFunction(Burdens(l)) \in Nat /\ SumFunction(Burdens(b)) \in Nat
         /\ SumFunction(Burdens(b)) <= SumFunction(Burdens(l))
         /\ Eligibles(l) = {} => SumFunction(Burdens(l)) = 0
<1> DEFINE E == Eligibles(l)
           F == Eligibles(b)
           f == [p \in E |-> Burden(b[p].antipattern)]
<1>1. \A p \in Pairs : Burdened(l[p].antipattern, b[p].antipattern)
  BY DEF Rises, NoWorse, Streams
<1>2. /\ E \subseteq F /\ E \in SUBSET Pairs /\ F \in SUBSET Pairs
      /\ \A p \in F \ E : Burden(b[p].antipattern) = 0
  BY <1>1 DEF Eligibles, Burdened
<1>3. F \ E \subseteq {Self} BY DEF Rises, Eligibles
<1>4. \A p \in Pairs : /\ Burden(l[p].antipattern) \in Nat /\ Burden(b[p].antipattern) \in Nat
                       /\ Burden(b[p].antipattern) <= Burden(l[p].antipattern)
  BY <1>1 DEF Burdened
<1>5. IsFiniteSet(E) /\ IsFiniteSet(F) BY <1>2, AssessmentAssumption, FS_Subset
<1>6. /\ Burdens(l) \in [E -> Nat] /\ Burdens(b) \in [F -> Nat] /\ f \in [E -> Nat]
      /\ \A p \in E : f[p] <= Burdens(l)[p]
  BY <1>2, <1>4 DEF Burdens
<1>7. SumFunction(f) <= SumFunction(Burdens(l)) /\ SumFunction(f) \in Nat
  <2> HIDE DEF f, E
  <2>1. QED BY <1>5, <1>6, SumRises
<1>8. SumFunction(Burdens(b)) = SumFunction(f)
  <2>1. CASE F = E
    <3>1. Burdens(b) = f BY <2>1 DEF Burdens
    <3>2. QED BY <3>1
  <2>2. CASE F # E
    <3>1. Self \in F /\ F \ {Self} = E /\ Burdens(b)[Self] = 0
      BY <1>2, <1>3, <2>2 DEF Burdens
    <3>2. [p \in F \ {Self} |-> Burdens(b)[p]] = f BY <1>2, <3>1 DEF Burdens
    <3> HIDE DEF f, E, F
    <3>3. SumFunction(Burdens(b)) = Burdens(b)[Self] + SumFunction(f)
      BY <1>5, <1>6, <3>1, <3>2, SumAdds
    <3>4. QED BY <1>7, <3>1, <3>3
  <2>3. QED BY <2>1, <2>2
<1>9. SumFunction(Burdens(l)) \in Nat /\ (E = {} => SumFunction(Burdens(l)) = 0)
  <2> HIDE DEF E
  <2>1. QED BY <1>5, <1>6, SumAdds
<1>10. QED BY <1>2, <1>7, <1>8, <1>9

\* Nothing in the tally is worse.
LEMMA TallyImproves ==
  ASSUME NEW l, NEW b, Rises(l, b)
  PROVE  Improves(Tally(l), Tally(b))
<1> DEFINE M == Proven(l, "maturity")
           A == Proven(l, "antipattern")
           A2 == Proven(b, "antipattern")
           n == Cardinality(Pairs)
<1>1. \A p \in Pairs : /\ Kept("maturity", l[p].maturity, b[p].maturity)
                       /\ Kept("antipattern", l[p].antipattern, b[p].antipattern)
                       /\ Capable(l[p].maturity, b[p].maturity)
                       /\ Burdened(l[p].antipattern, b[p].antipattern)
  BY DEF Rises, NoWorse, Streams
<1>2. IsFiniteSet(Pairs) /\ n \in Nat BY Registry, AssessmentAssumption
<1>3. /\ Proven(b, "maturity") = M /\ A \subseteq A2
      /\ M \in SUBSET Pairs /\ A \in SUBSET Pairs /\ A2 \in SUBSET Pairs
  <2>1. \A p \in Pairs : Verified("maturity", b[p].maturity) <=> Verified("maturity", l[p].maturity)
    BY <1>1 DEF Capable
  <2>2. \A p \in Pairs : Verified("antipattern", l[p].antipattern)
                            => Verified("antipattern", b[p].antipattern)
    BY <1>1 DEF Kept
  <2>3. QED BY <2>1, <2>2 DEF Proven
<1>4. Zeroes(b) \subseteq Zeroes(l) /\ Zeroes(l) \in SUBSET Pairs
  <2>1. \A p \in Pairs : /\ l[p].maturity.count \in 0 .. 3 /\ b[p].maturity.count \in 0 .. 3
                         /\ l[p].maturity.count <= b[p].maturity.count
                         /\ b[p].maturity.unresolved <=> l[p].maturity.unresolved
    BY <1>1 DEF Capable, Kept, Counts
  <2>2. QED BY <2>1 DEF Zeroes
<1>5. Found(b) \subseteq Found(l) /\ Found(l) \in SUBSET Pairs
  BY <1>1 DEF Found, Burdened, Kept
<1>6. /\ Cardinality(M) \in Nat /\ Cardinality(A) \in Nat /\ Cardinality(A2) \in Nat
      /\ Cardinality(A) <= Cardinality(A2)
      /\ IsFiniteSet(M) /\ IsFiniteSet(A2) /\ IsFiniteSet(Zeroes(l)) /\ IsFiniteSet(Found(l))
  <2>1. /\ IsFiniteSet(M) /\ IsFiniteSet(A2) /\ IsFiniteSet(Zeroes(l)) /\ IsFiniteSet(Found(l))
        /\ Cardinality(M) \in Nat
    BY <1>2, <1>3, <1>4, <1>5, Counting
  <2> HIDE DEF M, A, A2
  <2>2. QED BY <1>3, <2>1, Counting
<1>7. /\ Tally(l).density \in Nat /\ Tally(b).density \in Nat
      /\ Tally(l).density <= Tally(b).density
      /\ Tally(l).coverage \in Nat /\ Tally(b).coverage \in Nat
      /\ Tally(l).coverage <= Tally(b).coverage
  <2>1. /\ Tally(l).density = Percent(Cardinality(M) + Cardinality(A), 2 * n)
        /\ Tally(b).density = Percent(Cardinality(M) + Cardinality(A2), 2 * n)
        /\ Tally(l).coverage = Percent(Cardinality(A), n)
        /\ Tally(b).coverage = Percent(Cardinality(A2), n)
    BY <1>3, TallyIs
  <2> HIDE DEF M, A, A2, n
  <2>2. /\ Cardinality(M) + Cardinality(A) \in Nat /\ Cardinality(M) + Cardinality(A2) \in Nat
        /\ Cardinality(M) + Cardinality(A) <= Cardinality(M) + Cardinality(A2)
        /\ 2 * n \in Nat /\ n \in Nat
    <3>1. n \in Nat BY <1>2 DEF n
    <3>2. QED BY <1>6, <3>1
  <2>3. /\ Tally(l).density \in Nat /\ Tally(b).density \in Nat
        /\ Tally(l).density <= Tally(b).density
    BY <2>1, <2>2, PercentRises
  <2>4. /\ Tally(l).coverage \in Nat /\ Tally(b).coverage \in Nat
        /\ Tally(l).coverage <= Tally(b).coverage
    <3> DEFINE i == Cardinality(A)
               j == Cardinality(A2)
    <3>1. i \in Nat /\ j \in Nat /\ i <= j /\ n \in Nat BY <1>6, <2>2
    <3>2. Tally(l).coverage = Percent(i, n) /\ Tally(b).coverage = Percent(j, n) BY <2>1
    <3> HIDE DEF i, j
    <3>3. QED BY <3>1, <3>2, PercentRises
  <2>5. QED BY <2>3, <2>4
<1>8. /\ Tally(l).depth \in Nat /\ Tally(b).depth \in Nat /\ Tally(l).depth <= Tally(b).depth
  <2>1. /\ CountsOf(l) \in [M -> Nat] /\ CountsOf(b) \in [M -> Nat]
        /\ \A p \in M : CountsOf(l)[p] <= CountsOf(b)[p]
    <3>1. \A p \in Pairs : /\ l[p].maturity.count \in Nat /\ b[p].maturity.count \in Nat
                           /\ l[p].maturity.count <= b[p].maturity.count
      BY <1>1 DEF Capable, Kept, Counts
    <3>2. QED BY <1>3, <3>1 DEF CountsOf
  <2> HIDE DEF M, n
  <2>2. /\ SumFunction(CountsOf(l)) \in Nat /\ SumFunction(CountsOf(b)) \in Nat
        /\ SumFunction(CountsOf(l)) <= SumFunction(CountsOf(b))
    BY <1>6, <2>1, SumRises
  <2>3. 3 * n \in Nat BY <1>2
  <2>4. /\ Tally(l).depth = Percent(SumFunction(CountsOf(l)), 3 * n)
        /\ Tally(b).depth = Percent(SumFunction(CountsOf(b)), 3 * n)
    BY TallyIs DEF n
  <2>5. QED BY <2>2, <2>3, <2>4, PercentRises
<1>9. /\ Tally(l).gaps \in Nat /\ Tally(b).gaps \in Nat /\ Tally(b).gaps <= Tally(l).gaps
      /\ Tally(l).findings \in Nat /\ Tally(b).findings \in Nat
      /\ Tally(b).findings <= Tally(l).findings
  <2>1. /\ Tally(l).gaps = Cardinality(Zeroes(l)) /\ Tally(b).gaps = Cardinality(Zeroes(b))
        /\ Tally(l).findings = Cardinality(Found(l)) /\ Tally(b).findings = Cardinality(Found(b))
    BY TallyIs
  <2>2. QED BY <1>4, <1>5, <1>6, <2>1, Counting
<1>10. /\ Tally(l).silentAreas \in Nat /\ Tally(b).silentAreas \in Nat
       /\ Tally(b).silentAreas <= Tally(l).silentAreas
       /\ Tally(b).mostlyZero => Tally(l).mostlyZero
  <2>1. /\ Tally(l).silentAreas = Cardinality(Zeroes(l) \ M)
        /\ Tally(b).silentAreas = Cardinality(Zeroes(b) \ M)
        /\ Tally(l).mostlyZero <=>
             M # {} /\ 100 * Cardinality(Zeroes(l) \cap M) >= 70 * Cardinality(M)
        /\ Tally(b).mostlyZero <=>
             M # {} /\ 100 * Cardinality(Zeroes(b) \cap M) >= 70 * Cardinality(M)
    BY <1>3, TallyIs
  <2> HIDE DEF M
  <2>2. /\ Zeroes(b) \ M \in SUBSET (Zeroes(l) \ M)
        /\ Zeroes(b) \cap M \in SUBSET (Zeroes(l) \cap M)
        /\ Zeroes(l) \ M \in SUBSET Zeroes(l) /\ Zeroes(l) \cap M \in SUBSET Zeroes(l)
    BY <1>4
  <2>3. IsFiniteSet(Zeroes(l) \ M) /\ IsFiniteSet(Zeroes(l) \cap M)
    BY <1>6, <2>2, Counting
  <2>4. /\ Cardinality(Zeroes(l) \ M) \in Nat /\ Cardinality(Zeroes(b) \ M) \in Nat
        /\ Cardinality(Zeroes(b) \ M) <= Cardinality(Zeroes(l) \ M)
        /\ Cardinality(Zeroes(l) \cap M) \in Nat /\ Cardinality(Zeroes(b) \cap M) \in Nat
        /\ Cardinality(Zeroes(b) \cap M) <= Cardinality(Zeroes(l) \cap M)
    BY <2>2, <2>3, Counting
  <2>5. QED BY <1>6, <2>1, <2>4
<1>11. /\ Tally(l).burden \in Nat /\ Tally(b).burden \in Nat /\ Tally(b).burden <= Tally(l).burden
       /\ Tally(b).heavy => Tally(l).heavy
  <2> DEFINE E == Eligibles(l)
             F == Eligibles(b)
             old == SumFunction(Burdens(l))
             new == SumFunction(Burdens(b))
             w == 3 * Cardinality(E)
             v == 3 * Cardinality(F)
  <2>1. /\ E \subseteq F /\ old \in Nat /\ new \in Nat /\ new <= old
        /\ E = {} => old = 0
    BY BurdenFalls
  <2>2. /\ Tally(l).burden = Percent(old, w) /\ Tally(b).burden = Percent(new, v)
        /\ Tally(l).heavy <=> 100 * old > 210 * Cardinality(E)
        /\ Tally(b).heavy <=> 100 * new > 210 * Cardinality(F)
    BY TallyIs
  <2>3. F \in SUBSET Pairs BY DEF Eligibles
  <2> HIDE DEF E, F, old, new
  <2>4. IsFiniteSet(F) BY <1>2, <2>3, Counting
  <2>5. /\ Cardinality(E) \in Nat /\ Cardinality(F) \in Nat /\ Cardinality(E) <= Cardinality(F)
        /\ Cardinality(E) = 0 => E = {}
    BY <2>1, <2>4, Counting
  <2>6. w \in Nat /\ v \in Nat /\ w <= v /\ (w = 0 => old = 0) BY <2>1, <2>5
  <2>12. Tally(b).heavy => Tally(l).heavy BY <2>1, <2>2, <2>5
  <2> HIDE DEF w, v
  <2>7. Percent(new, v) \in Nat /\ Percent(old, v) \in Nat /\ Percent(new, v) <= Percent(old, v)
    BY <2>1, <2>6, PercentRises
  <2>8. Percent(old, v) <= Percent(old, w) BY <2>1, <2>6, PercentFalls
  <2>9. Percent(old, w) \in Nat
    <3>1. old <= old BY <2>1
    <3>2. QED BY <2>1, <2>6, <3>1, PercentRises
  <2>10. QED BY <2>12, <2>2, <2>7, <2>8, <2>9
<1>12. QED BY <1>7, <1>8, <1>9, <1>10, <1>11 DEF Improves

-----------------------------------------------------------------------------
(* What it changes in what the report and Phase 3 take *)

\* The row of a domain is no worse, in its percentages and in its tones.
LEMMA RowImproves ==
  ASSUME NEW l, NEW b, Rises(l, b), NEW d \in Domains
  PROVE  LET old == Row(l, d)
             new == Row(b, d)
         IN /\ new.maturity >= old.maturity /\ new.maturityTone >= old.maturityTone
            /\ new.burden <= old.burden /\ new.burdenTone >= old.burdenTone
<1> DEFINE own == {p \in Pairs : DomainOf[p] = d}
           n == Cardinality(own)
           Assessed(x) == {p \in own : RowAssessed(x[p].maturity)}
           Absent(x, p) == IF x[p].antipattern.unresolved THEN "unknown_absent"
                           ELSE Inferred(x[p].antipattern)
           Of(x, s) == {p \in own : Absent(x, p) = s}
           Sums(x) == [p \in Assessed(x) |-> x[p].maturity.count]
           Rate(x) == Percent(SumFunction(Sums(x)), 3 * Cardinality(Assessed(x)))
           Heavy(x) == Percent(2 * Cardinality(Of(x, "confirmed_present"))
                                 + Cardinality(Of(x, "partially_present")), 2 * n)
           Tone(x) == IF 10 * Cardinality(Assessed(x)) < 6 * n THEN 0
                      ELSE IF Rate(x) >= 70 THEN 3 ELSE IF Rate(x) >= 40 THEN 2 ELSE 1
           Grade(x) == IF 10 * Cardinality(Of(x, "unknown_absent")) >= 6 * n THEN 0
                       ELSE IF Heavy(x) <= 10 THEN 3 ELSE IF Heavy(x) <= 30 THEN 2 ELSE 1
<1>1. \A p \in Pairs : /\ Kept("maturity", l[p].maturity, b[p].maturity)
                       /\ Kept("antipattern", l[p].antipattern, b[p].antipattern)
                       /\ Capable(l[p].maturity, b[p].maturity)
                       /\ Burdened(l[p].antipattern, b[p].antipattern)
  BY DEF Rises, NoWorse, Streams
<1>2. own \in SUBSET Pairs /\ IsFiniteSet(own) /\ n \in Nat
  <2>1. own \in SUBSET Pairs OBVIOUS
  <2>2. IsFiniteSet(Pairs) BY AssessmentAssumption
  <2> HIDE DEF own
  <2>3. QED BY <2>1, <2>2, Counting
<1>3. ASSUME NEW x \in {l, b}
      PROVE  /\ Row(x, d).maturity = Rate(x) /\ Row(x, d).maturityTone = Tone(x)
             /\ Row(x, d).burden = Heavy(x) /\ Row(x, d).burdenTone = Grade(x)
  <2> DEFINE absence == [p \in own |-> Absent(x, p)]
  <2>1. \A s : {p \in own : absence[p] = s} = Of(x, s) OBVIOUS
  <2>2. \A s : {p \in own : [q \in own |-> Absent(x, q)][p] = s} = Of(x, s) OBVIOUS
  <2>3. QED BY <2>2 DEF Row
<1>4. Assessed(b) = Assessed(l) BY <1>1, <1>2 DEF Capable
<1>5. /\ Of(b, "confirmed_present") \subseteq Of(l, "confirmed_present")
      /\ Of(b, "partially_present") \subseteq
           Of(l, "confirmed_present") \cup Of(l, "partially_present")
      /\ Of(b, "unknown_absent") = Of(l, "unknown_absent")
  <2>1. ASSUME NEW p \in own
        PROVE  /\ Absent(b, p) = "confirmed_present" => Absent(l, p) = "confirmed_present"
               /\ Absent(b, p) = "partially_present" => Absent(l, p) \in Present
               /\ Absent(b, p) = "unknown_absent" <=> Absent(l, p) = "unknown_absent"
    BY <1>1, <1>2 DEF Kept, Burdened, Present
  <2> HIDE DEF Absent
  <2>2. QED BY <2>1 DEF Present
<1>6. /\ IsFiniteSet(Assessed(l)) /\ Assessed(l) \in SUBSET Pairs
      /\ Cardinality(Assessed(l)) \in Nat
  <2>1. Assessed(l) \in SUBSET own OBVIOUS
  <2> HIDE DEF own, Assessed
  <2>2. QED BY <1>2, <2>1, Counting
<1>7. Rate(l) \in Nat /\ Rate(b) \in Nat /\ Rate(l) <= Rate(b)
  <2> DEFINE S == Assessed(l)
             f == Sums(l)
             g == Sums(b)
  <2>1. f \in [S -> Nat] /\ g \in [S -> Nat] /\ \A p \in S : f[p] <= g[p]
    <3>1. \A p \in Pairs : /\ l[p].maturity.count \in Nat /\ b[p].maturity.count \in Nat
                           /\ l[p].maturity.count <= b[p].maturity.count
      BY <1>1 DEF Capable, Kept, Counts
    <3>2. QED BY <1>4, <1>6, <3>1
  <2>2. Rate(l) = Percent(SumFunction(f), 3 * Cardinality(S))
    OBVIOUS
  <2>3. Rate(b) = Percent(SumFunction(g), 3 * Cardinality(S))
    <3> HIDE DEF Assessed, Sums
    <3>1. QED BY <1>4
  <2>4. IsFiniteSet(S) /\ 3 * Cardinality(S) \in Nat BY <1>6
  <2> HIDE DEF S, f, g, Rate
  <2>5. SumFunction(f) \in Nat /\ SumFunction(g) \in Nat /\ SumFunction(f) <= SumFunction(g)
    BY <2>1, <2>4, SumRises
  <2>6. QED BY <2>2, <2>3, <2>4, <2>5, PercentRises
<1>8. Heavy(l) \in Nat /\ Heavy(b) \in Nat /\ Heavy(b) <= Heavy(l)
  <2> DEFINE C == Of(l, "confirmed_present")
             P == Of(l, "partially_present")
             C2 == Of(b, "confirmed_present")
             P2 == Of(b, "partially_present")
  <2>1. /\ C2 \subseteq C /\ P2 \subseteq C \cup P /\ C \cap P = {} /\ C2 \cap P2 = {}
        /\ C \cup P \in SUBSET own
    BY <1>5
  <2>2. /\ Heavy(l) = Percent(2 * Cardinality(C) + Cardinality(P), 2 * n)
        /\ Heavy(b) = Percent(2 * Cardinality(C2) + Cardinality(P2), 2 * n)
    OBVIOUS
  <2> HIDE DEF C, P, C2, P2, own, n, Of, Heavy
  <2>3. IsFiniteSet(C \cup P) BY <1>2, <2>1, Counting
  <2>4. /\ C \in SUBSET (C \cup P) /\ P \in SUBSET (C \cup P)
        /\ C2 \in SUBSET C /\ P2 \in SUBSET (C \cup P) /\ C2 \cup P2 \in SUBSET (C \cup P)
    BY <2>1
  <2>5. /\ IsFiniteSet(C) /\ IsFiniteSet(P) /\ IsFiniteSet(P2)
        /\ Cardinality(C) \in Nat /\ Cardinality(P) \in Nat /\ Cardinality(P2) \in Nat
        /\ Cardinality(C2 \cup P2) <= Cardinality(C \cup P)
    BY <2>3, <2>4, Counting
  <2>6. /\ IsFiniteSet(C2) /\ Cardinality(C2) \in Nat /\ Cardinality(C2) <= Cardinality(C)
    BY <2>4, <2>5, Counting
  <2>7. /\ Cardinality(C \cup P) = Cardinality(C) + Cardinality(P)
        /\ Cardinality(C2 \cup P2) = Cardinality(C2) + Cardinality(P2)
    <3>1. Cardinality({}) = 0 BY FS_EmptySet
    <3>2. /\ Cardinality(C \cup P) = Cardinality(C) + Cardinality(P) - Cardinality(C \cap P)
          /\ Cardinality(C2 \cup P2) = Cardinality(C2) + Cardinality(P2) - Cardinality(C2 \cap P2)
      BY <2>5, <2>6, FS_Union
    <3>3. Cardinality(C \cap P) = 0 /\ Cardinality(C2 \cap P2) = 0 BY <2>1, <3>1
    <3>4. QED BY <2>5, <2>6, <3>2, <3>3
  <2> DEFINE i == 2 * Cardinality(C) + Cardinality(P)
             j == 2 * Cardinality(C2) + Cardinality(P2)
  <2>8. i \in Nat /\ j \in Nat /\ j <= i BY <2>5, <2>6, <2>7
  <2> HIDE DEF i, j
  <2>9. Heavy(l) = Percent(i, 2 * n) /\ Heavy(b) = Percent(j, 2 * n) BY <2>2 DEF i, j
  <2>10. 2 * n \in Nat BY <1>2
  <2>11. QED BY <2>8, <2>9, <2>10, PercentRises
<1>9. Cardinality(Of(l, "unknown_absent")) \in Nat
  <2>1. Of(l, "unknown_absent") \in SUBSET own OBVIOUS
  <2> HIDE DEF own, Of
  <2>2. QED BY <1>2, <2>1, Counting
<1> HIDE DEF n, own, Assessed, Of, Rate, Heavy
<1>10. Tone(b) >= Tone(l) BY <1>2, <1>4, <1>6, <1>7
<1>11. Grade(b) >= Grade(l) BY <1>2, <1>5, <1>8, <1>9
<1> HIDE DEF Tone, Grade
<1>12. QED BY <1>3, <1>7, <1>8, <1>10, <1>11

\* The acquisition snapshot covers as much, and what is covered is as strong.
LEMMA SnapshotImproves ==
  ASSUME NEW l, NEW b, Rises(l, b)
  PROVE  /\ Snapshot(b).strength >= Snapshot(l).strength
         /\ \A s \in Streams : Snapshot(b).streams[s] >= Snapshot(l).streams[s]
         /\ \A d \in Domains : Snapshot(b).domains[d] >= Snapshot(l).domains[d]
<1> DEFINE S == {c \in Criteria : Covered(c[2], l[c[1]][c[2]])}
           S2 == {c \in Criteria : Covered(c[2], b[c[1]][c[2]])}
           Rate(some) == Percent(Cardinality(S \cap some), Cardinality(some))
           f == [c \in S |-> Weight(l[c[1]][c[2]])]
           g == [c \in S |-> Weight(b[c[1]][c[2]])]
           Own(d) == {c \in Criteria : DomainOf[c[1]] = d}
<1>1. \A c \in Criteria : /\ Kept(c[2], l[c[1]][c[2]], b[c[1]][c[2]])
                          /\ Valued(c[2], l[c[1]][c[2]], b[c[1]][c[2]])
  BY DEF Criteria, Rises, NoWorse
<1>2. S2 = S /\ S \in SUBSET Criteria BY <1>1 DEF Kept
<1>3. IsFiniteSet(S) /\ Cardinality(S) \in Nat
  <2> HIDE DEF S
  <2>1. QED BY <1>2, Registry, Counting
<1>4. /\ Snapshot(l).strength = Percent(SumFunction(f), 2 * Cardinality(S))
      /\ \A s \in Streams : Snapshot(l).streams[s] = Rate(Pairs \X {s})
      /\ \A d \in Domains : Snapshot(l).domains[d] = Rate(Own(d))
  BY DEF Snapshot
<1>5. /\ Snapshot(b).strength =
           Percent(SumFunction([c \in S2 |-> Weight(b[c[1]][c[2]])]), 2 * Cardinality(S2))
      /\ \A s \in Streams : Snapshot(b).streams[s] =
           Percent(Cardinality(S2 \cap (Pairs \X {s})), Cardinality(Pairs \X {s}))
      /\ \A d \in Domains : Snapshot(b).domains[d] =
           Percent(Cardinality(S2 \cap Own(d)), Cardinality(Own(d)))
  BY DEF Snapshot
<1>6. f \in [S -> Nat] /\ g \in [S -> Nat] /\ \A c \in S : f[c] <= g[c]
  BY <1>1, <1>2 DEF Valued
<1> HIDE DEF S, S2
<1>7. Snapshot(b).strength = Percent(SumFunction(g), 2 * Cardinality(S)) BY <1>2, <1>5
<1>8. ASSUME NEW some, IsFiniteSet(some) PROVE Rate(some) \in Nat /\ Rate(some) >= Rate(some)
  <2>1. S \cap some \in SUBSET some OBVIOUS
  <2>2. Cardinality(S \cap some) \in Nat /\ Cardinality(some) \in Nat BY <1>8, <2>1, Counting
  <2>3. Cardinality(S \cap some) <= Cardinality(S \cap some) BY <2>2
  <2>4. Rate(some) \in Nat BY <2>2, <2>3, PercentRises
  <2> HIDE DEF Rate
  <2>5. QED BY <2>4
<1>9. Snapshot(b).strength >= Snapshot(l).strength
  <2> HIDE DEF f, g
  <2>1. SumFunction(f) \in Nat /\ SumFunction(g) \in Nat /\ SumFunction(f) <= SumFunction(g)
    BY <1>3, <1>6, SumRises
  <2>2. 2 * Cardinality(S) \in Nat BY <1>3
  <2>3. /\ Percent(SumFunction(f), 2 * Cardinality(S)) \in Nat
        /\ Percent(SumFunction(g), 2 * Cardinality(S)) \in Nat
        /\ Percent(SumFunction(f), 2 * Cardinality(S)) <= Percent(SumFunction(g), 2 * Cardinality(S))
    BY <2>1, <2>2, PercentRises
  <2>4. QED BY <1>4, <1>7, <2>3
<1>10. ASSUME NEW s \in Streams PROVE Snapshot(b).streams[s] >= Snapshot(l).streams[s]
  <2>1. IsFiniteSet(Pairs \X {s}) BY Registry
  <2>2. QED BY <1>2, <1>4, <1>5, <1>8, <2>1
<1>11. ASSUME NEW d \in Domains PROVE Snapshot(b).domains[d] >= Snapshot(l).domains[d]
  <2>1. IsFiniteSet(Own(d))
    <3>1. Own(d) \in SUBSET Criteria OBVIOUS
    <3> HIDE DEF Own
    <3>2. QED BY <3>1, Registry, Counting
  <2> HIDE DEF Own
  <2>2. QED BY <1>2, <1>4, <1>5, <1>8, <2>1
<1>12. QED BY <1>9, <1>10, <1>11

\* The confidence, the gate's judgement of the audit and the route of the synthesis
\* follow the tally.
LEMMA JudgementImproves ==
  ASSUME NEW l, NEW b, Rises(l, b), NEW ready, NEW checked, NEW unrouted
  PROVE  /\ Bracket(Tally(b)) >= Bracket(Tally(l))
         /\ AuditVerdict(b, Tally(b), checked, unrouted)
              >= AuditVerdict(l, Tally(l), checked, unrouted)
         /\ Escalates(Metrics(b, ready)) => Escalates(Metrics(l, ready))
<1> DEFINE old == Tally(l)
           new == Tally(b)
           Open(x) == \E c \in Criteria :
                        LET item == x[c[1]][c[2]]
                        IN ~item.unresolved /\ item.count > 0 /\ ~item.bound /\ ~item.stray
           Refuses(x) == \E c \in Criteria : x[c[1]][c[2]].status \in {"unsupported", "missing"}
<1>1. Improves(old, new) BY TallyImproves
<1>2. FewSilent \in Nat /\ ManySilent \in Nat /\ ManyGaps \in Nat /\ ManyFound \in Nat
  BY AssessmentAssumption
<1>3. \A c \in Criteria : Kept(c[2], l[c[1]][c[2]], b[c[1]][c[2]])
  BY DEF Criteria, Rises, NoWorse
<1>4. (Open(b) => Open(l)) /\ (Refuses(b) => Refuses(l))
  <2>1. ASSUME Open(b) PROVE Open(l)
    <3>1. PICK c \in Criteria : /\ ~b[c[1]][c[2]].unresolved /\ b[c[1]][c[2]].count > 0
                                /\ ~b[c[1]][c[2]].bound /\ ~b[c[1]][c[2]].stray
      BY <2>1
    <3>2. /\ ~l[c[1]][c[2]].unresolved /\ l[c[1]][c[2]].count > 0
          /\ ~l[c[1]][c[2]].bound /\ ~l[c[1]][c[2]].stray
      BY <1>3, <3>1 DEF Kept
    <3>3. QED BY <3>2
  <2>2. ASSUME Refuses(b) PROVE Refuses(l) BY <1>3, <2>2 DEF Kept, Refuted
  <2>3. QED BY <2>1, <2>2
<1>5. /\ Metrics(l, ready).tally = old /\ Metrics(b, ready).tally = new
      /\ Metrics(l, ready).maturity.overall = Maturity(l).overall
      /\ Metrics(b, ready).maturity.overall = Maturity(b).overall
  BY DEF Metrics
<1>6. \A x, tally :
        AuditVerdict(x, tally, checked, unrouted) =
          IF tally.density < 30 \/ checked.failed \/ Open(x) THEN 1
          ELSE IF \/ tally.density < 60 \/ tally.coverage < 60
                  \/ tally.silentAreas > ManySilent \/ tally.mostlyZero
                  \/ unrouted \/ checked.lowered \/ Refuses(x)
          THEN 2 ELSE 3
  BY DEF AuditVerdict
<1> HIDE DEF old, new, Open, Refuses
<1>7. Bracket(new) >= Bracket(old) BY <1>1, <1>2 DEF Bracket, Improves
<1>8. AuditVerdict(b, new, checked, unrouted) >= AuditVerdict(l, old, checked, unrouted)
  BY <1>1, <1>2, <1>4, <1>6 DEF Improves
<1>9. ASSUME Escalates(Metrics(b, ready)) PROVE Escalates(Metrics(l, ready))
  <2> DEFINE adjusted == Maturity(l).overall.adjusted
             adjusted2 == Maturity(b).overall.adjusted
             readiness == IF adjusted = None THEN 0 ELSE adjusted
             readiness2 == IF adjusted2 = None THEN 0 ELSE adjusted2
             m == Metrics(l, ready)
             m2 == Metrics(b, ready)
  <2>1. KeepsUp(Maturity(l).overall, Maturity(b).overall) BY MaturityRises
  <2>2. /\ adjusted2 = None <=> adjusted = None
        /\ adjusted \in Nat \cup {None} /\ adjusted2 \in Nat \cup {None}
        /\ adjusted # None => adjusted2 >= adjusted
    BY <2>1 DEF KeepsUp, NoLower
  <2>3. m2.band = 2 => m.band = 2 BY BandRises
  <2>4. /\ Escalates(m) <=> \/ m.band = 2 /\ old.findings >= ManyFound
                            \/ readiness < 300
                            \/ old.gaps >= ManyGaps
                            \/ old.heavy
        /\ Escalates(m2) <=> \/ m2.band = 2 /\ new.findings >= ManyFound
                             \/ readiness2 < 300
                             \/ new.gaps >= ManyGaps
                             \/ new.heavy
    BY <1>5 DEF Escalates
  <2>5. Escalates(m2) BY <1>9
  <2> HIDE DEF m, m2, adjusted, adjusted2
  <2>6. readiness2 >= readiness /\ readiness \in Nat /\ readiness2 \in Nat BY <2>2
  <2> HIDE DEF readiness, readiness2
  <2>7. Escalates(m) BY <1>1, <1>2, <2>3, <2>4, <2>5, <2>6 DEF Improves
  <2>8. QED BY <2>7 DEF m
<1>10. QED BY <1>7, <1>8, <1>9 DEF old, new

\* A criterion that did one step better never makes the organisation look worse, for
\* any registry, any strengths and whatever the other criteria are.
THEOREM BetterSafe == AssessmentSpec => []BetterNeverHarms
<1>1. AInv => BetterNeverHarms
  <2> SUFFICES ASSUME AInv, pc = "strategy", Value(stream, log[Self][stream]) \in 0 .. 2
               PROVE  BetterNeverHarms
    BY DEF BetterNeverHarms
  <2>1. LogFits(log) /\ ~log[Self][stream].stray /\ stream \in Streams BY DEF AInv, Logged
  <2>2. PICK ready \in BOOLEAN : metrics = Metrics(log, ready) BY DEF AInv, Computed
  <2> DEFINE better == [log EXCEPT ![Self][stream] = Better(stream, @)]
             new == Metrics(better, metrics.ready)
             d == DomainOf[Self]
  <2>3. Rises(log, better) BY <2>1, BetterRises, EvidenceAssumption
  <2>4. metrics.ready = ready BY <2>2 DEF Metrics
  <2>5. /\ metrics.tally = Tally(log) /\ new.tally = Tally(better)
        /\ metrics.maturity = Maturity(log) /\ new.maturity = Maturity(better)
    BY <2>2 DEF Metrics
  <2>6. d \in Domains BY AssessmentAssumption DEF Domains
  <2> HIDE DEF better
  <2>7. \A part \in {"corroborated", "observed", "adjusted"} :
          /\ NoLower(metrics.maturity.overall[part], new.maturity.overall[part])
          /\ NoLower(metrics.maturity.domains[d][part], new.maturity.domains[d][part])
    <3> HIDE DEF new, d
    <3>1. QED BY <2>3, <2>5, <2>6, MaturityRises DEF KeepsUp
  <2>8. new.band >= metrics.band
    <3>1. new = Metrics(better, ready) BY <2>4
    <3> HIDE DEF new
    <3>2. QED BY <2>2, <2>3, <3>1, BandRises
  <2>9. /\ new.tally.burden <= metrics.tally.burden
        /\ new.tally.depth >= metrics.tally.depth
        /\ new.tally.findings <= metrics.tally.findings
    <3> HIDE DEF new
    <3>1. Improves(metrics.tally, new.tally) BY <2>3, <2>5, TallyImproves
    <3>2. QED BY <3>1 DEF Improves
  <2>10. /\ Row(better, d).maturity >= Row(log, d).maturity
         /\ Row(better, d).maturityTone >= Row(log, d).maturityTone
         /\ Row(better, d).burden <= Row(log, d).burden
         /\ Row(better, d).burdenTone >= Row(log, d).burdenTone
    <3> HIDE DEF d
    <3>1. QED BY <2>3, <2>6, RowImproves
  <2>11. /\ Snapshot(better).strength >= Snapshot(log).strength
         /\ \A s \in Streams : Snapshot(better).streams[s] >= Snapshot(log).streams[s]
         /\ Snapshot(better).domains[d] >= Snapshot(log).domains[d]
    <3> HIDE DEF d
    <3>1. QED BY <2>3, <2>6, SnapshotImproves
  <2>12. Bracket(new.tally) >= Bracket(metrics.tally)
    <3> HIDE DEF new
    <3>1. QED BY <2>3, <2>5, JudgementImproves
  <2>13. \A unrouted \in BOOLEAN :
           AuditVerdict(better, new.tally, check, unrouted)
             >= AuditVerdict(log, metrics.tally, check, unrouted)
    <3> HIDE DEF new
    <3>1. QED BY <2>3, <2>5, JudgementImproves
  <2>14. Escalates(new) => Escalates(metrics)
    <3>1. new = Metrics(better, ready) BY <2>4
    <3> HIDE DEF new
    <3>2. QED BY <2>2, <2>3, <3>1, JudgementImproves
  <2> HIDE DEF new, d
  <2>15. QED
    BY <2>7, <2>8, <2>9, <2>10, <2>11, <2>12, <2>13, <2>14
       DEF BetterNeverHarms, better, new, d
<1>2. QED BY <1>1, AssessmentInvariant, PTL
=============================================================================
