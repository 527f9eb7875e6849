---------------------------- MODULE Assessment ----------------------------
(***************************************************************************)
(* From the checked evidence of a criterion to what Phase 3 is handed: the *)
(* audit log of the whole run, the maturity model with its aggregates, the *)
(* sufficiency of the evidence, the metrics and the readiness band, the    *)
(* confidence bracket, the rows of the domains, the findings that may      *)
(* activate a tactic, and what the quality gate will find in the audit.    *)
(*                                                                         *)
(* CriterionEvidence is followed for one criterion; the others are in the  *)
(* state that one of the Companies gives them.  Five services ask of an    *)
(* item whether it has evidence, each in its own words, and the properties *)
(* relate their answers.                                                   *)
(***************************************************************************)
EXTENDS CriterionEvidence, FiniteSets, Functions

CONSTANTS
  Pairs,      \* a capability and its anti-pattern, by the id that they share
  DomainOf,   \* domain_id of a pair
  Strength,   \* interaction_strength of a pair, in percent
  Self,       \* the pair of the criterion that is followed
  Companies,  \* what the items of the others may be
  FewSilent,  \* silent areas that HIGH allows, 10 of 30 in the code
  ManySilent, \* silent areas without a warning, 15 of 30
  ManyGaps,   \* gaps that escalate, 15 of 30
  ManyFound   \* findings that escalate a Crawl, 5 of 30

Domains  == {DomainOf[p] : p \in Pairs}
Criteria == Pairs \X Streams

\* An item of the audit log: what is left of an entry, its words, whether one of
\* its quotes is direct and not only derived, and the doubt of its verdict
AuditItem == [count : Counts, assessed : BOOLEAN, supported : Counts, bound : BOOLEAN,
              stray : BOOLEAN, direct : BOOLEAN, status : Statuses,
              absence : Absences \cup {None}, unresolved : BOOLEAN, silent : BOOLEAN,
              words : Words, doubt : {"no", "verification", "adjudication"}]

\* What an item owes to the code that leaves it, whatever was answered: a direct
\* quote is bound, a criterion that was not verified is unresolved, and a
\* capability is silent when it was not assessed.
Consistent(s, item) ==
  /\ item.direct => item.bound
  /\ item.doubt = "verification" => item.unresolved
  /\ s = "maturity" => (item.silent <=> ~item.assessed)

ASSUME AssessmentAssumption ==
  /\ IsFiniteSet(Pairs) /\ Self \in Pairs
  /\ None \notin Nat
  /\ Strength \in [Pairs -> 0 .. 100]
  /\ {FewSilent, ManySilent, ManyGaps, ManyFound} \subseteq Nat
  /\ Companies \subseteq [Pairs -> [Streams -> AuditItem]]
  /\ \A company \in Companies, p \in Pairs, s \in Streams : Consistent(s, company[p][s])

-----------------------------------------------------------------------------
(* The audit log *)

\* validateItem: an anti-pattern is silent when its absence is unknown, anything
\* else when it was not assessed.
Sanitized(s, item, doubt, words, direct) ==
  [count |-> item.count, assessed |-> item.assessed, supported |-> item.supported,
   bound |-> item.bound, stray |-> item.stray, direct |-> direct,
   status |-> item.status, absence |-> item.absence, unresolved |-> item.unresolved,
   silent |-> IF s = "antipattern" /\ item.absence # None
              THEN item.absence = "unknown_absent" ELSE ~item.assessed,
   words |-> words, doubt |-> doubt]

\* validatePhase1Output, for an item that is there
Valid(item) ==
  \/ item.unresolved
  \/ item.supported = item.count /\ (item.assessed \/ item.count = 0)

-----------------------------------------------------------------------------
(* The maturity model.  Values are in thirds and credits in halves; what they *)
(* yield is in units of 1/10000, and published in tenths of a percent.        *)

Unit == 10000

\* Rounded half up, as Math.round does
Rounded(part, whole) == (2 * part + whole) \div (2 * whole)

\* The integer part of the square root of a number below 2^30, digit by digit
Digits == <<16384, 8192, 4096, 2048, 1024, 512, 256, 128, 64, 32, 16, 8, 4, 2, 1>>

WithDigit(n, root, digit) ==
  IF (root + digit) * (root + digit) <= n THEN root + digit ELSE root

Root(n) ==
  LET root[k \in 0 .. 15] == IF k = 0 THEN 0 ELSE WithDigit(n, root[k - 1], Digits[k])
  IN root[15]

Share(part, whole) == IF whole = 0 THEN 0 ELSE Rounded(1000 * part, whole)

Score(s, item) == Resolution(s, item, item.words).score

\* A count that is not inverted
Counted(s, item) == Score(s, item)

\* normalized_value: an anti-pattern counts against its health
Value(s, item) ==
  LET score == Score(s, item)
  IN IF score = None \/ s = "maturity" THEN score ELSE 3 - score

\* pairResult: both members, corroborated by their geometric mean, or the one
\* that is resolved
PairValue(p, capability, health) ==
  IF capability # None /\ health # None
  THEN ((100 - Strength[p]) * (capability + health) * (Unit \div 2)
         + Strength[p] * Root(capability * health * Unit * Unit)) \div 300
  ELSE IF capability # None THEN (capability * Unit) \div 3
  ELSE IF health # None THEN (health * Unit) \div 3
  ELSE 0

PairResult(p, items) ==
  LET capability == Value("maturity", items.maturity)
      health     == Value("antipattern", items.antipattern)
  IN [credit |-> (IF capability # None THEN 1 ELSE 0) + (IF health # None THEN 1 ELSE 0),
      value |-> PairValue(p, capability, health),
      contradiction |-> /\ capability # None /\ health # None
                        /\ capability >= 2 /\ health <= 1]

\* aggregate, of the results of a domain or of the whole registry; every pair
\* weighs the same
Aggregate(results) ==
  LET pairs    == DOMAIN results
      both     == {p \in pairs : results[p].credit = 2}
      credit   == SumFunction([p \in pairs |-> results[p].credit])
      observed == SumFunction([p \in pairs |-> results[p].credit * results[p].value]) \div credit
      share    == (credit * Unit * Unit) \div (2 * Cardinality(pairs))
  IN [corroborated |-> IF both = {} THEN None
                       ELSE Rounded(SumFunction([p \in both |-> results[p].value]),
                                    Cardinality(both) * 10),
      observed |-> IF credit = 0 THEN None ELSE Rounded(observed, 10),
      resolution |-> Share(credit, 2 * Cardinality(pairs)),
      adjusted |-> IF credit = 0 THEN None ELSE Rounded(observed * Root(share), 10 * Unit),
      contradictions |-> Cardinality({p \in pairs : results[p].contradiction})]

\* calculateResolutionBasedMaturity
Maturity(l) ==
  LET Results(pairs) == [p \in pairs |-> PairResult(p, l[p])]
  IN [overall |-> Aggregate(Results(Pairs)),
      domains |-> [d \in Domains |-> Aggregate(Results({p \in Pairs : DomainOf[p] = d}))]]

\* The criteria that the maturity model resolves
Resolved(l) == {c \in Criteria : Score(c[2], l[c[1]][c[2]]) # None}

\* Domains with less than a tenth of their criteria resolved
Silent(resolved) ==
  {d \in Domains :
     LET own == {c \in Criteria : DomainOf[c[1]] = d}
     IN Share(Cardinality(resolved \cap own), Cardinality(own)) < 100}

\* evaluateAssessmentSufficiency: whether the evidence carries a classification
Sufficient(l, resolved, overall, ready) ==
  /\ Share(Cardinality(resolved), Cardinality(Criteria)) >= 300
  /\ overall.resolution >= 300
  /\ \A c \in resolved :
       LET found == l[c[1]][c[2]]
       IN \/ found.bound
          \/ Resolution(c[2], found, found.words).reason = "GOVERNED_TESTED_ABSENCE"
  /\ \A c \in Criteria : ~l[c[1]][c[2]].unresolved
  /\ ready

-----------------------------------------------------------------------------
(* The metrics *)

Inferred(item) == InferredAbsence(item, item.words)

\* hasVerifiedSourceCoverage: a derived quote is no source quote.
Verified(s, item) ==
  /\ ~item.unresolved
  /\ \/ item.assessed /\ item.direct
     \/ /\ s = "antipattern"
        /\ item.status \notin {"unsupported", "missing"}
        /\ Inferred(item) = "tested_absent"

Present == {"confirmed_present", "partially_present"}

\* What an anti-pattern adds to the burden
Burden(item) ==
  CASE Inferred(item) = "confirmed_present" -> 3
    [] Inferred(item) = "partially_present" -> Higher(item.count, 1)
    [] OTHER                                -> item.count

Percent(part, whole) == IF whole = 0 THEN 0 ELSE Rounded(100 * part, whole)

\* calculateMetrics: the counts that the gate, the bracket and the report read.  The
\* burden and the share of zeroes are not rounded there: burden is as it is printed,
\* heavy and mostlyZero are what the exact values are asked.
Tally(l) ==
  LET items(s)  == {p \in Pairs : ~l[p][s].unresolved}
      proven(s) == {p \in items(s) : Verified(s, l[p][s])}
      M(p)      == l[p]["maturity"]
      A(p)      == l[p]["antipattern"]
      zeroes    == {p \in items("maturity") : M(p).count = 0}
      eligible  == {p \in proven("antipattern") : Inferred(A(p)) # "unknown_absent"}
      load      == SumFunction([p \in eligible |-> Burden(A(p))])
      n         == Cardinality(Pairs)
  IN [density |-> Percent(Cardinality(proven("maturity")) + Cardinality(proven("antipattern")), 2 * n),
      coverage |-> Percent(Cardinality(proven("antipattern")), n),
      depth |-> Percent(SumFunction([p \in proven("maturity") |-> M(p).count]), 3 * n),
      gaps |-> Cardinality(zeroes),
      silentAreas |-> Cardinality(zeroes \ proven("maturity")),
      mostlyZero |-> /\ proven("maturity") # {}
                     /\ 100 * Cardinality(zeroes \cap proven("maturity"))
                          >= 70 * Cardinality(proven("maturity")),
      burden |-> Percent(load, 3 * Cardinality(eligible)),
      heavy |-> 100 * load > 210 * Cardinality(eligible),
      clearance |-> Percent(Cardinality({p \in items("antipattern") :
                                           Inferred(A(p)) = "tested_absent"}), n),
      findings |-> Cardinality({p \in items("antipattern") : Inferred(A(p)) \in Present})]

\* crawl_walk_run: 1 for insufficient evidence, then Crawl, Walk and Run
Band(sufficient, overall) ==
  IF ~sufficient \/ overall.adjusted = None THEN 1
  ELSE IF overall.adjusted < 330 THEN 2
  ELSE IF overall.adjusted < 660 THEN 3
  ELSE 4

\* Phase2Validation
Metrics(l, ready) ==
  LET maturity   == Maturity(l)
      resolved   == Resolved(l)
      sufficient == Sufficient(l, resolved, maturity.overall, ready)
  IN [maturity |-> maturity, sufficient |-> sufficient, ready |-> ready,
      silent |-> Silent(resolved), tally |-> Tally(l),
      band |-> Band(sufficient, maturity.overall)]

\* computeConfidenceBracket: 1 for LOW, 2 for MEDIUM, 3 for HIGH.  Every item that
\* the gate accepted was delivered.
Bracket(tally) ==
  IF tally.density < 30 THEN 1
  ELSE IF tally.density >= 70 /\ tally.silentAreas <= FewSilent THEN 3
  ELSE 2

\* autoEscalate: synthesis takes the route of the reasoner
Escalates(metrics) ==
  LET readiness == IF metrics.maturity.overall.adjusted = None THEN 0
                   ELSE metrics.maturity.overall.adjusted
  IN \/ metrics.band = 2 /\ metrics.tally.findings >= ManyFound
     \/ readiness < 300
     \/ metrics.tally.gaps >= ManyGaps
     \/ metrics.tally.heavy

-----------------------------------------------------------------------------
(* What the report and Phase 3 take from it *)

\* maturityItemAssessed
RowAssessed(item) ==
  /\ ~item.silent /\ ~item.unresolved
  /\ \/ item.bound \/ item.stray
     \/ item.count > 0
     \/ item.status \in {"supported", "weak"}

\* computeDomainSignalRows, one row: the percentages and their tones, 1 for red to
\* 3 for green, and 0 for grey when too few items were assessed
Row(l, d) ==
  LET own      == {p \in Pairs : DomainOf[p] = d}
      assessed == {p \in own : RowAssessed(l[p].maturity)}
      absence  == [p \in own |-> IF l[p].antipattern.unresolved THEN "unknown_absent"
                                 ELSE Inferred(l[p].antipattern)]
      unknown  == {p \in own : absence[p] = "unknown_absent"}
      weight   == 2 * Cardinality({p \in own : absence[p] = "confirmed_present"})
                  + Cardinality({p \in own : absence[p] = "partially_present"})
      n        == Cardinality(own)
      maturity == Percent(SumFunction([p \in assessed |-> l[p].maturity.count]),
                          3 * Cardinality(assessed))
      burden   == Percent(weight, 2 * n)
  IN [maturity |-> maturity,
      burden |-> burden,
      maturityTone |-> IF 10 * Cardinality(assessed) < 6 * n THEN 0
                       ELSE IF maturity >= 70 THEN 3 ELSE IF maturity >= 40 THEN 2 ELSE 1,
      burdenTone |-> IF 10 * Cardinality(unknown) >= 6 * n THEN 0
                     ELSE IF burden <= 10 THEN 3 ELSE IF burden <= 30 THEN 2 ELSE 1]

\* Coverage that takes a quote
Quoted(s, item) == item.bound \/ item.stray

\* isCovered, of the acquisition snapshot
Covered(s, item) ==
  \/ item.bound \/ item.stray
  \/ /\ s = "antipattern"
     /\ item.status \notin {"unsupported", "missing"}
     /\ item.absence = "tested_absent"

\* statusWeight, in halves
Weight(item) == CASE item.status = "supported" -> 2 [] item.status = "weak" -> 1 [] OTHER -> 0

\* buildAcquisitionQualitySnapshot: the coverage of the streams and the domains,
\* and how well what is covered was verified
Snapshot(l) ==
  LET covered  == {c \in Criteria : Covered(c[2], l[c[1]][c[2]])}
      Of(some) == Percent(Cardinality(covered \cap some), Cardinality(some))
  IN [streams  |-> [s \in Streams |-> Of(Pairs \X {s})],
      domains  |-> [d \in Domains |-> Of({c \in Criteria : DomainOf[c[1]] = d})],
      strength |-> Percent(SumFunction([c \in covered |-> Weight(l[c[1]][c[2]])]),
                           2 * Cardinality(covered))]

\* confirmedCriterionFindings
Findings(l) ==
  {c \in Criteria :
     LET item == l[c[1]][c[2]]
     IN /\ item.assessed
        /\ Verified(c[2], item)
        /\ IF c[2] = "maturity" THEN item.count < 3 ELSE Inferred(item) \in Present}

\* active_criteria of buildTacticSelectionPlan
ActiveCriteria(l, silent) == {c \in Findings(l) : DomainOf[c[1]] \notin silent}

\* runQualityGate, what it finds in the audit: 1 blocks, 2 warns, 3 is clear.
\* Unrouted says that a source packet covers its domain weakly.
AuditVerdict(l, tally, checked, unrouted) ==
  IF \/ tally.density < 30
     \/ checked.failed
     \/ \E c \in Criteria :
          LET item == l[c[1]][c[2]]
          IN ~item.unresolved /\ item.count > 0 /\ ~item.bound /\ ~item.stray
  THEN 1
  ELSE IF \/ tally.density < 60 \/ tally.coverage < 60
          \/ tally.silentAreas > ManySilent \/ tally.mostlyZero
          \/ unrouted \/ checked.lowered
          \/ \E c \in Criteria : l[c[1]][c[2]].status \in {"unsupported", "missing"}
  THEN 2
  ELSE 3

-----------------------------------------------------------------------------
(* The state *)

VARIABLES
  followed,   \* the criterion's item, sanitized
  log,        \* auditLogs
  check,      \* of aggregatedRawData.evidence_check: whether it failed, and lowered a count
  metrics,    \* validationData
  bracket,    \* confidenceBracket
  deeper,     \* useEscalation
  audit,      \* what the quality gate finds in the audit
  active      \* active_criteria of the tactic selection plan

\* What the batch of the criterion works with
Locals == <<stream, pass, scan, verdict, failed, newScan, newVerdict, before, entry, adjustment>>

assessmentVars == <<followed, log, check, metrics, bracket, deeper, audit, active>>

AssessmentInit ==
  /\ Init
  /\ followed = None /\ log = None /\ check = None /\ metrics = None
  /\ bracket = None /\ deeper = None /\ audit = None /\ active = None

\* The batch of the criterion goes its way
Batch == Next /\ UNCHANGED assessmentVars

\* The gate before synthesis lets the batches' results through, and the
\* criterion's item is sanitized.
Accept ==
  /\ pc = "gate"
  /\ GateAccepts(entry, verdict)
  /\ \E words \in Words, direct \in BOOLEAN :
       /\ stream = "maturity" => words = "neither"
       /\ direct => entry.bound
       /\ followed' = Sanitized(stream, entry, verdict.unresolved, words, direct)
  /\ check' = [failed |-> failed,
               lowered |-> /\ adjustment # None /\ ~entry.unresolved
                           /\ adjustment.verified < adjustment.original]
  /\ pc' = "assemble"
  /\ pass' = 0 /\ failed' = FALSE
  /\ scan' = None /\ verdict' = None /\ newScan' = None /\ newVerdict' = None
  /\ before' = None /\ entry' = None /\ adjustment' = None
  /\ UNCHANGED <<stream, log, metrics, bracket, deeper, audit, active>>

\* The check of the domain that was merged last
LastFailed(whole, own) == own

\* mergeEvidenceCheckResults: the check failed if it did for the domain of any
\* criterion.
AnyFailed(whole, own) ==
  own \/ \E c \in Criteria \ {<<Self, stream>>} : whole[c[1]][c[2]].doubt # "no"

\* The log of the run, if it is valid
Assemble ==
  /\ pc = "assemble"
  /\ \E company \in Companies :
       LET whole == [company EXCEPT ![Self][stream] = followed]
       IN /\ \A c \in Criteria : Valid(whole[c[1]][c[2]])
          /\ log' = whole
          /\ check' = [check EXCEPT !.failed = AnyFailed(whole, @)]
  /\ followed' = None
  /\ pc' = "calculate"
  /\ UNCHANGED <<Locals, metrics, bracket, deeper, audit, active>>

\* Phase 2, and the choice of the synthesis
Calculate ==
  /\ pc = "calculate"
  /\ \E ready, deep \in BOOLEAN :
       LET computed == Metrics(log, ready)
       IN /\ metrics' = computed
          /\ bracket' = IF check.failed THEN 1 ELSE Bracket(computed.tally)
          /\ deeper' = (deep \/ Escalates(computed))
  /\ pc' = "plan"
  /\ UNCHANGED <<Locals, followed, log, check, audit, active>>

\* What the strategy may build on, and what the gate will read
Plan ==
  /\ pc = "plan"
  /\ active' = ActiveCriteria(log, metrics.silent)
  /\ \E unrouted \in BOOLEAN : audit' = AuditVerdict(log, metrics.tally, check, unrouted)
  /\ pc' = "strategy"
  /\ UNCHANGED <<Locals, followed, log, check, metrics, bracket, deeper>>

AssessmentNext == Batch \/ Accept \/ Assemble \/ Calculate \/ Plan

\* Every answer has a deadline, so Phase 1 does not stop; what follows is local.
AssessmentSpec ==
  /\ AssessmentInit /\ [][AssessmentNext]_<<vars, assessmentVars>>
  /\ WF_<<vars, assessmentVars>>(Batch \/ Accept \/ Assemble)

-----------------------------------------------------------------------------
(* Properties *)

At(c) == log[c[1]][c[2]]

\* The services ask in five ways whether a criterion has evidence, and their
\* answers nest: what the maturity model resolves on direct evidence is verified
\* for the metrics, what is verified is covered for the acquisition snapshot, a
\* resolved capability counts as assessed in the row of its domain, and a
\* resolved direct shortfall outside the silent domains can activate a tactic.
\* So the coverage that the snapshot takes over from the metrics lies within what
\* it says of its streams, and a classification that rests on no derived quote is
\* never published over a density that the gate blocks.
CoverageNests ==
  pc = "strategy" =>
    /\ \A c \in Resolved(log) :
         /\ At(c).direct \/ (At(c).count = 0 /\ c[2] = "antipattern") => Verified(c[2], At(c))
         /\ c[2] = "maturity" => RowAssessed(At(c))
         /\ /\ At(c).direct /\ DomainOf[c[1]] \notin metrics.silent
            /\ Value(c[2], At(c)) < 3
            => c \in active
    /\ \A c \in Criteria : Verified(c[2], At(c)) => Covered(c[2], At(c))
    /\ \E s \in Streams : metrics.tally.density <= Snapshot(log).streams[s]
    /\ /\ metrics.sufficient
       /\ \A c \in Resolved(log) : At(c).bound => At(c).direct
       => metrics.tally.density >= 30

\* One verdict that was not reached, in whatever domain, keeps the report from
\* being acted on: synthesis is in findings mode and the gate blocks.  An item
\* without a verification publishes no classification, takes no score, proves
\* nothing and activates nothing.
UnverifiedNotActionable ==
  pc = "strategy" =>
    \A c \in Criteria :
      /\ At(c).doubt # "no" => bracket = 1 /\ audit = 1
      /\ At(c).doubt = "verification" =>
           /\ metrics.band = 1
           /\ c \notin Resolved(log) \cup active
           /\ ~Verified(c[2], At(c)) /\ (c[2] = "maturity" => ~RowAssessed(At(c)))

\* The item one step better
Better(s, item) ==
  IF s = "maturity"
  THEN [item EXCEPT !.count = @ + 1, !.supported = @ + 1]
  ELSE [item EXCEPT !.count = @ - 1, !.supported = @ - 1, !.words = "neither",
                    !.status = IF item.count = 1 THEN "supported" ELSE @,
                    !.absence = IF item.count = 1 THEN "tested_absent" ELSE "partially_present"]

NoLower(old, new) == old = None \/ (new # None /\ new >= old)

\* A criterion that did one step better never makes the organisation look worse:
\* neither the maturity of its domain and of the whole, nor the band, the
\* burden, the confidence, the row of its domain, the acquisition snapshot, the
\* gate's judgement or the route of the synthesis.
BetterNeverHarms ==
  pc = "strategy" /\ Value(stream, log[Self][stream]) \in 0 .. 2 =>
    LET better == [log EXCEPT ![Self][stream] = Better(stream, @)]
        new    == Metrics(better, metrics.ready)
        d      == DomainOf[Self]
        row    == Row(log, d)
        newRow == Row(better, d)
    IN /\ \A part \in {"corroborated", "observed", "adjusted"} :
            /\ NoLower(metrics.maturity.overall[part], new.maturity.overall[part])
            /\ NoLower(metrics.maturity.domains[d][part], new.maturity.domains[d][part])
       /\ new.band >= metrics.band
       /\ Bracket(new.tally) >= Bracket(metrics.tally)
       /\ new.tally.burden <= metrics.tally.burden
       /\ new.tally.depth >= metrics.tally.depth
       /\ new.tally.findings <= metrics.tally.findings
       /\ newRow.maturity >= row.maturity /\ newRow.maturityTone >= row.maturityTone
       /\ newRow.burden <= row.burden /\ newRow.burdenTone >= row.burdenTone
       /\ Snapshot(better).strength >= Snapshot(log).strength
       /\ \A s \in Streams : Snapshot(better).streams[s] >= Snapshot(log).streams[s]
       /\ Snapshot(better).domains[d] >= Snapshot(log).domains[d]
       /\ \A unrouted \in BOOLEAN :
            AuditVerdict(better, new.tally, check, unrouted)
              >= AuditVerdict(log, metrics.tally, check, unrouted)
       /\ Escalates(new) => Escalates(metrics)

\* Every criterion reaches the log of the run: the rescans come to an end, and
\* what leaves them is refused neither by the gate nor by the validation of the log.
Assembled == <>(log # None)
=============================================================================
