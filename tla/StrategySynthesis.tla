------------------------- MODULE StrategySynthesis -------------------------
(***************************************************************************)
(* Phase 3 of a run, runAnalysis in src/src/services/analysisService.ts:   *)
(* the strategy is composed by the models, its tactic references are       *)
(* validated and grounded, it is fact-checked and repaired, sanitized,     *)
(* repaired once more for its required tactics, judged by the quality gate *)
(* and, when only the fact-check blocks it, checked by a stronger model.   *)
(*                                                                         *)
(* The models' answers are any that the output contracts and the parsers   *)
(* let through.  A summary is the set of the statements it makes, a        *)
(* roadmap the set of its actions; an action cites one tactic at most.     *)
(***************************************************************************)
EXTENDS Integers, FiniteSets

CONSTANTS
  Statements,   \* what the summaries and the diagnosis may state
  Actions,      \* the actions a roadmap may have
  Offered,      \* those that the models may write
  Bare,         \* the action that is left of one whose tactic ID is removed
  Withheld,     \* actions without a finding, or for tactics of silent domains only
  Required,     \* tactics that a confirmed anti-pattern makes mandatory
  Tactics,      \* the tactics database
  Unknown,      \* an ID that is not in it
  None,         \* no tactic, no disposition, no draft
  Cites,        \* what a statement or an action cites
  MaxRegens,    \* ID_VALIDATION_MAX_REGENS: 2 in the code
  MaxRetries,   \* FACT_CHECK_MAX_RETRIES: 2 in the code
  MaxClaims     \* unsupported claims of one check: 15 in the code

\* What a strategy and its checks say comes from bounded answers.
ASSUME StrategyAssumption ==
  /\ IsFiniteSet(Statements) /\ IsFiniteSet(Actions)
  /\ Statements \cap Actions = {}
  /\ Offered \subseteq Actions /\ Withheld \subseteq Actions
  /\ Bare \in Actions \ Withheld
  /\ Required \subseteq Tactics
  /\ Unknown \notin Tactics /\ None \notin Tactics \cup {Unknown}
  /\ Cites \in [Statements \cup Actions -> Tactics \cup {Unknown, None}]
  /\ Cites[Bare] = None
  /\ MaxRegens \in Nat /\ MaxRetries \in Nat /\ MaxClaims \in Nat

Texts     == Statements \cup Actions

\* A strategy, with the actions that grounding took out of it
Strategies == [sum : SUBSET Statements, road : SUBSET Actions, out : SUBSET Withheld]

Parts     == {"summary", "roadmap"}
Decisions == {"GO", "CONDITIONAL_GO", "NO_GO"}
Gates     == {"GO", "WARN", "BLOCK"}
Dispositions == {"contraindicated", "citation_rejected"}

\* An unsupported claim of a fact-check: the text it is about, whether its
\* severity blocks, whether it quotes that text so that it can be found there,
\* with the tactic ID or without, and the disposition of the tactic.
Claims == [text : Texts, severity : {"blocking", "hygiene"},
           quotes : {"nothing", "words", "tactic"},
           disposition : Dispositions \cup {None}]

VARIABLES
  pc,
  low,          \* confidenceBracket is LOW: findings mode
  dense,        \* evidence density reaches the floor
  other,        \* what the gate finds in the audit itself: "clear", "warns", "blocks"
  draft,        \* the strategy in callPhase3Validated and then its candidate
  scope,        \* requestedScope: the parts to compose anew
  regens,       \* regen
  notes,        \* tacticGroundingAdjustments: the actions withheld
  strategy,     \* strategyData
  check,        \* acceptedFactChecks
  unsupported,  \* factCheck.unsupported_claims
  attempt,      \* fact-check passes so far
  sanitized,    \* factCheck.sanitized_claims: the texts they are about
  review,       \* reviewedByTactic: the last disposition of each required tactic
  repair,       \* requiredTacticRepairAttempted, requiredTacticRepairSucceeded
  gate,         \* qualityGate.decision
  decision,     \* planning_decision of the report
  \* what the properties remember
  rewritten,    \* the parts of the draft that are new
  fresh,        \* the parts of the strategy that no accepted check has read
  rejected      \* a grounded candidate has been rejected

vars == <<pc, low, dense, other, draft, scope, regens, notes, strategy, check,
          unsupported, attempt, sanitized, review, repair, gate, decision,
          rewritten, fresh, rejected>>

-----------------------------------------------------------------------------
(* Composing *)

\* tacticSelectionPlan: nothing is required of findings mode
Plan == IF low THEN {} ELSE Required

Cited(texts) == {Cites[x] : x \in texts}

\* findMissingRequiredTacticIds
Missing(road, plan) == plan \ Cited(road)

\* findInvalidTacticIds: over the whole strategy, its summaries included
Invalid(s) == Unknown \in Cited(s.sum \cup s.road)

\* What the contract of callRoadmapSynthesis lets through; the findings mode
\* that stands for all of it under LOW has an empty roadmap.
Roadmaps(plan) ==
  IF low THEN {{}} ELSE {road \in SUBSET Offered : Missing(road, plan) = {}}

\* callPhase3: under LOW it composes everything whatever its scope
Composed(from, parts) ==
  LET sums   == IF low \/ "summary" \in parts THEN SUBSET Statements ELSE {from.sum}
      anew   == [sum : sums, road : Roadmaps(Plan), out : {{}}]
      locked == [sum : sums, road : {from.road}, out : {from.out}]
  IN IF low \/ "roadmap" \in parts THEN anew ELSE locked

\* buildDeterministicLowConfidenceStrategy
Deterministic == [sum |-> {x \in Statements : Cites[x] = None}, road |-> {}, out |-> {}]

\* A grounding that keeps the actions for required tactics, founded or not.
GroundedOptional(s) ==
  LET out == {x \in s.road \cap Withheld : Cites[x] \notin Required}
  IN [s EXCEPT !.road = @ \ out, !.out = @ \cup out]

\* sanitizeRoadmapTacticGrounding
Grounded(s) == [s EXCEPT !.road = @ \ Withheld, !.out = @ \cup (s.road \cap Withheld)]

-----------------------------------------------------------------------------
(* Checking *)

Claim(text, verdict) ==
  [text |-> text, severity |-> verdict.severity, quotes |-> verdict.quotes,
   disposition |-> verdict.disposition]

\* The verdicts on a text that matter apart: a disposition is heeded only in a
\* hygiene claim that quotes a required tactic in a roadmap action.
VerdictsOn(text) ==
  [severity : {"blocking", "hygiene"}, quotes : {"nothing", "words"}, disposition : {None}]
  \cup IF text \in Actions /\ Cites[text] # None
       THEN [severity : {"hygiene"}, quotes : {"tactic"},
             disposition : {None} \cup IF Cites[text] \in Required THEN Dispositions ELSE {}]
       ELSE {}

\* parseFactCheckResponse: the unsupported claims that one check of these texts
\* may return
Judgements(texts) ==
  UNION {{{Claim(x, verdict[x]) : x \in flagged} :
             verdict \in {v \in [flagged -> UNION {VerdictsOn(x) : x \in flagged}] :
                            \A x \in flagged : v[x] \in VerdictsOn(x)}} :
           flagged \in {f \in SUBSET texts : Cardinality(f) <= MaxClaims}}

\* claimsForRepairScope
ClaimsOn(part, claims) ==
  {c \in claims : c.text \in IF part = "summary" THEN Statements ELSE Actions}

\* determineFactCheckRepairScope
RepairScope(claims) ==
  IF low THEN Parts
  ELSE {part \in Parts : ClaimsOn(part, claims) # {}}

\* isBlockingUnsupportedClaim, under the severities of the contracts
Blocking(claims) == {c \in claims : c.severity = "blocking"}

\* isStrictFactCheckImprovement
Improves(new, old, parts) ==
  LET In(claims) == UNION {ClaimsOn(part, claims) : part \in parts}
      Total(claims) == Cardinality(In(claims))
      Blocked(claims) == Cardinality(Blocking(In(claims)))
  IN \/ Blocked(new) < Blocked(old)
     \/ /\ Blocked(new) = Blocked(old)
        /\ Total(new) < Total(old)

-----------------------------------------------------------------------------
(* Sanitizing *)

\* sanitizeStrategyAfterFactCheck handles the claims whose text it finds.
Handled(s, claims) == {c \in claims : c.quotes # "nothing" /\ c.text \in s.sum \cup s.road}

\* preserveRoadmapActionWithoutRejectedTactic: the action stays without the ID.
Stripped(s, claims) == {c \in Handled(s, claims) : c.quotes = "tactic"}

\* removeRoadmapAction, sanitizeStringsDeep
Cleaned(s, claims) ==
  LET gone == {c.text : c \in Handled(s, claims)}
  IN [s EXCEPT !.sum = @ \ gone,
               !.road = (@ \ gone) \cup (IF Stripped(s, claims) # {} THEN {Bare} ELSE {})]

\* reviewedByTactic: the last reviewed item of a tactic counts; the order of
\* the claims is the checker's.
Reviews(before, items) ==
  LET On(t) == {c.disposition : c \in {i \in items : i.disposition # None /\ Cites[i.text] = t}}
  IN {after \in [Required -> Dispositions \cup {None}] :
        \A t \in Required : after[t] \in IF On(t) = {} THEN {before[t]} ELSE On(t)}

\* classifyFinalRequiredTactics
Contraindicated(road, reviews) ==
  {t \in Missing(road, Plan) : reviews[t] = "contraindicated"}
Unresolved(road, reviews) == Missing(road, Plan) \ Contraindicated(road, reviews)

-----------------------------------------------------------------------------
(* Judging *)

\* A gate that forgets the required tactics
ValidationErrors(s, reviews) ==
  \/ ~low /\ s.road = {}
  \/ Unknown \in Cited(s.road)

\* validatePhase3Grounding and the unresolved required tactics
GroundingErrors(s, reviews) ==
  \/ ~low /\ s.road = {}
  \/ Unknown \in Cited(s.road)
  \/ Unresolved(s.road, reviews) # {}

\* runQualityGate
Judged(s, claims, items, reviews, audit) ==
  IF \/ audit = "blocks" \/ check.failed
     \/ GroundingErrors(s, reviews)
     \/ Blocking(claims) # {}
  THEN "BLOCK"
  ELSE IF \/ audit = "warns"
          \/ items # {} \/ claims # {}
          \/ notes # {}
          \/ Contraindicated(s.road, reviews) # {}
          \/ s.road # {} /\ Cited(s.road) \cap Tactics = {}
       THEN "WARN"
       ELSE "GO"

\* factCheckOnlyBlock
OnlyFactCheckBlocks(audit) ==
  /\ Blocking(unsupported) # {}
  /\ audit # "blocks" /\ ~check.failed
  /\ ~GroundingErrors(strategy, review)

-----------------------------------------------------------------------------
(* A run: what Phase 2 hands over *)

\* computeConfidenceBracket: a density below the floor is LOW
Init ==
  /\ low \in BOOLEAN
  /\ dense \in BOOLEAN
  /\ ~dense => low
  /\ other = None
  /\ pc = "compose" /\ scope = Parts /\ regens = 0
  /\ draft = None /\ strategy = None
  /\ notes = {} /\ unsupported = {} /\ sanitized = {}
  /\ check = [failed |-> FALSE, summary |-> {}, roadmap |-> {}]
  /\ attempt = 0
  /\ review = [t \in Required |-> None]
  /\ repair = "no" /\ gate = None /\ decision = None
  /\ rewritten = {} /\ fresh = {} /\ rejected = FALSE

\* Variables that no step before the sanitation changes
Later  == <<sanitized, review, repair, gate, decision>>
\* Variables that composing leaves alone
Checked == <<strategy, check, unsupported, attempt, scope, fresh>>

\* The composed draft is final: its unfounded and silent-only actions are
\* withheld, and the record of them is overwritten.
Ground(s) ==
  /\ Missing(Grounded(s).road, Plan) = {}
  /\ draft' = Grounded(s)
  /\ notes' = s.road \cap Withheld
  /\ pc' = "check"

\* The ID validation of callPhase3Validated, after n regenerations.  A roadmap
\* that is to be composed again is dropped here already.
Validate(s, n) ==
  /\ regens' = n
  /\ \/ /\ Invalid(s) /\ n < MaxRegens
        /\ draft' = [s EXCEPT !.road = {}] /\ pc' = "regenerate"
        /\ UNCHANGED notes
     \/ /\ Invalid(s) => n >= MaxRegens
        /\ \/ Ground(s)
           \/ /\ Missing(Grounded(s).road, Plan) # {}
              /\ draft' = [s EXCEPT !.road = {}] /\ pc' = "require"
              /\ UNCHANGED notes

\* The parts that a call with this scope writes
Written(parts) == IF low THEN Parts ELSE parts

\* callPhase3Validated: the first draft of a strategy or of a repair
Compose ==
  /\ pc = "compose" /\ (attempt = 0 => dense)
  /\ \E s \in Composed(strategy, scope) : Validate(s, 0)
  /\ rewritten' = Written(scope)
  /\ UNCHANGED <<low, dense, other, rejected, Later, Checked>>

\* Invalid IDs, wherever they are, have the roadmap composed again.
Regenerate ==
  /\ pc = "regenerate"
  /\ \E s \in Composed(draft, {"roadmap"}) : Validate(s, regens + 1)
  /\ rewritten' = rewritten \cup Written({"roadmap"})
  /\ UNCHANGED <<low, dense, other, rejected, Later, Checked>>

\* Grounding withheld a required tactic: one more roadmap, which must be valid.
Require ==
  /\ pc = "require"
  /\ \E s \in Composed(draft, {"roadmap"}) : ~Invalid(s) /\ Ground(s)
  /\ rewritten' = rewritten \cup Written({"roadmap"})
  /\ UNCHANGED <<low, dense, other, rejected, regens, Later, Checked>>

\* No findings without the density, and none to be had under LOW: the
\* deterministic strategy
Fallback ==
  /\ attempt = 0 /\ low
  /\ pc = "compose" \/ (dense /\ pc \in {"regenerate", "require"})
  /\ draft' = Deterministic /\ rewritten' = Parts
  /\ pc' = "check"
  /\ UNCHANGED <<low, dense, other, rejected, regens, notes, Later, Checked>>

\* A model call, or the contract of the first strategy, fails: so does the run.
RunFails ==
  /\ attempt = 0 /\ ~low
  /\ pc \in {"compose", "regenerate", "require"}
  /\ pc' = "failed"
  /\ UNCHANGED <<low, dense, other, draft, regens, notes, rewritten, rejected,
                 Later, Checked>>

\* The same in a repair: the candidate is dropped and the loop left.
RepairDropped ==
  /\ attempt > 0
  /\ pc \in {"compose", "regenerate", "require"}
  /\ pc' = "sanitize" /\ draft' = None /\ rewritten' = {}
  /\ scope' = Parts /\ regens' = 0
  /\ UNCHANGED <<low, dense, other, notes, rejected, Later,
                 strategy, check, unsupported, attempt, fresh>>

-----------------------------------------------------------------------------
(* The fact-check loop *)

\* A loop that counts its retries one too far
ProceedOnceMore(claims, pass) ==
  \/ /\ claims # {} /\ pass <= MaxRetries + 1
     /\ pc' = "compose" /\ scope' = RepairScope(claims)
  \/ /\ claims = {} \/ pass > MaxRetries + 1
     /\ pc' = "sanitize" /\ scope' = Parts

\* Claims left and passes left: the next repair
Proceed(claims, pass) ==
  \/ /\ claims # {} /\ pass <= MaxRetries
     /\ pc' = "compose" /\ scope' = RepairScope(claims)
  \/ /\ claims = {} \/ pass > MaxRetries
     /\ pc' = "sanitize" /\ scope' = Parts

\* A check that reads the locked part again as well
VerdictsOnAll(s, parts) ==
  [failed : {FALSE}, summary : Judgements(s.sum), roadmap : Judgements(s.road)]

\* runFactCheck: a check of the scope, with the accepted claims on the rest
Verdicts(s, parts) ==
  [failed  : {FALSE},
   summary : IF "summary" \in parts THEN Judgements(s.sum) ELSE {check.summary},
   roadmap : IF "roadmap" \in parts THEN Judgements(s.road) ELSE {check.roadmap}]

\* mergeRequiredFactChecks
Merged(c) == c.summary \cup c.roadmap

Accept(c) ==
  /\ strategy' = draft /\ check' = c /\ unsupported' = Merged(c)
  /\ fresh' = (fresh \cup rewritten) \ scope
  /\ Proceed(Merged(c), attempt + 1)
  /\ UNCHANGED rejected

\* A rejected candidate that is kept all the same
RejectLate ==
  /\ rejected' = TRUE /\ pc' = "sanitize" /\ scope' = Parts
  /\ strategy' = draft /\ fresh' = fresh \cup rewritten
  /\ UNCHANGED <<check, unsupported>>

Reject ==
  /\ rejected' = TRUE /\ pc' = "sanitize" /\ scope' = Parts
  /\ UNCHANGED <<strategy, check, unsupported, fresh>>

Check ==
  /\ pc = "check"
  /\ attempt' = attempt + 1
  /\ \E c \in Verdicts(draft, scope) :
       IF attempt = 0 \/ Improves(Merged(c), unsupported, scope) THEN Accept(c) ELSE Reject
  /\ draft' = None /\ rewritten' = {} /\ regens' = 0
  /\ UNCHANGED <<low, dense, other, notes, Later>>

\* The call or its parsing fails: the first strategy goes on unchecked, the
\* candidate of a repair is dropped.
CheckFails ==
  /\ pc = "check"
  /\ attempt' = attempt + 1
  /\ \/ /\ attempt = 0
        /\ strategy' = draft /\ check' = [check EXCEPT !.failed = TRUE]
        /\ fresh' = rewritten /\ pc' = "sanitize"
        /\ UNCHANGED <<unsupported, scope, rejected>>
     \/ attempt > 0 /\ Reject
  /\ draft' = None /\ rewritten' = {} /\ regens' = 0
  /\ UNCHANGED <<low, dense, other, notes, Later>>

-----------------------------------------------------------------------------
(* After the loop *)

\* Variables that only the loop changes
Brief == <<low, dense, draft, scope, regens, notes, attempt, rewritten, rejected>>
Loop  == <<Brief, other>>

\* A sanitation whose items replace those of the check before
CleanForgetting(s, claims) ==
  LET items == Handled(s, claims)
  IN /\ strategy' = Cleaned(s, claims)
     /\ unsupported' = claims \ items
     /\ sanitized' = {c.text : c \in items}
     /\ review' \in Reviews([t \in Required |-> None], items)

\* applySanitation: the handled claims leave the strategy and join the lineage.
Clean(s, claims) ==
  LET items == Handled(s, claims)
  IN /\ strategy' = Cleaned(s, claims)
     /\ unsupported' = claims \ items
     /\ sanitized' = sanitized \cup {c.text : c \in items}
     /\ review' \in Reviews(review, items)

\* Of the accepted claims, only those on the summary are read again.
Sanitize ==
  /\ pc = "sanitize"
  /\ check' = [check EXCEPT !.roadmap = {}]
  /\ Clean(strategy, unsupported)
  /\ pc' = IF ~low /\ Unresolved(strategy'.road, review') # {} THEN "repair" ELSE "gate"
  /\ UNCHANGED <<Loop, repair, gate, decision, fresh>>

\* The single repair for required tactics: a new roadmap, neither validated nor
\* grounded, checked beside the accepted claims on the summary.
Repair ==
  /\ pc = "repair" /\ ~check.failed
  /\ \E road \in Roadmaps(Plan \ Contraindicated(strategy.road, review)) :
       LET repaired == [strategy EXCEPT !.road = road]
       IN \E c \in Verdicts(repaired, {"roadmap"}) :
            Clean(repaired, Merged(c))
  /\ repair' = IF Unresolved(strategy'.road, review') = {} THEN "succeeded" ELSE "incomplete"
  /\ fresh' = fresh \ {"roadmap"}
  /\ pc' = "gate"
  /\ UNCHANGED <<Loop, check, gate, decision>>

RepairFails ==
  /\ pc = "repair"
  /\ repair' = "failed" /\ pc' = "gate"
  /\ UNCHANGED <<Loop, strategy, check, unsupported, sanitized, review, gate, decision, fresh>>

\* The gate also reads the audit, which Phase 3 does not change: a density
\* below the floor blocks.
Gate ==
  /\ pc = "gate"
  /\ other' \in IF dense THEN {"clear", "warns", "blocks"} ELSE {"blocks"}
  /\ gate' = Judged(strategy, unsupported, sanitized, review, other')
  /\ pc' = IF OnlyFactCheckBlocks(other') THEN "escalate" ELSE "finish"
  /\ UNCHANGED <<Brief, strategy, check, unsupported, sanitized, review, repair, decision, fresh>>

\* fact_check_high reads the whole strategy; its claims are sanitized and the
\* gate judges again.
Escalate ==
  /\ pc = "escalate"
  /\ \E c \in Verdicts(strategy, Parts) : Clean(strategy, Merged(c))
  /\ gate' = Judged(strategy', unsupported', sanitized', review', other)
  /\ fresh' = {} /\ pc' = "finish"
  /\ UNCHANGED <<Loop, check, repair, decision>>

EscalateFails ==
  /\ pc = "escalate" /\ pc' = "finish"
  /\ UNCHANGED <<Loop, strategy, check, unsupported, sanitized, review, repair, gate,
                 decision, fresh>>

\* A planning decision as the model returns it
PlannedByModel == Decisions

\* normalizeStrategy holds findings mode to NO_GO.
Planned == IF low THEN {"NO_GO"} ELSE Decisions

\* sanitizeBlockedStrategy: nothing of the roadmap is left; what it keeps are
\* findings to review.
Blocked(s) == [s EXCEPT !.road = {}]

\* A blocked strategy is not to be acted on, and warnings put a condition on a GO.
Finish ==
  /\ pc = "finish" /\ pc' = "done"
  /\ \E planned \in Planned :
       decision' = IF gate = "BLOCK" THEN "NO_GO"
                   ELSE IF gate = "WARN" /\ planned = "GO" THEN "CONDITIONAL_GO" ELSE planned
  /\ strategy' = IF gate = "BLOCK" THEN Blocked(strategy) ELSE strategy
  /\ UNCHANGED <<Loop, check, unsupported, sanitized, review, repair, gate, fresh>>

\* The report is handed over, or the run failed.
Ended == pc \in {"done", "failed"} /\ UNCHANGED vars

Next ==
  \/ Compose \/ Regenerate \/ Require \/ Fallback \/ RunFails \/ RepairDropped
  \/ Check \/ CheckFails
  \/ Sanitize \/ Repair \/ RepairFails
  \/ Gate \/ Escalate \/ EscalateFails \/ Finish
  \/ Ended

Spec == Init /\ [][Next]_vars

-----------------------------------------------------------------------------
(* Properties *)

\* Types of the state
TypeOK ==
  /\ pc \in {"compose", "regenerate", "require", "check", "sanitize", "repair", "gate",
             "escalate", "finish", "done", "failed"}
  /\ low \in BOOLEAN /\ dense \in BOOLEAN
  /\ other \in {"clear", "warns", "blocks", None}
  /\ draft \in Strategies \cup {None} /\ strategy \in Strategies \cup {None}
  /\ scope \subseteq Parts /\ regens \in 0 .. MaxRegens
  /\ notes \subseteq Withheld
  /\ check \in [failed : BOOLEAN, summary : SUBSET Claims, roadmap : SUBSET Claims]
  /\ unsupported \subseteq Claims /\ sanitized \subseteq Texts
  /\ attempt \in 0 .. MaxRetries + 1
  /\ review \in [Required -> Dispositions \cup {None}]
  /\ repair \in {"no", "failed", "incomplete", "succeeded"}
  /\ gate \in Gates \cup {None} /\ decision \in Decisions \cup {None}
  /\ rewritten \subseteq Parts /\ fresh \subseteq Parts
  /\ rejected \in BOOLEAN

Actionable == pc = "done" /\ gate # "BLOCK"
Accepted(t) == t \in Cited(strategy.road)

\* docs/architecture/ADR-003, invariants 1 to 3: a plan that is not blocked has
\* every required tactic in its roadmap but those with a confirmed
\* contraindication; it went through a completed fact-check, of which no
\* blocking claim is left, and cites no unknown tactic.
RequiredSettled ==
  Actionable =>
    /\ \A t \in Plan : Accepted(t) \/ review[t] = "contraindicated"
    /\ ~check.failed /\ Blocking(unsupported) = {}
    /\ Unknown \notin Cited(strategy.road)

\* The planning decision never says more than the gate and the confidence
\* allow: a blocked or low-confidence report is NO_GO without a roadmap, and a
\* GO stands on a strategy that nothing was taken from: no claim against it was
\* sanitized or is left, and its roadmap was not the unground one of the repair.
DecisionBounded ==
  pc = "done" =>
    /\ gate = "BLOCK" \/ low => decision = "NO_GO" /\ strategy.road = {}
    /\ decision = "GO" =>
         /\ gate = "GO" /\ sanitized = {} /\ unsupported = {}
         /\ repair = "no" /\ strategy.road \cap Withheld = {}

\* What sanitation took out of the summaries stays out of the report, and only the
\* required-tactic repair, whose roadmap callPhase3Validated does not see, brings
\* in an action that grounding withholds or sanitation took out of the roadmap.
OnlyRepairRestores ==
  pc = "done" =>
    /\ strategy.sum \cap sanitized = {}
    /\ repair \in {"no", "failed"} =>
         strategy.road \cap (Withheld \cup sanitized) \subseteq {Bare}

\* No report is actionable on a summary and a diagnosis that no accepted check
\* has read.
SummaryChecked == Actionable => "summary" \notin fresh

\* The grounding notes of the report are those of its roadmap, or none when the
\* last repair left the roadmap alone, unless a rejected candidate left its own.
NotesMatch == pc = "done" /\ ~rejected => notes \in {strategy.out, {}}

\* The report can be traced: every action is one that its steps let through, and
\* the notes are those of its roadmap.
ReportTraces == OnlyRepairRestores /\ NotesMatch

\* docs/architecture/ADR-003, invariant 4: what sanitation handled stays
\* recorded through the repair and the escalation, with the dispositions.
LineageKept ==
  [][/\ sanitized \subseteq sanitized'
     /\ \A t \in Required : review[t] # None => review'[t] # None]_vars

\* docs/architecture/ADR-003, invariant 5: the repair does not change the
\* summary, the diagnosis or what was required, although it sanitizes claims on
\* the summary again.
RepairLocks == [][pc = "repair" => strategy'.sum = strategy.sum]_vars

\* No repair of the fact-check loop makes the accepted claims worse as a whole,
\* although it is compared within its own scope.
NeverWorse ==
  [][attempt > 0 /\ attempt' > attempt =>
       \/ unsupported' = unsupported
       \/ Improves(unsupported', unsupported, Parts)]_vars
=============================================================================
