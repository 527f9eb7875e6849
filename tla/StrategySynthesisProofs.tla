----------------------- MODULE StrategySynthesisProofs -----------------------
(***************************************************************************)
(* Theorems about StrategySynthesis for any statements, actions, tactics    *)
(* and bounds: the types, what an actionable report has settled, how far    *)
(* its decision may go, what stays out of it, and that lineage and locked   *)
(* summaries survive the repairs.                                           *)
(***************************************************************************)
EXTENDS StrategySynthesis, FiniteSetTheorems, TLAPS

-----------------------------------------------------------------------------
(* The inductive invariant *)

Composing == {"compose", "regenerate", "require"}
Drafted   == {"regenerate", "require", "check"}
Looping   == Composing \cup {"check"}
Early     == Looping \cup {"sanitize", "failed"}

\* Where the run stands says which of its values are there.
Stages ==
  /\ attempt > 0 => strategy \in Strategies
  /\ attempt = 0 => pc \in Looping \cup {"failed"} /\ scope = Parts
  /\ pc \in Drafted => draft \in Strategies
  /\ pc = "regenerate" => regens < MaxRegens
  /\ pc \in Looping => attempt <= MaxRetries /\ ~check.failed
  /\ low => scope = Parts /\ repair = "no" /\ pc # "repair"
  /\ pc \in {"escalate", "finish", "done"} => gate \in Gates

\* The claims are about the half of the strategy they are kept for; until the
\* sanitation the gate's claims are the accepted ones, and once it is done none
\* of those on the summary can be found there any more.
ClaimsKept ==
  /\ \A c \in check.summary : c.text \in Statements
  /\ \A c \in check.roadmap : c.text \in Actions
  /\ \A c \in check.summary \cup check.roadmap \cup unsupported :
       c.quotes = "tactic" => c.text \in Actions
  /\ pc \in Early => unsupported = Merged(check) /\ sanitized = {} /\ repair = "no"
  /\ pc = "repair" =>
       \A c \in check.summary : c.quotes # "nothing" => c.text \notin strategy.sum

\* A roadmap that went through callPhase3Validated
Founded(road) ==
  /\ road \cap Withheld = {}
  /\ Missing(road, Plan) = {}
  /\ low => road = {}

\* Until the sanitation every roadmap is grounded and has the required tactics.
RoadmapsFounded ==
  /\ pc = "check" => Founded(draft.road)
  /\ attempt > 0 /\ pc \in Early => Founded(strategy.road)
  /\ attempt > 0 /\ low => strategy.road = {}

\* What sanitation took out is out, but for what the repair restores.
TakenOut ==
  /\ attempt > 0 => strategy.sum \cap sanitized = {}
  /\ attempt > 0 /\ repair \in {"no", "failed"} =>
       strategy.road \cap (Withheld \cup sanitized) \subseteq {Bare}
  /\ pc = "repair" => repair = "no"
  /\ pc = "repair" \/ repair # "no" => sanitized # {}

\* A summary that was composed anew is in the scope of the next check.
SummaryRead ==
  /\ pc \in Drafted /\ "summary" \in rewritten => "summary" \in scope
  /\ attempt > 0 /\ ~check.failed => "summary" \notin fresh

\* What the gate's decision says of the state it judged
GateFollows ==
  /\ pc = "escalate" => gate = "BLOCK"
  /\ pc \in {"finish", "done"} /\ gate # "BLOCK" =>
       /\ ~check.failed /\ ~GroundingErrors(strategy, review) /\ Blocking(unsupported) = {}
       /\ gate = "GO" => sanitized = {} /\ unsupported = {}
  /\ pc = "done" =>
       /\ gate = "BLOCK" \/ low => decision = "NO_GO" /\ strategy.road = {}
       /\ decision = "GO" => gate = "GO"

\* The notes are the draft's from its grounding on, and the strategy's before.
NotesFollow ==
  /\ attempt = 0 /\ pc # "check" => notes = {}
  /\ pc = "check" => notes \in {draft.out, {}}
  /\ attempt > 0 /\ pc # "check" /\ ~rejected => notes \in {strategy.out, {}}

IInv ==
  /\ TypeOK /\ Stages /\ ClaimsKept /\ RoadmapsFounded /\ TakenOut /\ SummaryRead
  /\ GateFollows /\ NotesFollow

-----------------------------------------------------------------------------
(* What the operators return *)

\* A verdict has the types of a claim, and only one on an action quotes a tactic.
LEMMA VerdictTypes ==
  ASSUME NEW x \in Texts, NEW v \in VerdictsOn(x)
  PROVE  /\ v.severity \in {"blocking", "hygiene"}
         /\ v.quotes \in {"nothing", "words", "tactic"}
         /\ v.disposition \in Dispositions \cup {None}
         /\ v.quotes = "tactic" => x \in Actions
<1>1. CASE v \in [severity : {"blocking", "hygiene"}, quotes : {"nothing", "words"},
                  disposition : {None}]
  BY <1>1
<1>2. CASE /\ x \in Actions
           /\ v \in [severity : {"hygiene"}, quotes : {"tactic"},
                     disposition : {None} \cup IF Cites[x] \in Required THEN Dispositions ELSE {}]
  BY <1>2
<1> QED  BY <1>1, <1>2 DEF VerdictsOn

\* A check returns claims on the texts it read.
LEMMA JudgementsFit ==
  ASSUME NEW texts \in SUBSET Texts, NEW J \in Judgements(texts)
  PROVE  /\ J \in SUBSET Claims
         /\ \A c \in J : c.text \in texts /\ (c.quotes = "tactic" => c.text \in Actions)
<1>1. PICK flagged \in SUBSET texts :
        \E verdict \in {v \in [flagged -> UNION {VerdictsOn(x) : x \in flagged}] :
                          \A x \in flagged : v[x] \in VerdictsOn(x)} :
          J = {Claim(x, verdict[x]) : x \in flagged}
  BY DEF Judgements
<1>2. PICK verdict \in {v \in [flagged -> UNION {VerdictsOn(x) : x \in flagged}] :
                          \A x \in flagged : v[x] \in VerdictsOn(x)} :
        J = {Claim(x, verdict[x]) : x \in flagged}
  BY <1>1
<1>3. ASSUME NEW c \in J
      PROVE  c \in Claims /\ c.text \in texts /\ (c.quotes = "tactic" => c.text \in Actions)
  <2>1. PICK x \in flagged : c = Claim(x, verdict[x])
    BY <1>2
  <2>2. verdict[x] \in VerdictsOn(x) /\ x \in Texts
    BY <1>1, <1>2
  <2> QED  BY <2>1, <2>2, VerdictTypes DEF Claim, Claims
<1> QED  BY <1>3

\* runFactCheck returns claims on the half that each was asked about.
LEMMA VerdictsFit ==
  ASSUME NEW s \in Strategies, NEW parts, NEW c \in Verdicts(s, parts), TypeOK, ClaimsKept
  PROVE  /\ c \in [failed : BOOLEAN, summary : SUBSET Claims, roadmap : SUBSET Claims]
         /\ ~c.failed
         /\ \A d \in c.summary : d.text \in Statements
         /\ \A d \in c.roadmap : d.text \in Actions
         /\ \A d \in Merged(c) : d.quotes = "tactic" => d.text \in Actions
         /\ Merged(c) \in SUBSET Claims
         /\ "summary" \notin parts => c.summary = check.summary
<1>1. /\ s.sum \in SUBSET Texts /\ s.road \in SUBSET Texts
      /\ s.sum \subseteq Statements /\ s.road \subseteq Actions
  BY DEF Strategies, Texts
<1>2. /\ c.summary \in SUBSET Claims
      /\ \A d \in c.summary : d.text \in Statements /\ (d.quotes = "tactic" => d.text \in Actions)
  <2>1. CASE "summary" \in parts
    BY <1>1, <2>1, JudgementsFit DEF Verdicts
  <2>2. CASE "summary" \notin parts
    BY <2>2 DEF Verdicts, ClaimsKept, TypeOK
  <2> QED  BY <2>1, <2>2
<1>3. /\ c.roadmap \in SUBSET Claims
      /\ \A d \in c.roadmap : d.text \in Actions
  <2>1. CASE "roadmap" \in parts
    BY <1>1, <2>1, JudgementsFit DEF Verdicts
  <2>2. CASE "roadmap" \notin parts
    BY <2>2 DEF Verdicts, ClaimsKept, TypeOK
  <2> QED  BY <2>1, <2>2
<1>4. /\ c = [failed |-> c.failed, summary |-> c.summary, roadmap |-> c.roadmap] /\ c.failed = FALSE
      /\ "summary" \notin parts => c.summary = check.summary
  BY DEF Verdicts
<1> QED  BY <1>2, <1>3, <1>4 DEF Merged

\* callPhase3 returns a strategy; one whose roadmap it locked keeps it and its record.
LEMMA ComposedFits ==
  ASSUME NEW from, NEW parts \in SUBSET Parts, NEW s \in Composed(from, parts),
         StrategyAssumption, TypeOK, low \/ parts = Parts \/ from \in Strategies
  PROVE  /\ s \in Strategies
         /\ low => s.road = {}
         /\ s.out = {} \/ (s.road = from.road /\ s.out = from.out)
<1>1. CASE low \/ "roadmap" \in parts
  <2>1. s \in [sum : IF low \/ "summary" \in parts THEN SUBSET Statements ELSE {from.sum},
               road : Roadmaps(Plan), out : {{}}]
    BY <1>1 DEF Composed
  <2>2. s.road \in SUBSET Actions /\ (low => s.road = {})
    BY <2>1 DEF Roadmaps, StrategyAssumption, TypeOK
  <2>3. s.sum \in SUBSET Statements
    BY <2>1 DEF Strategies, Parts
  <2> QED  BY <2>1, <2>2, <2>3 DEF Strategies
<1>2. CASE ~(low \/ "roadmap" \in parts)
  <2>1. s \in [sum : IF low \/ "summary" \in parts THEN SUBSET Statements ELSE {from.sum},
               road : {from.road}, out : {from.out}]
    BY <1>2 DEF Composed
  <2>2. from \in Strategies
    BY <1>2 DEF Parts
  <2> QED  BY <1>2, <2>1, <2>2 DEF Strategies
<1> QED  BY <1>1, <1>2

\* Grounding takes the withheld actions out and records them.
LEMMA GroundedFits ==
  ASSUME NEW s \in Strategies
  PROVE  /\ Grounded(s) \in Strategies
         /\ Grounded(s).road \cap Withheld = {}
         /\ Grounded(s).road \subseteq s.road
         /\ Grounded(s).out = s.out \cup (s.road \cap Withheld)
BY DEF Grounded, Strategies

\* A draft that is checked is founded, and the notes are its own.
LEMMA ValidateFits ==
  ASSUME TypeOK, NEW s \in Strategies, NEW n \in 0 .. MaxRegens, StrategyAssumption,
         low => s.road = {}, s.out = {} \/ s.road \cap Withheld = {}, Validate(s, n)
  PROVE  /\ pc' \in Drafted /\ regens' = n /\ draft' \in Strategies
         /\ pc' = "regenerate" => n < MaxRegens
         /\ notes' \in SUBSET Withheld
         /\ pc' # "check" => notes' = notes
         /\ pc' = "check" => Founded(draft'.road) /\ notes' \in {draft'.out, {}}
<1> USE GroundedFits
<1>1. CASE Invalid(s) /\ n < MaxRegens /\ draft' = [s EXCEPT !.road = {}]
           /\ pc' = "regenerate" /\ notes' = notes
  BY <1>1 DEF Validate, Drafted, Strategies, TypeOK
<1>2. CASE Ground(s)
  BY <1>2 DEF Validate, Ground, Drafted, Founded, Strategies
<1>3. CASE draft' = [s EXCEPT !.road = {}] /\ pc' = "require" /\ notes' = notes
  BY <1>3 DEF Validate, Drafted, Strategies, TypeOK
<1> QED  BY <1>1, <1>2, <1>3 DEF Validate

\* What is left when claims are sanitized, and what of it is remembered
LEMMA CleanFits ==
  ASSUME NEW s \in Strategies, NEW claims \in SUBSET Claims, Clean(s, claims), TypeOK,
         StrategyAssumption, \A c \in claims : c.quotes = "tactic" => c.text \in Actions
  PROVE  /\ strategy' \in Strategies /\ strategy'.out = s.out
         /\ unsupported' \subseteq claims
         /\ sanitized \subseteq sanitized' /\ sanitized' \in SUBSET Texts
         /\ review' \in [Required -> Dispositions \cup {None}]
         /\ \A t \in Required : review[t] # None => review'[t] # None
         /\ strategy'.sum \subseteq s.sum
         /\ strategy'.sum \cap sanitized' \subseteq sanitized
         /\ strategy'.road \subseteq s.road \cup {Bare}
         /\ strategy'.road \cap sanitized' \subseteq sanitized \cup {Bare}
         /\ s.road = {} => strategy'.road = {}
         /\ sanitized' = {} => strategy' = s
         /\ \A c \in claims : c.quotes # "nothing" => c.text \notin strategy'.sum
<1> DEFINE items == Handled(s, claims)
           gone  == {c.text : c \in items}
<1>1. /\ strategy' = Cleaned(s, claims)
      /\ unsupported' = claims \ items
      /\ sanitized' = sanitized \cup gone
      /\ review' \in Reviews(review, items)
  BY DEF Clean
<1>2. items \subseteq claims /\ gone \subseteq Texts /\ gone \subseteq s.sum \cup s.road
  BY DEF Handled, Claims
<1>3. /\ Cleaned(s, claims).sum = s.sum \ gone
      /\ Cleaned(s, claims).out = s.out
      /\ Cleaned(s, claims).road
           = (s.road \ gone) \cup (IF Stripped(s, claims) # {} THEN {Bare} ELSE {})
  BY DEF Cleaned, Strategies
<1>4. Cleaned(s, claims) \in Strategies
  BY <1>3 DEF Cleaned, Strategies, StrategyAssumption
<1>5. s.road = {} => Stripped(s, claims) = {}
  BY DEF Stripped, Handled, Strategies, StrategyAssumption
<1>6. gone = {} => Cleaned(s, claims) = s
  <2>1. gone = {} => Stripped(s, claims) = {}
    BY DEF Stripped
  <2>2. gone = {} => /\ Cleaned(s, claims).sum = s.sum /\ Cleaned(s, claims).road = s.road
                     /\ Cleaned(s, claims).out = s.out
    BY <1>3, <2>1
  <2> HIDE DEF gone, items
  <2> QED  BY <1>4, <2>2 DEF Strategies
<1>7. /\ review' \in [Required -> Dispositions \cup {None}]
      /\ \A t \in Required : review[t] # None => review'[t] # None
  BY <1>1 DEF Reviews
<1>8. ASSUME NEW c \in claims, c.quotes # "nothing"
      PROVE  c.text \notin s.sum \ gone
  BY <1>8 DEF Handled
<1> HIDE DEF items, gone
<1>9. sanitized \in SUBSET Texts
  BY DEF TypeOK
<1> QED  BY <1>1, <1>2, <1>3, <1>4, <1>5, <1>6, <1>7, <1>8, <1>9

-----------------------------------------------------------------------------
(* The steps *)

\* The parts to repair are parts.
LEMMA ScopeTypes ==
  ASSUME NEW claims
  PROVE  RepairScope(claims) \in SUBSET Parts /\ (low => RepairScope(claims) = Parts)
BY DEF RepairScope

\* Compose, Regenerate and Require make a draft.
LEMMA DraftStep ==
  ASSUME StrategyAssumption, IInv, Compose \/ Regenerate \/ Require
  PROVE  /\ pc \in Composing /\ pc' \in Drafted
         /\ regens' \in 0 .. MaxRegens /\ draft' \in Strategies
         /\ pc' = "regenerate" => regens' < MaxRegens
         /\ notes' \in SUBSET Withheld
         /\ pc' # "check" => notes' = notes
         /\ pc' = "check" => Founded(draft'.road) /\ notes' \in {draft'.out, {}}
         /\ rewritten' \in SUBSET Parts
         /\ "summary" \in rewritten' => "summary" \in scope
         /\ UNCHANGED <<low, dense, other, rejected, Later, Checked>>
<1> USE DEF IInv
<1>1. CASE Compose
  <2>1. PICK s \in Composed(strategy, scope) : Validate(s, 0)
    BY <1>1 DEF Compose
  <2>2. pc = "compose" /\ scope \in SUBSET Parts /\ (scope = Parts \/ strategy \in Strategies)
    BY <1>1 DEF Compose, TypeOK, Stages
  <2>3. /\ s \in Strategies /\ (low => s.road = {})
        /\ s.out = {} \/ (s.road = strategy.road /\ s.out = strategy.out)
    BY <2>1, <2>2, ComposedFits
  <2>4. s.out = {} \/ s.road \cap Withheld = {}
    <3>1. CASE attempt > 0
      BY <2>2, <2>3, <3>1 DEF RoadmapsFounded, Founded, Early, Looping, Composing
    <3>2. CASE attempt = 0
      <4>1. scope = Parts
        BY <3>2 DEF Stages
      <4>2. s \in [sum : SUBSET Statements, road : Roadmaps(Plan), out : {{}}]
        BY <2>1, <4>1 DEF Composed, Parts
      <4> QED  BY <4>2
    <3> QED  BY <3>1, <3>2 DEF TypeOK, StrategyAssumption
  <2>5. 0 \in 0 .. MaxRegens
    BY DEF StrategyAssumption
  <2>6. rewritten' \in SUBSET Parts /\ ("summary" \in rewritten' => "summary" \in scope)
    BY <1>1, <2>2 DEF Compose, Written, Stages
  <2> QED  BY <1>1, <2>1, <2>2, <2>3, <2>4, <2>5, <2>6, ValidateFits DEF Compose, Composing
<1>2. CASE Regenerate
  <2>1. PICK s \in Composed(draft, {"roadmap"}) : Validate(s, regens + 1)
    BY <1>2 DEF Regenerate
  <2>2. pc = "regenerate" /\ draft \in Strategies /\ regens + 1 \in 0 .. MaxRegens
    BY <1>2 DEF Regenerate, Stages, Drafted, TypeOK, StrategyAssumption
  <2>3. s \in Strategies /\ (low => s.road = {})
    BY <2>1, <2>2, ComposedFits DEF Parts
  <2>4. s.out = {}
    BY <2>1 DEF Composed
  <2>5. rewritten' \in SUBSET Parts /\ ("summary" \in rewritten' => "summary" \in scope)
    BY <1>2, <2>2 DEF Regenerate, Written, Stages, SummaryRead, Drafted, TypeOK, Parts
  <2> QED  BY <1>2, <2>1, <2>2, <2>3, <2>4, <2>5, ValidateFits DEF Regenerate, Composing
<1>3. CASE Require
  <2>1. PICK s \in Composed(draft, {"roadmap"}) : Ground(s)
    BY <1>3 DEF Require
  <2>2. pc = "require" /\ draft \in Strategies
    BY <1>3 DEF Require, Stages, Drafted
  <2>3. s \in Strategies /\ (low => s.road = {})
    BY <2>1, <2>2, ComposedFits DEF Parts
  <2>4. s.out = {}
    BY <2>1 DEF Composed
  <2>5. rewritten' \in SUBSET Parts /\ ("summary" \in rewritten' => "summary" \in scope)
    BY <1>3, <2>2 DEF Require, Written, Stages, SummaryRead, Drafted, TypeOK, Parts
  <2>6. /\ pc' = "check" /\ draft' \in Strategies
        /\ Founded(draft'.road) /\ notes' = draft'.out /\ notes' \in SUBSET Withheld
    BY <2>1, <2>3, <2>4, GroundedFits DEF Ground, Founded
  <2> QED  BY <1>3, <2>2, <2>5, <2>6 DEF Require, Composing, Drafted, TypeOK
<1> QED  BY <1>1, <1>2, <1>3

\* The fact-check of a draft adopts it with the claims on it, adopts the first
\* draft unchecked, or drops it and leaves everything as it was.
LEMMA CheckStep ==
  ASSUME StrategyAssumption, IInv, Check \/ CheckFails
  PROVE  /\ pc = "check" /\ attempt' = attempt + 1 /\ attempt <= MaxRetries
         /\ draft \in Strategies /\ Founded(draft.road)
         /\ regens' = 0 /\ rewritten' = {}
         /\ UNCHANGED <<low, dense, other, notes, Later>>
         /\ \/ /\ strategy' = draft /\ ~check'.failed /\ unsupported' = Merged(check')
               /\ check' \in [failed : BOOLEAN, summary : SUBSET Claims, roadmap : SUBSET Claims]
               /\ \A d \in check'.summary : d.text \in Statements
               /\ \A d \in check'.roadmap : d.text \in Actions
               /\ \A d \in unsupported' : d.quotes = "tactic" => d.text \in Actions
               /\ fresh' \in SUBSET Parts /\ "summary" \notin fresh' /\ rejected' = rejected
               /\ \/ /\ pc' = "compose" /\ attempt + 1 <= MaxRetries
                     /\ scope' \in SUBSET Parts /\ (low => scope' = Parts)
                  \/ pc' = "sanitize" /\ scope' = Parts
            \/ /\ attempt = 0 /\ pc' = "sanitize" /\ strategy' = draft
               /\ check' = [check EXCEPT !.failed = TRUE] /\ fresh' \in SUBSET Parts
               /\ UNCHANGED <<unsupported, scope, rejected>>
            \/ /\ attempt # 0 /\ pc' = "sanitize" /\ scope' = Parts /\ rejected' = TRUE
               /\ UNCHANGED <<strategy, check, unsupported, fresh>>
<1> USE DEF IInv
<1>1. pc = "check" /\ attempt' = attempt + 1 /\ regens' = 0 /\ rewritten' = {}
      /\ UNCHANGED <<low, dense, other, notes, Later>>
  BY DEF Check, CheckFails
<1>2. draft \in Strategies /\ Founded(draft.road) /\ attempt <= MaxRetries /\ ~check.failed
      /\ attempt \in Nat
  BY <1>1 DEF Stages, RoadmapsFounded, Drafted, Looping, TypeOK
<1>3. CASE Check
  <2>1. PICK c \in Verdicts(draft, scope) :
          IF attempt = 0 \/ Improves(Merged(c), unsupported, scope) THEN Accept(c) ELSE Reject
    BY <1>3 DEF Check
  <2>2. CASE Accept(c)
    <3>1. /\ strategy' = draft /\ check' = c /\ unsupported' = Merged(c) /\ rejected' = rejected
          /\ fresh' = (fresh \cup rewritten) \ scope /\ Proceed(Merged(c), attempt + 1)
      BY <2>2 DEF Accept
    <3>2. "summary" \notin fresh'
      <4>1. CASE attempt = 0
        BY <3>1, <4>1 DEF Stages, Parts
      <4>2. CASE attempt > 0
        BY <1>1, <1>2, <3>1, <4>2 DEF SummaryRead, Drafted
      <4> QED  BY <1>2, <4>1, <4>2
    <3>3. \/ /\ pc' = "compose" /\ attempt + 1 <= MaxRetries
             /\ scope' \in SUBSET Parts /\ (low => scope' = Parts)
          \/ pc' = "sanitize" /\ scope' = Parts
      BY <3>1, ScopeTypes DEF Proceed
    <3>4. fresh' \in SUBSET Parts
      BY <3>1 DEF TypeOK
    <3> QED  BY <1>1, <1>2, <3>1, <3>2, <3>3, <3>4, VerdictsFit
  <2>3. CASE attempt # 0 /\ Reject
    BY <1>1, <1>2, <2>3 DEF Reject
  <2> QED  BY <2>1, <2>2, <2>3
<1>4. CASE CheckFails
  <2>1. rewritten \in SUBSET Parts
    BY DEF TypeOK
  <2>2. attempt > 0 => attempt # 0
    BY <1>2
  <2> QED  BY <1>1, <1>2, <1>4, <2>1, <2>2 DEF CheckFails, Reject
<1> QED  BY <1>3, <1>4

\* Sanitize, Repair and Escalate clean the strategy, which then has nothing of
\* what was taken out but the marker of a removed ID.
LEMMA CleanStep ==
  ASSUME StrategyAssumption, IInv, Sanitize \/ Repair \/ Escalate
  PROVE  /\ attempt > 0 /\ strategy \in Strategies
         /\ strategy' \in Strategies /\ strategy'.out = strategy.out
         /\ unsupported' \in SUBSET Claims
         /\ \A c \in unsupported' : c.quotes = "tactic" => c.text \in Actions
         /\ sanitized \subseteq sanitized' /\ sanitized' \in SUBSET Texts
         /\ review' \in [Required -> Dispositions \cup {None}]
         /\ \A t \in Required : review[t] # None => review'[t] # None
         /\ strategy'.sum \cap sanitized' = {}
         /\ low => strategy'.road = {}
         /\ Sanitize \/ Escalate => /\ strategy'.road \subseteq strategy.road \cup {Bare}
                                    /\ strategy'.road \cap sanitized' \subseteq sanitized \cup {Bare}
         /\ Sanitize => /\ sanitized' = {} => strategy' = strategy
                        /\ \A c \in check.summary :
                             c.quotes # "nothing" => c.text \notin strategy'.sum
         /\ Repair => strategy'.sum = strategy.sum
<1> USE DEF IInv
<1>1. attempt \in Nat /\ pc \in {"sanitize", "repair", "escalate"}
  BY DEF TypeOK, Sanitize, Repair, Escalate
<1>2. attempt > 0
  BY <1>1 DEF Stages, Looping, Composing
<1>3. /\ strategy \in Strategies /\ strategy.sum \cap sanitized = {}
      /\ low => strategy.road = {}
  BY <1>2 DEF Stages, TakenOut, RoadmapsFounded
<1>4. CASE Sanitize
  <2>1. Clean(strategy, unsupported) /\ pc = "sanitize"
    BY <1>4 DEF Sanitize
  <2>2. /\ unsupported \in SUBSET Claims
        /\ \A c \in unsupported : c.quotes = "tactic" => c.text \in Actions
        /\ check.summary \subseteq unsupported
    BY <2>1 DEF ClaimsKept, TypeOK, Early, Merged
  <2>3. ~Repair
    BY <2>1 DEF Repair
  <2> QED  BY <1>2, <1>3, <2>1, <2>2, <2>3, CleanFits
<1>5. CASE Repair
  <2>1. pc = "repair" /\ ~low
    BY <1>5 DEF Repair, Stages
  <2>2. PICK road \in Roadmaps(Plan \ Contraindicated(strategy.road, review)) :
          \E c \in Verdicts([strategy EXCEPT !.road = road], {"roadmap"}) :
            Clean([strategy EXCEPT !.road = road], Merged(c))
    BY <1>5 DEF Repair
  <2> DEFINE repaired == [strategy EXCEPT !.road = road]
  <2>3. PICK c \in Verdicts(repaired, {"roadmap"}) : Clean(repaired, Merged(c))
    BY <2>2
  <2>4. road \in SUBSET Actions
    BY DEF Roadmaps, StrategyAssumption
  <2>5. repaired \in Strategies /\ repaired.sum = strategy.sum /\ repaired.out = strategy.out
    BY <1>3, <2>4 DEF Strategies
  <2> HIDE DEF repaired
  <2>6. /\ Merged(c) \in SUBSET Claims
        /\ \A d \in Merged(c) : d.quotes = "tactic" => d.text \in Actions
        /\ c.summary = check.summary /\ \A d \in c.roadmap : d.text \in Actions
    BY <2>3, <2>5, VerdictsFit
  <2>7. {d.text : d \in Handled(repaired, Merged(c))} \cap strategy.sum = {}
    <3> SUFFICES ASSUME NEW d \in Merged(c), d.quotes # "nothing", d.text \in strategy.sum
                 PROVE  FALSE
      BY DEF Handled
    <3>1. CASE d \in check.summary
      BY <2>1, <3>1 DEF ClaimsKept
    <3>2. CASE d \in c.roadmap
      BY <1>3, <2>6, <3>2 DEF Strategies, StrategyAssumption
    <3> QED  BY <2>6, <3>1, <3>2 DEF Merged
  <2>8. strategy'.sum = strategy.sum
    <3>1. strategy'.sum = repaired.sum \ {d.text : d \in Handled(repaired, Merged(c))}
      BY <2>3, <2>5 DEF Clean, Cleaned, Strategies
    <3> QED  BY <2>5, <2>7, <3>1
  <2>9. ~Sanitize /\ ~Escalate
    BY <2>1 DEF Sanitize, Escalate
  <2> QED  BY <1>2, <1>3, <2>1, <2>3, <2>5, <2>6, <2>8, <2>9, CleanFits
<1>6. CASE Escalate
  <2>1. PICK c \in Verdicts(strategy, Parts) : Clean(strategy, Merged(c))
    BY <1>6 DEF Escalate
  <2>2. /\ Merged(c) \in SUBSET Claims
        /\ \A d \in Merged(c) : d.quotes = "tactic" => d.text \in Actions
    BY <1>3, <2>1, VerdictsFit
  <2>3. ~Sanitize /\ ~Repair
    BY <1>6 DEF Sanitize, Repair, Escalate
  <2> QED  BY <1>2, <1>3, <2>1, <2>2, <2>3, CleanFits
<1> QED  BY <1>4, <1>5, <1>6

\* Where the three of them lead, and what they leave alone
LEMMA CleanFrame ==
  ASSUME TypeOK, Sanitize \/ Repair \/ Escalate
  PROVE  /\ UNCHANGED <<low, dense, other, draft, scope, regens, notes, attempt, rewritten,
                        rejected, decision>>
         /\ check' \in [failed : BOOLEAN, summary : SUBSET Claims, roadmap : SUBSET Claims]
         /\ check'.failed = check.failed /\ check'.summary = check.summary
         /\ check'.roadmap \subseteq check.roadmap
         /\ fresh' \in SUBSET Parts /\ fresh' \subseteq fresh
         /\ \/ /\ Sanitize /\ pc = "sanitize" /\ repair' = repair /\ gate' = gate
               /\ \/ pc' = "repair" /\ ~low /\ Unresolved(strategy'.road, review') # {}
                  \/ pc' = "gate"
            \/ /\ Repair /\ pc = "repair" /\ pc' = "gate" /\ gate' = gate
               /\ repair' \in {"succeeded", "incomplete"}
            \/ /\ Escalate /\ pc = "escalate" /\ pc' = "finish" /\ repair' = repair
               /\ gate' = Judged(strategy', unsupported', sanitized', review', other)
<1> USE DEF TypeOK
<1>1. CASE Sanitize
  <2>1. /\ UNCHANGED <<low, dense, other, draft, scope, regens, notes, attempt, rewritten,
                        rejected, decision, repair, gate, fresh>>
        /\ pc = "sanitize" /\ check' = [check EXCEPT !.roadmap = {}]
    BY <1>1 DEF Sanitize, Loop, Brief
  <2>2. \/ pc' = "repair" /\ ~low /\ Unresolved(strategy'.road, review') # {}
        \/ pc' = "gate"
    BY <1>1 DEF Sanitize
  <2> QED  BY <1>1, <2>1, <2>2
<1>2. CASE Repair
  <2>1. /\ UNCHANGED <<low, dense, other, draft, scope, regens, notes, attempt, rewritten,
                        rejected, decision, check, gate>>
        /\ pc = "repair" /\ pc' = "gate" /\ fresh' = fresh \ {"roadmap"}
        /\ repair' \in {"succeeded", "incomplete"}
    BY <1>2 DEF Repair, Loop, Brief
  <2> QED  BY <1>2, <2>1
<1>3. CASE Escalate
  <2>1. /\ UNCHANGED <<low, dense, other, draft, scope, regens, notes, attempt, rewritten,
                        rejected, decision, check, repair>>
        /\ pc = "escalate" /\ pc' = "finish" /\ fresh' = {}
        /\ gate' = Judged(strategy', unsupported', sanitized', review', other)
    BY <1>3 DEF Escalate, Loop, Brief
  <2> QED  BY <1>3, <2>1
<1> QED  BY <1>1, <1>2, <1>3

\* What a decision of the gate says of what it judged
LEMMA JudgedFits ==
  ASSUME NEW s, NEW claims, NEW items, NEW reviews, NEW audit
  PROVE  LET j == Judged(s, claims, items, reviews, audit) IN
         /\ j \in Gates
         /\ j # "BLOCK" => ~check.failed /\ ~GroundingErrors(s, reviews) /\ Blocking(claims) = {}
         /\ j = "GO" => items = {} /\ claims = {}
BY DEF Judged, Gates

\* The deterministic strategy is one, and has no roadmap.
LEMMA DeterministicFits ==
  Deterministic \in Strategies /\ Deterministic.road = {} /\ Deterministic.out = {}
BY DEF Deterministic, Strategies

-----------------------------------------------------------------------------
(* Every step keeps the invariant *)

\* Compose, Regenerate and Require keep the invariant.
LEMMA DraftKeeps ==
  ASSUME StrategyAssumption, IInv, Compose \/ Regenerate \/ Require
  PROVE  IInv'
<1> USE DEF IInv, Looping, Composing, Drafted, Early
<1>1. TypeOK'
  BY DraftStep DEF TypeOK, Stages, Later, Checked
<1>2. Stages'
  BY DraftStep DEF Stages, TypeOK, Later, Checked
<1>3. ClaimsKept'
  BY DraftStep DEF ClaimsKept, Later, Checked
<1>4. RoadmapsFounded'
  BY DraftStep DEF RoadmapsFounded, Founded, Plan, Missing, Later, Checked
<1>5. TakenOut'
  BY DraftStep DEF TakenOut, Later, Checked
<1>6. SummaryRead'
  BY DraftStep DEF SummaryRead, Stages, TypeOK, Later, Checked
<1>7. GateFollows'
  BY DraftStep DEF GateFollows, Later, Checked
<1>8. NotesFollow'
  BY DraftStep DEF NotesFollow, Stages, TypeOK, Later, Checked
<1> QED  BY <1>1, <1>2, <1>3, <1>4, <1>5, <1>6, <1>7, <1>8

\* The deterministic strategy has no roadmap to be founded.
LEMMA FallbackKeeps ==
  ASSUME StrategyAssumption, IInv, Fallback
  PROVE  IInv'
<1> USE DEF IInv, Looping, Composing, Drafted, Early
<1>1. TypeOK'
  BY DeterministicFits DEF TypeOK, Stages, Fallback, Later, Checked, Plan, Missing, Parts
<1>2. Stages'
  BY DeterministicFits DEF Stages, TypeOK, Fallback, Later, Checked, Plan, Missing, Parts
<1>3. ClaimsKept'
  BY DeterministicFits DEF ClaimsKept, Fallback, Later, Checked, Plan, Missing, Parts
<1>4. RoadmapsFounded'
  BY DeterministicFits DEF RoadmapsFounded, Founded, Fallback, Later, Checked, Plan, Missing, Parts
<1>5. TakenOut'
  BY DeterministicFits DEF TakenOut, Fallback, Later, Checked, Plan, Missing, Parts
<1>6. SummaryRead'
  BY DeterministicFits DEF SummaryRead, Stages, TypeOK, Fallback, Later, Checked, Plan, Missing, Parts
<1>7. GateFollows'
  BY DeterministicFits DEF GateFollows, Fallback, Later, Checked, Plan, Missing, Parts
<1>8. NotesFollow'
  BY DeterministicFits DEF NotesFollow, Stages, TypeOK, Fallback, Later, Checked, Plan, Missing, Parts
<1> QED  BY <1>1, <1>2, <1>3, <1>4, <1>5, <1>6, <1>7, <1>8

\* A run that fails has no strategy, and a dropped repair leaves the one before it.
LEMMA LeaveKeeps ==
  ASSUME StrategyAssumption, IInv, RunFails \/ RepairDropped
  PROVE  IInv'
<1> USE DEF IInv, Looping, Composing, Drafted, Early
<1>1. TypeOK'
  BY DEF TypeOK, Stages, RunFails, RepairDropped, Later, Checked
<1>2. Stages'
  BY DEF Stages, TypeOK, RunFails, RepairDropped, Later, Checked
<1>3. ClaimsKept'
  BY DEF ClaimsKept, RunFails, RepairDropped, Later, Checked
<1>4. RoadmapsFounded'
  BY DEF RoadmapsFounded, Founded, Plan, Missing, RunFails, RepairDropped, Later, Checked, TypeOK
<1>5. TakenOut'
  BY DEF TakenOut, RunFails, RepairDropped, Later, Checked
<1>6. SummaryRead'
  BY DEF SummaryRead, Stages, TypeOK, RunFails, RepairDropped, Later, Checked
<1>7. GateFollows'
  BY DEF GateFollows, RunFails, RepairDropped, Later, Checked
<1>8. NotesFollow'
  BY DEF NotesFollow, Stages, TypeOK, RunFails, RepairDropped, Later, Checked
<1> QED  BY <1>1, <1>2, <1>3, <1>4, <1>5, <1>6, <1>7, <1>8

\* A failed repair of the required tactics changes nothing but its own mark.
LEMMA RepairFailsKeeps ==
  ASSUME StrategyAssumption, IInv, RepairFails
  PROVE  IInv'
<1> USE DEF IInv, Looping, Composing, Drafted, Early
<1>1. TypeOK'
  BY DEF TypeOK, Stages, RepairFails, Loop, Brief
<1>2. Stages'
  BY DEF Stages, TypeOK, RepairFails, Loop, Brief
<1>3. ClaimsKept'
  BY DEF ClaimsKept, RepairFails, Loop, Brief
<1>4. RoadmapsFounded'
  BY DEF RoadmapsFounded, Founded, RepairFails, Loop, Brief
<1>5. TakenOut'
  BY DEF TakenOut, RepairFails, Loop, Brief
<1>6. SummaryRead'
  BY DEF SummaryRead, Stages, TypeOK, RepairFails, Loop, Brief
<1>7. GateFollows'
  BY DEF GateFollows, RepairFails, Loop, Brief
<1>8. NotesFollow'
  BY DEF NotesFollow, Stages, TypeOK, RepairFails, Loop, Brief
<1> QED  BY <1>1, <1>2, <1>3, <1>4, <1>5, <1>6, <1>7, <1>8

\* The gate's decision says what GateFollows asks of it.
LEMMA GateKeeps ==
  ASSUME StrategyAssumption, IInv, Gate
  PROVE  IInv'
<1> USE DEF IInv, Looping, Composing, Drafted, Early
<1>1. TypeOK'
  BY JudgedFits DEF TypeOK, Stages, Gate, OnlyFactCheckBlocks, Brief
<1>2. Stages'
  BY JudgedFits DEF Stages, TypeOK, Gate, OnlyFactCheckBlocks, Brief
<1>3. ClaimsKept'
  BY JudgedFits DEF ClaimsKept, Gate, OnlyFactCheckBlocks, Brief
<1>4. RoadmapsFounded'
  BY JudgedFits DEF RoadmapsFounded, Founded, Gate, OnlyFactCheckBlocks, Brief
<1>5. TakenOut'
  BY JudgedFits DEF TakenOut, Gate, OnlyFactCheckBlocks, Brief
<1>6. SummaryRead'
  BY JudgedFits DEF SummaryRead, Stages, TypeOK, Gate, OnlyFactCheckBlocks, Brief
<1>7. GateFollows'
  <2>1. /\ gate' = Judged(strategy, unsupported, sanitized, review, other')
        /\ pc' = IF OnlyFactCheckBlocks(other') THEN "escalate" ELSE "finish"
        /\ UNCHANGED <<low, strategy, check, unsupported, sanitized, review>>
    BY DEF Gate, Brief
  <2>2. GroundingErrors(strategy, review)' = GroundingErrors(strategy, review)
    BY <2>1 DEF GroundingErrors, Unresolved, Contraindicated, Missing, Plan
  <2>3. Blocking(unsupported)' = Blocking(unsupported)
    BY <2>1 DEF Blocking
  <2>4. pc' = "escalate" => gate' = "BLOCK"
    BY <2>1 DEF OnlyFactCheckBlocks, Judged
  <2> QED  BY <2>1, <2>2, <2>3, <2>4, JudgedFits DEF GateFollows
<1>8. NotesFollow'
  BY JudgedFits DEF NotesFollow, Stages, TypeOK, Gate, OnlyFactCheckBlocks, Brief
<1> QED  BY <1>1, <1>2, <1>3, <1>4, <1>5, <1>6, <1>7, <1>8

\* A failed escalation leaves the block.
LEMMA EscalateFailsKeeps ==
  ASSUME StrategyAssumption, IInv, EscalateFails
  PROVE  IInv'
<1> USE DEF IInv, Looping, Composing, Drafted, Early
<1>1. TypeOK'
  BY DEF TypeOK, Stages, EscalateFails, Loop, Brief
<1>2. Stages'
  BY DEF Stages, TypeOK, EscalateFails, Loop, Brief
<1>3. ClaimsKept'
  BY DEF ClaimsKept, EscalateFails, Loop, Brief
<1>4. RoadmapsFounded'
  BY DEF RoadmapsFounded, Founded, EscalateFails, Loop, Brief
<1>5. TakenOut'
  BY DEF TakenOut, EscalateFails, Loop, Brief
<1>6. SummaryRead'
  BY DEF SummaryRead, Stages, TypeOK, EscalateFails, Loop, Brief
<1>7. GateFollows'
  BY DEF GateFollows, EscalateFails, Loop, Brief
<1>8. NotesFollow'
  BY DEF NotesFollow, Stages, TypeOK, EscalateFails, Loop, Brief
<1> QED  BY <1>1, <1>2, <1>3, <1>4, <1>5, <1>6, <1>7, <1>8

\* The report takes its decision from the gate's.
LEMMA FinishKeeps ==
  ASSUME StrategyAssumption, IInv, Finish
  PROVE  IInv'
<1> USE DEF IInv, Looping, Composing, Drafted, Early
<1>0. /\ pc = "finish" /\ pc' = "done" /\ gate \in Gates /\ gate' = gate
      /\ strategy \in Strategies /\ strategy' \in Strategies
      /\ strategy' = IF gate = "BLOCK" THEN [strategy EXCEPT !.road = {}] ELSE strategy
      /\ gate = "BLOCK" => strategy'.road = {}
      /\ decision' \in Decisions
      /\ gate = "BLOCK" \/ low => decision' = "NO_GO"
      /\ decision' = "GO" => gate = "GO"
      /\ UNCHANGED <<low, dense, other, draft, scope, regens, notes, attempt, rewritten, rejected,
                     check, unsupported, sanitized, review, repair, fresh>>
  <2>1. attempt > 0 /\ strategy \in Strategies /\ gate \in Gates
    BY DEF Stages, TypeOK, Finish, Blocked
  <2>2. [strategy EXCEPT !.road = {}] \in Strategies /\ [strategy EXCEPT !.road = {}].road = {}
    BY <2>1 DEF Strategies
  <2>3. PICK planned \in Planned :
          decision' = IF gate = "BLOCK" THEN "NO_GO"
                      ELSE IF gate = "WARN" /\ planned = "GO" THEN "CONDITIONAL_GO" ELSE planned
    BY DEF Finish, Blocked
  <2>4. planned \in Decisions /\ (low => planned = "NO_GO")
    BY <2>3 DEF Planned, Decisions
  <2> QED  BY <2>1, <2>2, <2>3, <2>4 DEF Finish, Blocked, Loop, Brief, Decisions, Gates
<1>1. TypeOK'
  BY <1>0 DEF TypeOK
<1>2. Stages'
  BY <1>0 DEF Stages
<1>3. ClaimsKept'
  BY DEF ClaimsKept, Finish, Blocked, Planned, Loop, Brief
<1>4. RoadmapsFounded'
  BY DEF RoadmapsFounded, Founded, Finish, Blocked, Planned, Loop, Brief
<1>5. TakenOut'
  BY DEF TakenOut, Finish, Blocked, Planned, Loop, Brief
<1>6. SummaryRead'
  BY DEF SummaryRead, Stages, TypeOK, Finish, Blocked, Planned, Loop, Brief
<1>7. GateFollows'
  <2>1. GroundingErrors(strategy, review)' = GroundingErrors(strategy', review)
    BY <1>0 DEF GroundingErrors, Unresolved, Contraindicated, Missing, Plan
  <2>2. Blocking(unsupported)' = Blocking(unsupported)
    BY <1>0 DEF Blocking
  <2>3. attempt > 0 /\ (low => strategy.road = {})
    BY <1>0 DEF Stages, RoadmapsFounded, TypeOK
  <2> QED  BY <1>0, <2>1, <2>2, <2>3 DEF GateFollows
<1>8. NotesFollow'
  BY DEF NotesFollow, Stages, TypeOK, Finish, Blocked, Planned, Loop, Brief
<1> QED  BY <1>1, <1>2, <1>3, <1>4, <1>5, <1>6, <1>7, <1>8

\* A check adopts a founded draft with the claims on it, or leaves things alone.
LEMMA CheckKeeps ==
  ASSUME StrategyAssumption, IInv, Check \/ CheckFails
  PROVE  IInv'
<1> USE DEF IInv, Looping, Composing, Drafted, Early
<1>1. /\ pc = "check" /\ attempt \in Nat /\ attempt' = attempt + 1 /\ attempt <= MaxRetries
      /\ draft \in Strategies /\ Founded(draft.road) /\ regens' = 0 /\ rewritten' = {}
      /\ UNCHANGED <<low, dense, other, notes, sanitized, review, repair, gate, decision>>
  <2>1. attempt \in Nat
    BY DEF TypeOK
  <2> QED  BY <2>1, CheckStep DEF Later
<1>2. attempt' > 0 /\ attempt' \in 0 .. MaxRetries + 1 /\ 0 \in 0 .. MaxRegens
  BY <1>1 DEF StrategyAssumption
<1>3. /\ sanitized = {} /\ repair = "no" /\ unsupported = Merged(check) /\ ~check.failed
      /\ notes \in {draft.out, {}} /\ draft' = None /\ strategy \in Strategies \cup {None}
      /\ attempt # 0 => /\ strategy \in Strategies /\ Founded(strategy.road)
                        /\ "summary" \notin fresh
  BY <1>1 DEF ClaimsKept, NotesFollow, Stages, RoadmapsFounded, SummaryRead, TypeOK, Check, CheckFails
<1>4. CASE /\ strategy' = draft /\ ~check'.failed /\ unsupported' = Merged(check')
           /\ check' \in [failed : BOOLEAN, summary : SUBSET Claims, roadmap : SUBSET Claims]
           /\ \A d \in check'.summary : d.text \in Statements
           /\ \A d \in check'.roadmap : d.text \in Actions
           /\ \A d \in unsupported' : d.quotes = "tactic" => d.text \in Actions
           /\ fresh' \in SUBSET Parts /\ "summary" \notin fresh' /\ rejected' = rejected
           /\ \/ /\ pc' = "compose" /\ attempt + 1 <= MaxRetries
                 /\ scope' \in SUBSET Parts /\ (low => scope' = Parts)
              \/ pc' = "sanitize" /\ scope' = Parts
  <2>1. TypeOK'
    BY <1>1, <1>2, <1>3, <1>4 DEF TypeOK, Merged
  <2>2. Stages'
    BY <1>1, <1>2, <1>3, <1>4 DEF Stages
  <2>3. ClaimsKept'
    BY <1>1, <1>3, <1>4 DEF ClaimsKept, Merged
  <2>4. RoadmapsFounded'
    BY <1>1, <1>4 DEF RoadmapsFounded, Founded, Plan, Missing
  <2>5. TakenOut'
    BY <1>1, <1>3, <1>4 DEF TakenOut, Founded
  <2>6. SummaryRead'
    BY <1>1, <1>4 DEF SummaryRead
  <2>7. GateFollows'
    BY <1>4 DEF GateFollows
  <2>8. NotesFollow'
    BY <1>1, <1>2, <1>3, <1>4 DEF NotesFollow
  <2> QED  BY <2>1, <2>2, <2>3, <2>4, <2>5, <2>6, <2>7, <2>8
<1>5. CASE /\ attempt = 0 /\ pc' = "sanitize" /\ strategy' = draft
           /\ check' = [check EXCEPT !.failed = TRUE] /\ fresh' \in SUBSET Parts
           /\ UNCHANGED <<unsupported, scope, rejected>>
  <2>0. /\ check' \in [failed : BOOLEAN, summary : SUBSET Claims, roadmap : SUBSET Claims]
        /\ check'.failed /\ check'.summary = check.summary /\ check'.roadmap = check.roadmap
    BY <1>5 DEF TypeOK
  <2>1. TypeOK'
    BY <1>1, <1>2, <1>3, <1>5, <2>0 DEF TypeOK
  <2>2. Stages'
    BY <1>1, <1>2, <1>3, <1>5 DEF Stages
  <2>3. ClaimsKept'
    BY <1>1, <1>3, <1>5, <2>0 DEF ClaimsKept, Merged
  <2>4. RoadmapsFounded'
    BY <1>1, <1>5 DEF RoadmapsFounded, Founded, Plan, Missing
  <2>5. TakenOut'
    BY <1>1, <1>3, <1>5 DEF TakenOut, Founded
  <2>6. SummaryRead'
    BY <1>1, <1>5, <2>0 DEF SummaryRead
  <2>7. GateFollows'
    BY <1>5 DEF GateFollows
  <2>8. NotesFollow'
    BY <1>1, <1>2, <1>3, <1>5 DEF NotesFollow
  <2> QED  BY <2>1, <2>2, <2>3, <2>4, <2>5, <2>6, <2>7, <2>8
<1>6. CASE /\ attempt # 0 /\ pc' = "sanitize" /\ scope' = Parts /\ rejected' = TRUE
           /\ UNCHANGED <<strategy, check, unsupported, fresh>>
  <2>1. TypeOK'
    BY <1>1, <1>2, <1>3, <1>6 DEF TypeOK
  <2>2. Stages'
    BY <1>1, <1>2, <1>3, <1>6 DEF Stages
  <2>3. ClaimsKept'
    BY <1>1, <1>3, <1>6 DEF ClaimsKept, Merged
  <2>4. RoadmapsFounded'
    BY <1>1, <1>3, <1>6 DEF RoadmapsFounded, Founded, Plan, Missing
  <2>5. TakenOut'
    BY <1>1, <1>3, <1>6 DEF TakenOut, Founded
  <2>6. SummaryRead'
    BY <1>1, <1>3, <1>6 DEF SummaryRead
  <2>7. GateFollows'
    BY <1>6 DEF GateFollows
  <2>8. NotesFollow'
    BY <1>1, <1>2, <1>6 DEF NotesFollow
  <2> QED  BY <2>1, <2>2, <2>3, <2>4, <2>5, <2>6, <2>7, <2>8
<1> QED  BY <1>4, <1>5, <1>6, CheckStep

\* Sanitation takes out what it records; the repair restores actions only.
LEMMA CleanKeeps ==
  ASSUME StrategyAssumption, IInv, Sanitize \/ Repair \/ Escalate
  PROVE  IInv'
<1> USE DEF IInv, Looping, Composing, Drafted, Early
<1>1. /\ UNCHANGED <<low, dense, other, draft, scope, regens, notes, attempt, rewritten,
                     rejected, decision>>
      /\ check' \in [failed : BOOLEAN, summary : SUBSET Claims, roadmap : SUBSET Claims]
      /\ check'.failed = check.failed /\ check'.summary = check.summary
      /\ check'.roadmap \subseteq check.roadmap
      /\ fresh' \in SUBSET Parts /\ fresh' \subseteq fresh
  BY CleanFrame
<1>2. /\ attempt > 0 /\ strategy \in Strategies
      /\ strategy' \in Strategies /\ strategy'.out = strategy.out
      /\ unsupported' \in SUBSET Claims
      /\ \A c \in unsupported' : c.quotes = "tactic" => c.text \in Actions
      /\ sanitized \subseteq sanitized' /\ sanitized' \in SUBSET Texts
      /\ review' \in [Required -> Dispositions \cup {None}]
      /\ strategy'.sum \cap sanitized' = {}
      /\ low => strategy'.road = {}
      /\ Sanitize \/ Escalate => /\ strategy'.road \subseteq strategy.road \cup {Bare}
                                 /\ strategy'.road \cap sanitized' \subseteq sanitized \cup {Bare}
  BY CleanStep
<1>3. \/ /\ Sanitize /\ pc = "sanitize" /\ repair' = repair /\ gate' = gate
         /\ \/ pc' = "repair" /\ ~low /\ Unresolved(strategy'.road, review') # {}
            \/ pc' = "gate"
      \/ /\ Repair /\ pc = "repair" /\ pc' = "gate" /\ gate' = gate
         /\ repair' \in {"succeeded", "incomplete"}
      \/ /\ Escalate /\ pc = "escalate" /\ pc' = "finish" /\ repair' = repair
         /\ gate' = Judged(strategy', unsupported', sanitized', review', other)
  BY CleanFrame
<1>4. pc' \in {"repair", "gate", "finish"}
  BY <1>3
<1>5. Judged(strategy', unsupported', sanitized', review', other) \in Gates
  BY JudgedFits
<1>6. TypeOK'
  BY <1>1, <1>2, <1>3, <1>5 DEF TypeOK
<1>7. Stages'
  BY <1>1, <1>2, <1>3, <1>5 DEF Stages
<1>8. ClaimsKept'
  <2>1. pc' = "repair" => \A c \in check.summary : c.quotes # "nothing" => c.text \notin strategy'.sum
    BY <1>3, CleanStep
  <2> QED  BY <1>1, <1>2, <1>4, <2>1 DEF ClaimsKept
<1>9. RoadmapsFounded'
  BY <1>1, <1>2, <1>4 DEF RoadmapsFounded
<1>10. TakenOut'
  <2>1. CASE Sanitize /\ pc = "sanitize" /\ repair' = repair
    <3>1. Founded(strategy.road) /\ sanitized = {} /\ repair = "no"
      BY <1>2, <2>1 DEF RoadmapsFounded, ClaimsKept
    <3>2. strategy'.road \cap (Withheld \cup sanitized') \subseteq {Bare}
      BY <1>2, <2>1, <3>1 DEF Founded
    <3>3. pc' = "repair" => sanitized' # {}
      <4> SUFFICES ASSUME pc' = "repair", sanitized' = {} PROVE FALSE
        OBVIOUS
      <4>1. strategy' = strategy
        BY <2>1, CleanStep
      <4>2. Unresolved(strategy'.road, review') = {}
        BY <3>1, <4>1 DEF Unresolved, Founded
      <4>3. Unresolved(strategy'.road, review') # {}
        BY <1>3, <2>1
      <4> QED  BY <4>2, <4>3
    <3> QED  BY <1>1, <1>2, <2>1, <3>1, <3>2, <3>3 DEF TakenOut
  <2>2. CASE pc = "repair" /\ pc' = "gate" /\ repair' \in {"succeeded", "incomplete"}
    BY <1>1, <1>2, <2>2 DEF TakenOut
  <2>3. CASE Escalate /\ pc' = "finish" /\ repair' = repair
    BY <1>1, <1>2, <2>3 DEF TakenOut
  <2> QED  BY <1>3, <2>1, <2>2, <2>3
<1>11. SummaryRead'
  BY <1>1, <1>4 DEF SummaryRead
<1>12. GateFollows'
  <2>1. CASE pc' # "finish"
    BY <1>4, <2>1 DEF GateFollows
  <2>2. CASE gate' = Judged(strategy', unsupported', sanitized', review', other)
    <3>1. GroundingErrors(strategy, review)' = GroundingErrors(strategy', review')
      BY <1>1 DEF GroundingErrors, Unresolved, Contraindicated, Missing, Plan
    <3>2. Blocking(unsupported)' = Blocking(unsupported')
      BY DEF Blocking
    <3> QED  BY <1>1, <1>4, <2>2, <3>1, <3>2, JudgedFits DEF GateFollows
  <2> QED  BY <1>3, <2>1, <2>2
<1>13. NotesFollow'
  BY <1>1, <1>2, <1>3, <1>4 DEF NotesFollow
<1> QED  BY <1>6, <1>7, <1>8, <1>9, <1>10, <1>11, <1>12, <1>13

\* A run starts with nothing composed, checked or taken out.
LEMMA InitKeeps ==
  ASSUME StrategyAssumption, Init
  PROVE  IInv
<1> USE DEF Init, Looping, Composing, Drafted, Early
<1>1. TypeOK
  <2>1. 0 \in 0 .. MaxRegens /\ 0 \in 0 .. MaxRetries + 1
    BY DEF StrategyAssumption
  <2>2. [t \in Required |-> None] \in [Required -> Dispositions \cup {None}]
    OBVIOUS
  <2>3. check \in [failed : BOOLEAN, summary : SUBSET Claims, roadmap : SUBSET Claims]
    OBVIOUS
  <2> QED  BY <2>1, <2>2, <2>3 DEF TypeOK, Parts
<1>2. Stages
  BY DEF Stages, StrategyAssumption
<1>3. ClaimsKept
  BY DEF ClaimsKept, Merged
<1>4. RoadmapsFounded /\ TakenOut /\ SummaryRead /\ GateFollows /\ NotesFollow
  BY DEF RoadmapsFounded, TakenOut, SummaryRead, GateFollows, NotesFollow
<1> QED  BY <1>1, <1>2, <1>3, <1>4 DEF IInv

\* A step that changes nothing
LEMMA StutterKeeps ==
  ASSUME IInv, UNCHANGED vars
  PROVE  IInv'
BY DEF vars, IInv, TypeOK, Stages, ClaimsKept, RoadmapsFounded, TakenOut, SummaryRead, GateFollows,
       NotesFollow, Founded, Missing, Plan, Merged, GroundingErrors, Unresolved, Contraindicated,
       Blocking, Looping, Composing, Drafted, Early

\* Every step keeps the invariant.
LEMMA Inductive ==
  ASSUME StrategyAssumption, IInv, [Next]_vars
  PROVE  IInv'
<1>1. CASE Compose \/ Regenerate \/ Require
  BY <1>1, DraftKeeps
<1>2. CASE Fallback
  BY <1>2, FallbackKeeps
<1>3. CASE RunFails \/ RepairDropped
  BY <1>3, LeaveKeeps
<1>4. CASE Check \/ CheckFails
  BY <1>4, CheckKeeps
<1>5. CASE Sanitize \/ Repair \/ Escalate
  BY <1>5, CleanKeeps
<1>6. CASE RepairFails
  BY <1>6, RepairFailsKeeps
<1>7. CASE Gate
  BY <1>7, GateKeeps
<1>8. CASE EscalateFails
  BY <1>8, EscalateFailsKeeps
<1>9. CASE Finish
  BY <1>9, FinishKeeps
<1>10. CASE Ended \/ UNCHANGED vars
  BY <1>10, StutterKeeps DEF Ended
<1> QED  BY <1>1, <1>2, <1>3, <1>4, <1>5, <1>6, <1>7, <1>8, <1>9, <1>10 DEF Next

-----------------------------------------------------------------------------
(* Theorems *)

\* The invariant holds throughout every run.
THEOREM StrategyInvariant == Spec => []IInv
<1>1. Init => IInv
  BY InitKeeps, StrategyAssumption
<1>2. IInv /\ [Next]_vars => IInv'
  BY Inductive, StrategyAssumption
<1> QED  BY <1>1, <1>2, PTL DEF Spec

\* Every value of a run of Phase 3 keeps its type.
THEOREM StrategyTypeCorrect == Spec => []TypeOK
<1>1. IInv => TypeOK
  BY DEF IInv
<1> QED  BY <1>1, StrategyInvariant, PTL

\* An actionable report has every required tactic, or a confirmed
\* contraindication of it, and went through a fact-check that blocks nothing.
THEOREM RequiredSettledSafe == Spec => []RequiredSettled
<1>1. IInv => RequiredSettled
  <2> SUFFICES ASSUME IInv, Actionable PROVE
        /\ \A t \in Plan : Accepted(t) \/ review[t] = "contraindicated"
        /\ ~check.failed /\ Blocking(unsupported) = {}
        /\ Unknown \notin Cited(strategy.road)
    BY DEF RequiredSettled
  <2>1. ~check.failed /\ ~GroundingErrors(strategy, review) /\ Blocking(unsupported) = {}
    BY DEF IInv, GateFollows, Actionable
  <2>2. Unresolved(strategy.road, review) = {} /\ Unknown \notin Cited(strategy.road)
    BY <2>1 DEF GroundingErrors
  <2>3. ASSUME NEW t \in Plan, ~Accepted(t) PROVE review[t] = "contraindicated"
    <3>1. t \in Missing(strategy.road, Plan)
      BY <2>3 DEF Missing, Accepted
    <3> QED  BY <2>2, <3>1 DEF Unresolved, Contraindicated
  <2> QED  BY <2>1, <2>2, <2>3
<1> QED  BY <1>1, StrategyInvariant, PTL

\* A report's decision stays within its gate and its confidence, and a GO stands
\* on a strategy that nothing was taken from.
THEOREM DecisionSafe == Spec => []DecisionBounded
<1>1. StrategyAssumption /\ IInv => DecisionBounded
  <2> SUFFICES ASSUME StrategyAssumption, IInv, pc = "done" PROVE
        /\ gate = "BLOCK" \/ low => decision = "NO_GO" /\ strategy.road = {}
        /\ decision = "GO" =>
             /\ gate = "GO" /\ sanitized = {} /\ unsupported = {}
             /\ repair = "no" /\ strategy.road \cap Withheld = {}
    BY DEF DecisionBounded
  <2>1. gate = "BLOCK" \/ low => decision = "NO_GO" /\ strategy.road = {}
    BY DEF IInv, GateFollows
  <2>2. attempt > 0
    BY DEF IInv, Stages, Looping, Composing, TypeOK
  <2>3. ASSUME decision = "GO"
        PROVE  /\ gate = "GO" /\ sanitized = {} /\ unsupported = {}
               /\ repair = "no" /\ strategy.road \cap Withheld = {}
    <3>1. gate = "GO" /\ sanitized = {} /\ unsupported = {}
      BY <2>3 DEF IInv, GateFollows
    <3>2. repair = "no"
      BY <3>1 DEF IInv, TakenOut
    <3>3. strategy.road \cap Withheld \subseteq {Bare}
      BY <2>2, <3>2 DEF IInv, TakenOut
    <3> QED  BY <3>1, <3>2, <3>3 DEF StrategyAssumption
  <2> QED  BY <2>1, <2>3
<1> QED  BY <1>1, StrategyAssumption, StrategyInvariant, PTL

\* Only the repair of the required tactics brings an action back that grounding
\* withholds or sanitation took out, and nothing brings a statement back.
THEOREM RestoredSafe == Spec => []OnlyRepairRestores
<1>1. IInv => OnlyRepairRestores
  BY DEF IInv, TakenOut, Stages, Looping, Composing, TypeOK, OnlyRepairRestores
<1> QED  BY <1>1, StrategyInvariant, PTL

\* An actionable report's summary was read by a check that was accepted.
THEOREM SummarySafe == Spec => []SummaryChecked
<1>1. IInv => SummaryChecked
  <2> SUFFICES ASSUME IInv, Actionable PROVE "summary" \notin fresh
    BY DEF SummaryChecked
  <2>1. attempt > 0 /\ ~check.failed
    BY DEF IInv, Stages, GateFollows, Looping, Composing, TypeOK, Actionable
  <2> QED  BY <2>1 DEF IInv, SummaryRead
<1> QED  BY <1>1, StrategyInvariant, PTL

\* The grounding notes of a report are its roadmap's or none, unless a candidate
\* was rejected.
THEOREM NotesSafe == Spec => []NotesMatch
<1>1. IInv => NotesMatch
  BY DEF IInv, NotesFollow, Stages, Looping, Composing, TypeOK, NotesMatch
<1> QED  BY <1>1, StrategyInvariant, PTL

\* The actions and the notes of the report can be traced to the steps that let
\* them through.
THEOREM TracesSafe == Spec => []ReportTraces
<1>1. OnlyRepairRestores /\ NotesMatch => ReportTraces
  BY DEF ReportTraces
<1> QED  BY <1>1, RestoredSafe, NotesSafe, PTL

\* Only the three steps that clean the strategy touch the lineage.
LEMMA LineageFrame ==
  ASSUME [Next]_vars, ~(Sanitize \/ Repair \/ Escalate)
  PROVE  UNCHANGED <<sanitized, review>>
BY DEF Next, Compose, Regenerate, Require, Fallback, RunFails, RepairDropped, Check, CheckFails,
       RepairFails, Gate, EscalateFails, Finish, Ended, vars, Later, Loop, Brief

\* Sanitized claims and reviewed dispositions stay recorded through repair and
\* escalation.
THEOREM LineageSafe == Spec => LineageKept
<1>1. IInv /\ [Next]_vars =>
        [/\ sanitized \subseteq sanitized'
         /\ \A t \in Required : review[t] # None => review'[t] # None]_vars
  BY CleanStep, LineageFrame, StrategyAssumption
<1> QED  BY <1>1, StrategyInvariant, PTL DEF Spec, LineageKept

\* The repair of the required tactics leaves the summary as it is.
THEOREM RepairLocksSafe == Spec => RepairLocks
<1>1. IInv /\ [Next]_vars => [pc = "repair" => strategy'.sum = strategy.sum]_vars
  <2> SUFFICES ASSUME IInv, Next, pc = "repair" PROVE strategy'.sum = strategy.sum
    OBVIOUS
  <2>1. CASE Repair
    BY <2>1, CleanStep, StrategyAssumption
  <2>2. CASE RepairFails
    BY <2>2 DEF RepairFails
  <2> QED  BY <2>1, <2>2 DEF Next, Compose, Regenerate, Require, Fallback, RunFails, RepairDropped,
             Check, CheckFails, Sanitize, Gate, Escalate, EscalateFails, Finish, Ended
<1> QED  BY <1>1, StrategyInvariant, PTL DEF Spec, RepairLocks

-----------------------------------------------------------------------------
(* Repairs are compared within their scope *)

\* There are finitely many claims, as there are texts they are about.
LEMMA ClaimsFinite ==
  ASSUME StrategyAssumption
  PROVE  IsFiniteSet(Claims)
<1> DEFINE severities == {"blocking", "hygiene"}
           quoting    == {"nothing", "words", "tactic"}
           settled    == Dispositions \cup {None}
           tuples     == ((Texts \X severities) \X quoting) \X settled
           C(t) == [text |-> t[1][1][1], severity |-> t[1][1][2], quotes |-> t[1][2],
                    disposition |-> t[2]]
           f == [t \in tuples |-> C(t)]
<1>1. IsFiniteSet(Texts)
  BY FS_Union DEF StrategyAssumption, Texts
<1>2. IsFiniteSet(severities)
  <2>1. IsFiniteSet({"blocking"}) /\ IsFiniteSet({"hygiene"})
    BY FS_Singleton
  <2>2. severities = {"blocking"} \cup {"hygiene"}
    OBVIOUS
  <2> HIDE DEF severities
  <2> QED  BY <2>1, <2>2, FS_Union
<1>3. IsFiniteSet(quoting)
  <2>1. IsFiniteSet({"nothing"}) /\ IsFiniteSet({"words"}) /\ IsFiniteSet({"tactic"})
    BY FS_Singleton
  <2>2. IsFiniteSet({"nothing"} \cup {"words"})
    BY <2>1, FS_Union
  <2>3. quoting = ({"nothing"} \cup {"words"}) \cup {"tactic"}
    OBVIOUS
  <2> HIDE DEF quoting
  <2> QED  BY <2>1, <2>2, <2>3, FS_Union
<1>4. IsFiniteSet(settled)
  <2>1. /\ IsFiniteSet({"contraindicated"}) /\ IsFiniteSet({"citation_rejected"})
        /\ IsFiniteSet({None})
    BY FS_Singleton
  <2>2. IsFiniteSet({"contraindicated"} \cup {"citation_rejected"})
    BY <2>1, FS_Union
  <2>3. settled = ({"contraindicated"} \cup {"citation_rejected"}) \cup {None}
    BY DEF Dispositions
  <2> HIDE DEF settled
  <2> QED  BY <2>1, <2>2, <2>3, FS_Union
<1>5. IsFiniteSet(tuples)
  <2>1. IsFiniteSet(Texts \X severities)
    BY <1>1, <1>2, FS_Product
  <2>2. IsFiniteSet((Texts \X severities) \X quoting)
    BY <1>3, <2>1, FS_Product
  <2> QED  BY <1>4, <2>2, FS_Product
<1>6. f \in Surjection(tuples, Claims)
  <2>1. \A t \in tuples : C(t) \in Claims
    BY DEF Claims
  <2>2. ASSUME NEW c \in Claims PROVE \E t \in tuples : f[t] = c
    <3>1. <<<<<<c.text, c.severity>>, c.quotes>>, c.disposition>> \in tuples
      BY DEF Claims
    <3>2. c = C(<<<<<<c.text, c.severity>>, c.quotes>>, c.disposition>>)
      BY DEF Claims
    <3> QED  BY <3>1, <3>2
  <2> QED  BY <2>1, <2>2 DEF Surjection
<1> QED  BY <1>5, <1>6, FS_Surjection

\* Claims that are added to both sides of a comparison, on other texts than
\* either, do not change it.
LEMMA ImprovesBeside ==
  ASSUME StrategyAssumption, NEW new \in SUBSET Claims, NEW old \in SUBSET Claims,
         NEW rest \in SUBSET Claims, new \cap rest = {}, old \cap rest = {},
         \/ Cardinality(Blocking(new)) < Cardinality(Blocking(old))
         \/ /\ Cardinality(Blocking(new)) = Cardinality(Blocking(old))
            /\ Cardinality(new) < Cardinality(old)
  PROVE  \/ Cardinality(Blocking(new \cup rest)) < Cardinality(Blocking(old \cup rest))
         \/ /\ Cardinality(Blocking(new \cup rest)) = Cardinality(Blocking(old \cup rest))
            /\ Cardinality(new \cup rest) < Cardinality(old \cup rest)
<1>1. ASSUME NEW a \in SUBSET Claims, NEW b \in SUBSET Claims, a \cap b = {}
      PROVE  /\ Cardinality(a) \in Nat /\ Cardinality(b) \in Nat
             /\ Cardinality(a \cup b) = Cardinality(a) + Cardinality(b)
  <2>1. IsFiniteSet(a) /\ IsFiniteSet(b)
    BY ClaimsFinite, FS_Subset
  <2>2. /\ Cardinality(a) \in Nat /\ Cardinality(b) \in Nat /\ Cardinality(a \cap b) = 0
    BY <1>1, <2>1, FS_CardinalityType, FS_EmptySet
  <2> QED  BY <2>1, <2>2, FS_Union
<1>2. /\ Blocking(new) \in SUBSET Claims /\ Blocking(old) \in SUBSET Claims
      /\ Blocking(rest) \in SUBSET Claims
      /\ Blocking(new) \cap Blocking(rest) = {} /\ Blocking(old) \cap Blocking(rest) = {}
      /\ Blocking(new \cup rest) = Blocking(new) \cup Blocking(rest)
      /\ Blocking(old \cup rest) = Blocking(old) \cup Blocking(rest)
  BY DEF Blocking
<1>3. /\ Cardinality(new) \in Nat /\ Cardinality(old) \in Nat /\ Cardinality(rest) \in Nat
      /\ Cardinality(new \cup rest) = Cardinality(new) + Cardinality(rest)
      /\ Cardinality(old \cup rest) = Cardinality(old) + Cardinality(rest)
  BY <1>1
<1>4. /\ Cardinality(Blocking(new)) \in Nat /\ Cardinality(Blocking(old)) \in Nat
      /\ Cardinality(Blocking(rest)) \in Nat
      /\ Cardinality(Blocking(new \cup rest))
           = Cardinality(Blocking(new)) + Cardinality(Blocking(rest))
      /\ Cardinality(Blocking(old \cup rest))
           = Cardinality(Blocking(old)) + Cardinality(Blocking(rest))
  BY <1>1, <1>2
<1> QED  BY <1>3, <1>4

\* The claims of a scope are those of its parts, and all claims are about a
\* summary or about a roadmap.
LEMMA ScopeClaims ==
  ASSUME StrategyAssumption, NEW sums \in SUBSET Claims, NEW road \in SUBSET Claims,
         \A c \in sums : c.text \in Statements, \A c \in road : c.text \in Actions
  PROVE  /\ ClaimsOn("summary", sums \cup road) = sums
         /\ ClaimsOn("roadmap", sums \cup road) = road
         /\ sums \cap road = {}
BY DEF StrategyAssumption, ClaimsOn

\* A check that improves on its scope improves on the whole: the claims on the
\* other part are the same.
LEMMA ScopeImproves ==
  ASSUME StrategyAssumption, NEW scoped \in SUBSET Parts,
         NEW sums \in SUBSET Claims, NEW road \in SUBSET Claims,
         NEW newSums \in SUBSET Claims, NEW newRoad \in SUBSET Claims,
         \A c \in sums \cup newSums : c.text \in Statements,
         \A c \in road \cup newRoad : c.text \in Actions,
         "summary" \notin scoped => newSums = sums, "roadmap" \notin scoped => newRoad = road,
         Improves(newSums \cup newRoad, sums \cup road, scoped)
  PROVE  Improves(newSums \cup newRoad, sums \cup road, Parts)
<1> DEFINE In(parts, claims) == UNION {ClaimsOn(part, claims) : part \in parts}
           old == sums \cup road
           new == newSums \cup newRoad
<1>1. /\ ClaimsOn("summary", old) = sums /\ ClaimsOn("roadmap", old) = road
      /\ ClaimsOn("summary", new) = newSums /\ ClaimsOn("roadmap", new) = newRoad
      /\ sums \cap road = {} /\ newSums \cap newRoad = {}
  <2>1. /\ ClaimsOn("summary", old) = sums /\ ClaimsOn("roadmap", old) = road
        /\ sums \cap road = {}
    <3>1. /\ \A c \in sums : c.text \in Statements
          /\ \A c \in road : c.text \in Actions
      OBVIOUS
    <3> QED  BY <3>1, ScopeClaims
  <2>2. /\ ClaimsOn("summary", new) = newSums /\ ClaimsOn("roadmap", new) = newRoad
        /\ newSums \cap newRoad = {}
    <3>1. /\ \A c \in newSums : c.text \in Statements
          /\ \A c \in newRoad : c.text \in Actions
      OBVIOUS
    <3> QED  BY <3>1, ScopeClaims
  <2> QED  BY <2>1, <2>2
<1>2. In(Parts, old) = old /\ In(Parts, new) = new
  BY <1>1 DEF Parts
<1>3. \/ Cardinality(Blocking(In(scoped, new))) < Cardinality(Blocking(In(scoped, old)))
      \/ /\ Cardinality(Blocking(In(scoped, new))) = Cardinality(Blocking(In(scoped, old)))
         /\ Cardinality(In(scoped, new)) < Cardinality(In(scoped, old))
  BY DEF Improves
<1>4. \/ Cardinality(Blocking(new)) < Cardinality(Blocking(old))
      \/ /\ Cardinality(Blocking(new)) = Cardinality(Blocking(old))
         /\ Cardinality(new) < Cardinality(old)
  <2>1. CASE scoped = {}
    <3>1. In(scoped, new) = {} /\ In(scoped, old) = {} /\ Blocking({}) = {}
      BY <2>1 DEF Blocking
    <3>2. Cardinality({}) = 0
      BY FS_EmptySet
    <3>3. ~(0 < 0)
      OBVIOUS
    <3> HIDE DEF In
    <3> QED  BY <1>3, <3>1, <3>2, <3>3
  <2>2. CASE scoped = {"summary"}
    <3>1. In(scoped, new) = newSums /\ In(scoped, old) = sums /\ newRoad = road
      BY <1>1, <2>2
    <3>2. new = newSums \cup road /\ old = sums \cup road /\ newSums \cap road = {}
      BY <1>1, <3>1
    <3> HIDE DEF In
    <3>3. \/ Cardinality(Blocking(newSums)) < Cardinality(Blocking(sums))
          \/ /\ Cardinality(Blocking(newSums)) = Cardinality(Blocking(sums))
             /\ Cardinality(newSums) < Cardinality(sums)
      BY <1>3, <3>1
    <3>4. \/ Cardinality(Blocking(newSums \cup road)) < Cardinality(Blocking(sums \cup road))
          \/ /\ Cardinality(Blocking(newSums \cup road)) = Cardinality(Blocking(sums \cup road))
             /\ Cardinality(newSums \cup road) < Cardinality(sums \cup road)
      BY <1>1, <3>2, <3>3, ImprovesBeside
    <3> HIDE DEF new, old
    <3> QED  BY <3>2, <3>4
  <2>3. CASE scoped = {"roadmap"}
    <3>1. In(scoped, new) = newRoad /\ In(scoped, old) = road /\ newSums = sums
      BY <1>1, <2>3
    <3>2. /\ new = newRoad \cup sums /\ old = road \cup sums
          /\ newRoad \cap sums = {} /\ road \cap sums = {}
      BY <1>1, <3>1
    <3> HIDE DEF In
    <3>3. \/ Cardinality(Blocking(newRoad)) < Cardinality(Blocking(road))
          \/ /\ Cardinality(Blocking(newRoad)) = Cardinality(Blocking(road))
             /\ Cardinality(newRoad) < Cardinality(road)
      BY <1>3, <3>1
    <3>4. \/ Cardinality(Blocking(newRoad \cup sums)) < Cardinality(Blocking(road \cup sums))
          \/ /\ Cardinality(Blocking(newRoad \cup sums)) = Cardinality(Blocking(road \cup sums))
             /\ Cardinality(newRoad \cup sums) < Cardinality(road \cup sums)
      BY <3>2, <3>3, ImprovesBeside
    <3> HIDE DEF new, old
    <3> QED  BY <3>2, <3>4
  <2>4. CASE scoped = Parts
    BY <1>2, <1>3, <2>4
  <2>5. scoped \in {{}, {"summary"}, {"roadmap"}, Parts}
    BY DEF Parts
  <2> QED  BY <2>1, <2>2, <2>3, <2>4, <2>5
<1> QED
  <2>1. Improves(new, old, Parts) <=>
          \/ Cardinality(Blocking(In(Parts, new))) < Cardinality(Blocking(In(Parts, old)))
          \/ /\ Cardinality(Blocking(In(Parts, new))) = Cardinality(Blocking(In(Parts, old)))
             /\ Cardinality(In(Parts, new)) < Cardinality(In(Parts, old))
    BY DEF Improves
  <2> HIDE DEF In
  <2> QED  BY <1>2, <1>4, <2>1

\* Only a check ends a pass of the loop.
LEMMA PassFrame ==
  ASSUME [Next]_vars, ~(Check \/ CheckFails)
  PROVE  attempt' = attempt
BY DEF Next, Compose, Regenerate, Require, Fallback, RunFails, RepairDropped, Sanitize, Repair,
       RepairFails, Gate, Escalate, EscalateFails, Finish, Ended, vars, Checked, Loop, Brief

\* No repair of the fact-check loop leaves more against the strategy than there
\* was: a candidate is compared within its own scope, and the claims on the rest
\* are those accepted before.
THEOREM NeverWorseSafe == Spec => NeverWorse
<1>1. IInv /\ [Next]_vars =>
        [attempt > 0 /\ attempt' > attempt =>
           \/ unsupported' = unsupported
           \/ Improves(unsupported', unsupported, Parts)]_vars
  <2> SUFFICES ASSUME IInv, [Next]_vars, attempt > 0, attempt' > attempt
               PROVE  \/ unsupported' = unsupported
                      \/ Improves(unsupported', unsupported, Parts)
    OBVIOUS
  <2> USE StrategyAssumption
  <2>1. attempt \in Nat
    BY DEF IInv, TypeOK
  <2>2. Check \/ CheckFails
    BY <2>1, PassFrame
  <2>3. CASE CheckFails
    BY <2>1, <2>3 DEF CheckFails, Reject
  <2>4. CASE Check
    <3>1. PICK c \in Verdicts(draft, scope) :
            IF attempt = 0 \/ Improves(Merged(c), unsupported, scope) THEN Accept(c) ELSE Reject
      BY <2>4 DEF Check
    <3>2. CASE Improves(Merged(c), unsupported, scope) /\ Accept(c)
      <4>1. /\ pc = "check" /\ unsupported = check.summary \cup check.roadmap
            /\ draft \in Strategies /\ scope \in SUBSET Parts
            /\ check.summary \in SUBSET Claims /\ check.roadmap \in SUBSET Claims
            /\ \A d \in check.summary : d.text \in Statements
            /\ \A d \in check.roadmap : d.text \in Actions
        BY <2>4, CheckStep DEF IInv, TypeOK, ClaimsKept, Early, Looping, Merged
      <4>2. /\ c.summary \in SUBSET Claims /\ c.roadmap \in SUBSET Claims
            /\ \A d \in c.summary : d.text \in Statements
            /\ \A d \in c.roadmap : d.text \in Actions
            /\ "summary" \notin scope => c.summary = check.summary
        BY <4>1, VerdictsFit DEF IInv
      <4>3. "roadmap" \notin scope => c.roadmap = check.roadmap
        BY DEF Verdicts
      <4>4. unsupported' = c.summary \cup c.roadmap
        BY <3>2 DEF Accept, Merged
      <4>5. Improves(c.summary \cup c.roadmap, check.summary \cup check.roadmap, scope)
        BY <3>2, <4>1 DEF Merged
      <4>6. Improves(c.summary \cup c.roadmap, check.summary \cup check.roadmap, Parts)
        BY <4>1, <4>2, <4>3, <4>5, ScopeImproves
      <4> QED  BY <4>1, <4>4, <4>6
    <3>3. CASE Reject
      BY <3>3 DEF Reject
    <3> QED  BY <2>1, <3>1, <3>2, <3>3
  <2> QED  BY <2>2, <2>3, <2>4
<1> QED  BY <1>1, StrategyInvariant, PTL DEF Spec, NeverWorse
=============================================================================
