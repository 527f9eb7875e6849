--------------------------- MODULE MCAssessment ---------------------------
(* Five pairs in the domain of the criterion that is followed and one in      *)
(* another: a single resolved criterion of the first is exactly a tenth.  The *)
(* others are as the code leaves some sample answers.                         *)
EXTENDS Assessment, TLC

CONSTANTS p1, p2, p3, p4, p5, q1

MCPairs    == {p1, p2, p3, p4, p5, q1}
MCDomainOf == [p \in MCPairs |-> IF p = q1 THEN "Q" ELSE "P"]
MCStrength == [p \in MCPairs |-> CASE p = p1 -> 75 [] p = p2 -> 25 [] OTHER -> 100]

\* Items of the log.  A tested absence that was not assessed is kept as one.
Capability(count, assessed, status) ==
  [count |-> count, assessed |-> assessed, supported |-> count, bound |-> assessed,
   stray |-> FALSE, direct |-> assessed, status |-> status, absence |-> None,
   unresolved |-> FALSE, silent |-> ~assessed, words |-> "neither", doubt |-> "no"]

AntiPattern(count, assessed, status, absence) ==
  [Capability(count, assessed, status) EXCEPT
     !.absence = absence, !.silent = absence = "unknown_absent"]

Strong    == Capability(3, TRUE, "supported")
Partial   == Capability(1, TRUE, "weak")
Gap       == Capability(0, TRUE, "supported")
Refused   == Capability(0, TRUE, "unsupported")
Unseen    == Capability(0, FALSE, "supported")
Unchecked == [Strong EXCEPT !.status = "missing", !.unresolved = TRUE, !.doubt = "verification"]

Harmful   == AntiPattern(3, TRUE, "supported", "confirmed_present")
Tested    == AntiPattern(0, TRUE, "supported", "tested_absent")
Declared  == AntiPattern(0, FALSE, "supported", "tested_absent")
Unknown   == AntiPattern(0, FALSE, "supported", "unknown_absent")
Undecided == [AntiPattern(0, TRUE, "missing", "unknown_absent") EXCEPT !.doubt = "adjudication"]

\* They are what the code leaves of an answer and its verdict.
Answer(count, assessed) ==
  [count |-> count, assessed |-> assessed, support |-> IF assessed THEN "supported" ELSE "weak",
   bound |-> assessed, stray |-> FALSE]

Left(s, answer, checked) ==
  LET entries == Reconciled(s, Applied(s, answer, checked), checked)
  IN Sanitized(s, entries, checked.unresolved, "neither", entries.bound)

Judged(s, answer, status, verified, absence) ==
  Verdict(s, answer, [status |-> status, verified |-> verified, rescan |-> FALSE,
                      absence |-> absence])

ASSUME SamplesAssumption ==
  LET M(item, answer, status, verified) ==
        item = Left("maturity", answer, Judged("maturity", answer, status, verified, None))
      A(item, answer, status, verified, absence) ==
        item = Left("antipattern", answer,
                    Judged("antipattern", answer, status, verified, absence))
  IN /\ M(Strong, Answer(3, TRUE), "supported", 3)
     /\ M(Partial, Answer(2, TRUE), "weak", 1)
     /\ M(Gap, Answer(0, TRUE), "supported", 0)
     /\ M(Refused, Answer(2, TRUE), "unsupported", 0)
     /\ M(Unseen, Answer(0, FALSE), "missing", 0)
     /\ Unchecked = Left("maturity", Answer(3, TRUE), Unverified("maturity", Answer(3, TRUE)))
     /\ A(Harmful, Answer(3, TRUE), "supported", 3, "confirmed_present")
     /\ A(Tested, Answer(0, TRUE), "supported", 0, "tested_absent")
     /\ A(Declared, Answer(0, FALSE), "supported", 0, "tested_absent")
     /\ A(Unknown, Answer(0, FALSE), "missing", 0, "unknown_absent")
     /\ Undecided = Left("antipattern", Answer(2, TRUE),
          Adjudicated(Judged("antipattern", Answer(2, TRUE), "unsupported", 0, "unknown_absent"),
                      None))

Company(m, a, mq, aq) ==
  LET others == [maturity |-> m, antipattern |-> a]
  IN p1 :> others @@ p2 :> others @@ p3 :> others @@ p4 :> others @@ p5 :> others
     @@ q1 :> [maturity |-> mq, antipattern |-> aq]

MCCompanies ==
  {Company(Strong, Tested, Strong, Tested),
   Company(Unseen, Unknown, Unseen, Unknown),
   Company(Strong, Unknown, Unseen, Unknown),
   Company(Partial, Harmful, Gap, Harmful),
   Company(Refused, Declared, Strong, Declared),
   Company(Strong, Tested, Unchecked, Tested),
   Company(Strong, Tested, Strong, Undecided),
   Company(Strong, Harmful, Partial, Tested),
   [Company(Unseen, Unknown, Strong, Unknown) EXCEPT ![p2] = [maturity |-> Gap, antipattern |-> Tested]]}
=============================================================================
