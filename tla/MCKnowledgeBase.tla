--------------------------- MODULE MCKnowledgeBase ---------------------------
(* Two criteria, one of them under two names: a third blob is one too many    *)
(* for a listing, and two of the same key a duplicate.  A content is whole,   *)
(* or cut short with a section that is too long, and three of them exceed     *)
(* the limit of an index; one under the wrong name is not valid.              *)
EXTENDS KnowledgeBase

MCPaths == <<"A1.pdf", "AP-A1.pdf", "old/A1-AP.pdf">>
MCPathKey == [path \in {"A1.pdf", "AP-A1.pdf", "old/A1-AP.pdf"} |->
  IF path = "A1.pdf" THEN "maturity:A1" ELSE "antipattern:AP-A1"]
MCExpectedKeys == {"maturity:A1", "antipattern:AP-A1"}

Whole == [canonical_definition |-> 2, evidence_requirements |-> 2,
          scoring_guidance |-> 1, risk_notes |-> 1]

Content(key, size, sections, flaws) ==
  [key |-> key, valid |-> TRUE, size |-> size, sections |-> sections, flaws |-> flaws]

MCContents == {
  Content("maturity:A1", 2, Whole, {}),
  Content("antipattern:AP-A1", 2, Whole, {}),
  Content("antipattern:AP-A1", 3,
          [canonical_definition |-> 6, strong_evidence_examples |-> 4,
           scoring_guidance |-> 1, risk_notes |-> 3], {"page_limit"})}
=============================================================================
