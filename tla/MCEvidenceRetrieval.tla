------------------------ MODULE MCEvidenceRetrieval ------------------------
(* Two domains and registries of up to five chunks, chosen so that chunks are  *)
(* omitted at each limit, gaps are filled by chunks that were not routed, and  *)
(* two passes find something new.                                            *)
EXTENDS EvidenceRetrieval

MCTerms == {"t1", "t2"}

\* A chunk of size n, of a tier in domain A and low in B
Of(n, tier, found, located, terms) ==
  [size |-> n, tier |-> [d \in Domains |-> IF d = "A" THEN tier ELSE "low"],
   signal |-> FALSE, found |-> found, located |-> located, terms |-> terms]

Shared(n, terms) == [Of(n, "high", {}, {}, terms) EXCEPT !.tier = [d \in Domains |-> "high"]]

Signal(c) == [c EXCEPT !.signal = TRUE]

Sound(chunks, gaps) == [chunks |-> chunks, gaps |-> gaps, warned |-> FALSE, sound |-> TRUE]

MCCorpora == {
  \* long candidates: some only fit the hard limit, one not at all
  Sound(<<Of(3, "high", {}, {}, {"t1"}), Shared(3, {"t2"}), Of(2, "medium", {}, {}, {}),
          Of(2, "medium", {}, {}, {"t1"}), Of(1, "low", {"A"}, {"B"}, {"t2"})>>, {}),
  \* little is routed; the gaps are filled by neutral chunks, then by terms
  Sound(<<Shared(2, {}), Signal(Of(1, "low", {"A", "B"}, {}, {"t1"})),
          Of(1, "low", {}, {"A"}, {"t2"}), Of(3, "low", {}, {}, {"t1", "t2"}),
          Of(4, "low", {}, {}, {"t1"})>>, {"A"}),
  \* a small chunk that is not routed hides an omitted candidate
  Sound(<<Shared(3, {}), Shared(3, {}), Shared(3, {}), Of(1, "low", {"A"}, {}, {"t1"}),
          Of(1, "low", {}, {}, {"t2"})>>, {}),
  \* enough from the start
  [Sound(<<Shared(1, {}), Shared(1, {"t1"}), Of(1, "low", {}, {}, {"t1"})>>, {}) EXCEPT !.warned = TRUE],
  \* nothing routed to B; and a candidate longer than any packet
  Sound(<<Of(2, "high", {}, {}, {}), Of(2, "medium", {}, {}, {"t1", "t2"})>>, {"B"}),
  Sound(<<Of(9, "high", {}, {}, {}), Of(1, "low", {}, {}, {"t1"})>>, {}),
  [Sound(<<Shared(1, {})>>, {}) EXCEPT !.sound = FALSE] }
=============================================================================
