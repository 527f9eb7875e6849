-------------------------- MODULE MCEvidenceIntake --------------------------
(* Workbooks with a hidden row, column and sheet, PDFs of sparse, scanned and  *)
(* illustrated pages, and tables for each analyzer, selected one or two at a   *)
(* time.                                                                       *)
EXTENDS EvidenceIntake, TLC

SlotSymmetry == Permutations(Slots)

MCItems == {"tags", "forecast"}
MCCadences == {[criterion |-> "F1", cadence |-> "MONTHLY"], [criterion |-> "F1", cadence |-> "WEEKLY"]}
MCExpected == [c \in {"A1", "C1"} |-> IF c = "A1" THEN {"tags"} ELSE {"forecast"}]

Bind(detection, head, criterion) ==
  [detection |-> detection, head |-> head, left |-> "-", right |-> "-", generic |-> FALSE,
   phase |-> "F1", joined |-> FALSE, cost |-> FALSE, criterion |-> criterion]

MCBindings == <<
  [Bind("paired_ratio", "--", "C1") EXCEPT !.left = "forecast", !.right = "actual"],
  Bind("numeric_series", "utilization", "D1"),
  Bind("segment_weights", "team", "A2"),
  Bind("adoption_flag", "tagged", "A1"),
  [Bind("process_records", "ownerless", "E2") EXCEPT !.phase = "F2"],
  [Bind("process_records", "status", "F2") EXCEPT !.generic = TRUE],
  Bind("process_records", "review", "F1"),
  Bind("exception_flag", "override", "E4"),
  Bind("association_pair", "-", "B1") >>

MCPairs == <<[left |-> "utilization", right |-> "tagged", criterion |-> "B1"]>>

MCAliases == [a \in {"usage rate"} |-> [pattern |-> "utilization", detections |-> {"numeric_series"}]]

\* Documents

Of(kind) == [kind |-> kind, size |-> 1, genuine |-> TRUE, sound |-> TRUE, fit |-> TRUE,
             pages |-> <<>>, sheets |-> <<>>]

APage(text, picture) == [text |-> text, picture |-> picture, tag |-> "plain", read |-> "plain",
                         names |-> {"forecast"}, declares |-> {[criterion |-> "F1", cadence |-> "MONTHLY"]}]

Pdf(pages) == [Of("pdf") EXCEPT !.pages = pages]

H(tag, matches) == [tag |-> tag, matches |-> matches, names |-> {"tags"}]

R(cells) == [hidden |-> FALSE, total |-> FALSE, cells |-> cells]

C(value) == [tag |-> "plain", value |-> value]

T(tag) == [tag |-> tag, value |-> "word 1"]

S(heads, rows) == [hidden |-> FALSE, heads |-> heads, rows |-> rows, covered |-> {},
                   headHidden |-> FALSE, chart |-> FALSE]

Concealed(sheet) == [sheet EXCEPT !.hidden = TRUE]

Without(sheet, columns) == [sheet EXCEPT !.covered = columns]

HideRow(sheet, r) == [sheet EXCEPT !.rows[r].hidden = TRUE]

Book(sheets) == [Of("xlsx") EXCEPT !.sheets = sheets]

Csv(sheet) == [Of("csv") EXCEPT !.sheets = <<sheet>>]

\* A trend and an association, whole and in part hidden
Figures == S(<<H("plain", {"utilization"}), H("plain", {"tagged", "adoption"}), H("plain", {"team"})>>,
             <<R(<<C("number"), C("yes"), C("word 1")>>), R(<<C("number"), C("no"), C("word 2")>>),
               R(<<C("number"), C("yes"), C("word 3")>>)>>)

Tickets == S(<<H("plain", {"review", "status"}), H("plain", {"event time"}), H("plain", {"exception", "override"})>>,
             <<R(<<C("open"), C("date 1"), C("yes")>>), R(<<C("closed"), C("date 2"), C("no")>>)>>)

\* Its first column presents a person the last column names
Interview == S(<<H("person", {}), H("plain", {"usage rate"}), H("plain", {"tagging"})>>,
               <<R(<<T("personal"), C("number"), T("name")>>), R(<<C(""), C("number"), C("yes")>>)>>)

Secrets == S(<<H("plain", {"owner"})>>, <<R(<<T("secret")>>)>>)

Scan == Pdf(<<APage("none", TRUE)>>)
Sketchy == Pdf(<<APage("sparse", FALSE), APage("full", TRUE), APage("sparse", FALSE)>>)
Long == Pdf(<<APage("full", FALSE), APage("full", FALSE), APage("full", FALSE), APage("full", FALSE)>>)
Photo == [Of("image") EXCEPT !.pages = <<APage("none", TRUE)>>]
Note == [Of("text") EXCEPT !.pages = <<APage("full", FALSE)>>]
Empty == [Of("text") EXCEPT !.pages = <<APage("none", FALSE)>>]

FiguresPart == Book(<<Without(Figures, {1}), HideRow(Tickets, 2)>>)
InterviewPart == Book(<<Without(Interview, {1}), Concealed(Figures)>>)
SecretRow == Book(<<HideRow(Secrets, 1)>>)
SecretSheet == Book(<<Tickets, Concealed(Secrets)>>)

MCSelections == {
  <<Csv(Figures), Scan>>, <<FiguresPart>>, <<InterviewPart, Note>>, <<Book(<<Figures, Tickets>>), Csv(Interview)>>,
  <<Scan>>, <<SecretRow>>, <<SecretSheet, Scan>>, <<Sketchy>>, <<Long>>, <<Photo, Empty>>,
  <<Book(<<HideRow(Figures, 1)>>)>>,
  <<[FiguresPart EXCEPT !.sheets[1].chart = TRUE], [Note EXCEPT !.size = 3], [Csv(Tickets) EXCEPT !.fit = FALSE]>> }
=============================================================================
