-------------------------- MODULE DerivedEvidence --------------------------
(***************************************************************************)
(* The evidence that is calculated from the tables, without a model.       *)
(*                                                                         *)
(* src/services/derivedEvidence/*.ts              the analyzers            *)
(* src/services/structuredDataAnalysisService.ts  tags and allocation      *)
(*                                                                         *)
(* Each analyzer looks for the columns whose heads match the patterns of   *)
(* the catalogue of bindings, decides whether the rows hold what it can    *)
(* use, and makes an item of evidence; an item of which every condition    *)
(* holds is given to the models as a fact they may not question.  What is  *)
(* modelled is which items there are, of which table and population, and   *)
(* which of them are approved.  The statistics and the bands they are      *)
(* reported in are left out, and so are the scores by which one of several *)
(* matching heads is preferred: the first is taken.                        *)
(***************************************************************************)
EXTENDS SourceDocuments

CONSTANTS
  Bindings,         \* the catalogue, in its order
  Pairs,            \* the permitted associations, in their order
  Aliases,          \* patterns by other names: a function to <<pattern, detections>>
  Expected,         \* the crucial items of each criterion
  MinObservations,  \* 6 in the code
  MinSegments,      \* 3
  MaxAliases        \* heads renamed in a table: 2

\* The patterns of the structure of a table; those of the bindings come beside
Structural == {"cost", "weight", "time", "event time", "status", "owner", "adoption",
               "exception", "entity"}
Fields == {"tagging", "allocation", "mapping"}

Detections == {"paired_ratio", "numeric_series", "segment_weights", "adoption_flag",
               "process_records", "exception_flag", "association_pair", "declared_cadence"}

\* A binding finds its column by head (left and right for a pair), or by the
\* theme of all heads (joined).  A binding of phase F0 is found through a
\* structural head, or by its exact name, which is left out.
Binding == [detection : Detections, head : STRING, left : STRING, right : STRING,
            generic : BOOLEAN, phase : {"F0", "F1", "F2"}, joined : BOOLEAN,
            cost : BOOLEAN, criterion : STRING]

\* Values as the analyzers tell them apart
Dates == {"date 1", "date 2"}
Values == Dates \union {"", "number", "yes", "no", "open", "closed", "word 1", "word 2", "word 3"}

ASSUME DerivedAssumption ==
  /\ {MinObservations, MinSegments, MaxAliases} \subseteq Nat

-----------------------------------------------------------------------------
(* What an analyzer sees of a table *)

\* A redacted value is a word.
Value(doc, at) ==
  IF Redacted(doc, at) THEN "word 1" ELSE doc.sheets[at[2]].rows[at[3]].cells[at[4]].value

\* The heads by position, the rows that are no totals, and what the table is of
View(doc, t) ==
  LET counted == InOrder({i \in DOMAIN t.rows : ~doc.sheets[t.sheet].rows[t.rows[i].row].total})
      ValuesOf(r) == [k \in DOMAIN r.cells |-> Value(doc, <<"cell", t.sheet, r.row, r.cells[k]>>)]
  IN [heads |-> [k \in DOMAIN t.columns |-> doc.sheets[t.sheet].heads[t.columns[k]].matches],
      rows |-> [i \in DOMAIN counted |-> ValuesOf(t.rows[counted[i]])],
      all |-> Len(t.rows), sheet |-> t.sheet,
      hiddenRows |-> t.hiddenRows, hiddenColumns |-> t.hiddenColumns]

Matching(view, patterns) == {k \in DOMAIN view.heads : view.heads[k] \cap patterns # {}}

\* findIndex: the first position, 0 if there is none
First(positions) == IF positions = {} THEN 0 ELSE Min(positions)

Column(view, patterns) == First(Matching(view, patterns))

\* The rows whose value at a position is one of some
With(view, k, values) ==
  IF k = 0 THEN {} ELSE {i \in DOMAIN view.rows : view.rows[i][k] \in values}

Live(detection) == {i \in DOMAIN Bindings : Bindings[i].detection = detection}

\* The first binding of a kind that satisfies a condition, as a set
FirstBinding(detection, Fits(_)) ==
  LET fitting == {i \in Live(detection) : Fits(Bindings[i])}
  IN IF fitting = {} THEN {} ELSE {Bindings[Min(fitting)]}

-----------------------------------------------------------------------------
(* The population *)

\* tableEligibilityReasons, where hidden columns are no reason
RowsOnly(view) == IF view.hiddenRows > 0 THEN {"HIDDEN_SOURCE_STRUCTURE_WITHHELD"} ELSE {}

\* Populations are complete: every row that is not hidden is analysed, so
\* INCOMPLETE_POPULATION is never a reason.
HiddenReasons(view) ==
  IF view.hiddenRows > 0 \/ view.hiddenColumns > 0 THEN {"HIDDEN_SOURCE_STRUCTURE_WITHHELD"} ELSE {}

\* buildDerived: an item from n observations; too few are a reason of their own
Item(view, analyzer, criterion, n, least) ==
  [analyzer |-> analyzer, sheet |-> view.sheet, criterion |-> criterion, n |-> n,
   status |-> IF n < least THEN "NO_STATISTICALLY_USABLE_POPULATION" ELSE "OBSERVED",
   reasons |-> HiddenReasons(view)
                 \union (IF n < least THEN {"NO_STATISTICALLY_USABLE_POPULATION"} ELSE {})]

Authoritative(item) == item.reasons = {} /\ item.status = "OBSERVED"

-----------------------------------------------------------------------------
(* The analyzers *)

\* detectTrendSeries: the first paired binding whose columns exist decides,
\* whether it has points or not
Paired(view) ==
  FirstBinding("paired_ratio",
    LAMBDA b : LET l == Column(view, {b.left})
                   r == Column(view, {b.right})
               IN l # 0 /\ r # 0 /\ l # r)

Series(view) ==
  FirstBinding("numeric_series",
    LAMBDA b : \E k \in Matching(view, {b.head}) : b.cost \/ "cost" \notin view.heads[k])

TrendPoints(view) ==
  IF Paired(view) # {}
    THEN {[criterion |-> b.criterion,
           points |-> With(view, Column(view, {b.left}), {"number"})
                        \cap With(view, Column(view, {b.right}), {"number"})] : b \in Paired(view)}
    ELSE {[criterion |-> b.criterion,
           points |-> With(view, First({k \in Matching(view, {b.head}) :
                                          b.cost \/ "cost" \notin view.heads[k]}), {"number"})] :
            b \in Series(view)}

TrendSeries(view) == {s \in TrendPoints(view) : s.points # {}}

AnalyzeTrend(view) ==
  {Item(view, "trend_v1", s.criterion, Cardinality(s.points), MinObservations) : s \in TrendSeries(view)}

AnalyzeVariation(view) ==
  {Item(view, "variation_v1", s.criterion, Cardinality(s.points), MinObservations) : s \in TrendSeries(view)}

\* detectConcentration: by the first head a binding knows; rows with a segment
\* and, where there is a column of weights, a weight
Segments(view) ==
  LET known == {k \in DOMAIN view.heads :
                  \E i \in Live("segment_weights") : Bindings[i].head \in view.heads[k]}
      weight == IF Column(view, {"cost"}) # 0 THEN Column(view, {"cost"}) ELSE Column(view, {"weight"})
      weighed == IF weight = 0 THEN DOMAIN view.rows ELSE With(view, weight, {"number"})
  IN IF known = {} THEN {}
     ELSE {[criterion |-> b.criterion,
            groups |-> {view.rows[i][Min(known)] : i \in weighed} \ {""}] :
             b \in FirstBinding("segment_weights", LAMBDA b : b.head \in view.heads[Min(known)])}

AnalyzeConcentration(view) ==
  {Item(view, "concentration_v1", s.criterion, Len(view.rows), 0) :
     s \in {g \in Segments(view) : Cardinality(g.groups) >= MinSegments}}

\* detectAdoption: by a head of the practice and the theme of the heads, else
\* by the head of a binding
Themed(view, detection) ==
  FirstBinding(detection, LAMBDA b : Matching(view, {b.head}) # {})

Adoption(view) ==
  IF Column(view, {"adoption"}) # 0 /\ Themed(view, "adoption_flag") # {}
    THEN {[criterion |-> b.criterion, flags |-> With(view, Column(view, {"adoption"}), {"yes", "no"})] :
            b \in Themed(view, "adoption_flag")}
    ELSE {[criterion |-> b.criterion, flags |-> With(view, Column(view, {b.head}), {"yes", "no"})] :
            b \in FirstBinding("adoption_flag",
                    LAMBDA b : b.phase # "F0" /\ Matching(view, {b.head}) # {})}

AnalyzeAdoption(view) ==
  {Item(view, "adoption_v1", a.criterion, Len(view.rows), 0) :
     a \in {f \in Adoption(view) : f.flags # {}}}

\* detectProcess: records with a status or a time; without either, the column
\* of an F2 binding, whose values may be times.  A generic binding yields to
\* another of the theme.
Ownerless == FirstBinding("process_records", LAMBDA b : b.criterion = "E2")

Forced(view) ==
  IF Matching(view, {"status", "time", "event time"}) # {} THEN {}
  ELSE FirstBinding("process_records", LAMBDA b : b.phase = "F2" /\ Matching(view, {b.head}) # {})

Specific(view) ==
  FirstBinding("process_records", LAMBDA b : ~b.generic /\ Matching(view, {b.head}) # {})

ProcessBinding(view) ==
  IF Forced(view) # {} THEN Forced(view)
  ELSE IF Specific(view) # {} THEN Specific(view)
  ELSE Themed(view, "process_records")

TimeColumn(view) ==
  IF Forced(view) = {} THEN Column(view, {"time", "event time"})
  ELSE Column(view, {b.head : b \in Forced(view)})

ProcessTimes(view) == With(view, TimeColumn(view), Dates)

Process(view) ==
  LET owned == \E b \in Ownerless : Matching(view, {b.head}) # {}
      timed == Forced(view) # {} /\ ProcessTimes(view) # {}
  IN IF \/ Matching(view, {"status", "time", "event time"}) # {}
        \/ timed \/ owned
       THEN ProcessBinding(view) ELSE {}

AnalyzeProcess(view) ==
  {Item(view, "process_v1", b.criterion, Len(view.rows), 0) :
     b \in {p \in Process(view) : view.rows # <<>>}}

\* detectException: the theme is sought in the column, or in all the heads
Exception(view) ==
  LET column == Column(view, {"exception"})
      here == IF column = 0 THEN {}
              ELSE FirstBinding("exception_flag",
                     LAMBDA b : IF b.joined THEN Matching(view, {b.head}) # {}
                                ELSE b.head \in view.heads[column])
  IN IF here # {} THEN here
     ELSE FirstBinding("exception_flag",
            LAMBDA b : b.phase # "F0" /\ ~b.joined /\ Matching(view, {b.head}) # {})

AnalyzeException(view) ==
  {Item(view, "exception_v1", b.criterion, Len(view.rows), 0) :
     b \in {e \in Exception(view) : view.rows # <<>>}}

\* detectAssociationPairs: every permitted pair, of the rows with both values.
\* A pair whose correlation is undefined (a constant column) yields nothing.
PairPoints(view, p) ==
  With(view, Column(view, {p.left}), {"number", "yes", "no"})
    \cap With(view, Column(view, {p.right}), {"number", "yes", "no"})

Varied(view, k, points) == Cardinality({view.rows[i][k] : i \in points}) > 1

AnalyzeAssociation(view) ==
  {Item(view, "association_v1", p.criterion, Cardinality(PairPoints(view, p)), MinObservations) :
     p \in {q \in ToSet(Pairs) :
              LET l == Column(view, {q.left})
                  r == Column(view, {q.right})
                  points == PairPoints(view, q)
              IN /\ l # r /\ points # {}
                 /\ \/ Cardinality(points) < MinObservations
                    \/ Varied(view, l, points) /\ Varied(view, r, points)}}

\* analyzeTaggingAllocationTable: an item for every table, without a signal too
AnalyzeTagging(view) ==
  LET signal == Matching(view, Fields) # {} /\ view.all > 0
  IN {[analyzer |-> "tagging_allocation_v1", sheet |-> view.sheet, criterion |-> "A1", n |-> view.all,
       status |-> IF signal THEN "OBSERVED" ELSE "INSUFFICIENT_SIGNAL",
       reasons |-> HiddenReasons(view) \union (IF signal THEN {} ELSE {"INSUFFICIENT_SIGNAL"})]}

-----------------------------------------------------------------------------
(* The sources *)

\* tablesFor
Views(doc) == {View(doc, t) : t \in OfferedTables(doc)}

\* shapedFrom
Shaped(views) ==
  UNION {AnalyzeTrend(v) \union AnalyzeVariation(v) \union AnalyzeConcentration(v)
           \union AnalyzeAdoption(v) \union AnalyzeProcess(v) \union AnalyzeException(v)
           \union AnalyzeAssociation(v) : v \in views}

\* columnKind: what at least half of the values that are there are
ColumnKind(view, k) ==
  LET Half(values) == /\ With(view, k, Values \ {""}) # {}
                      /\ 2 * Cardinality(With(view, k, values))
                           >= Cardinality(With(view, k, Values \ {""}))
  IN IF Half(Dates) THEN "time"
     ELSE IF Half({"yes", "no"}) THEN "flag"
     ELSE IF Half({"number"}) THEN "numeric"
     ELSE "label"

Compatible(kind) ==
  CASE kind = "numeric" -> {"numeric_series", "paired_ratio", "association_pair"}
    [] kind = "flag"    -> {"adoption_flag", "exception_flag", "process_records"}
    [] kind = "time"    -> {"process_records"}
    [] OTHER            -> {"segment_weights", "process_records"}

\* headerIsRecognised
Recognised(matches) ==
  \E b \in ToSet(Bindings) : matches \cap ({b.head, b.left, b.right} \union Structural) # {}

\* resolveColumnAlias: the pattern a head that is not recognised stands for
AliasesOf(view, k) ==
  IF Recognised(view.heads[k]) THEN {}
  ELSE {Aliases[m].pattern : m \in {a \in view.heads[k] \cap DOMAIN Aliases :
                                      Aliases[a].detections \cap Compatible(ColumnKind(view, k)) # {}}}

\* applyColumnAliasRetry: the first heads that have one are renamed
Renamed(view) ==
  LET able == {k \in DOMAIN view.heads : AliasesOf(view, k) # {}}
  IN [view EXCEPT !.heads =
        [k \in DOMAIN view.heads |->
           IF k \in able /\ Cardinality({j \in able : j < k}) < MaxAliases
             THEN AliasesOf(view, k) ELSE view.heads[k]]]

\* shapedWithAliasRetry: only a source without any item is tried again
ShapedWithRetry(views) ==
  IF Shaped(views) # {} THEN Shaped(views) ELSE Shaped({Renamed(v) : v \in views})

\* corpusHaystack and corpusText take the heads of every table, hidden sheets
\* included, but of the visible columns
HeadsOf(doc) ==
  UNION {{doc.sheets[t.sheet].heads[c] : c \in ToSet(t.columns)} : t \in ToSet(Tables(doc))}

\* detectDeclaredCadences: a criterion with exactly one, in text that is not of
\* an image.  What cells declare or name is left out here and below.
Declared(sources) ==
  LET said == UNION {UNION {file.doc.pages[p].declares : p \in ReadPages(file.doc)} :
                       file \in {f \in ToSet(sources) : f.doc.kind # "image"}}
  IN {d \in said : \A e \in said : e.criterion = d.criterion => e = d}

\* analyzeConsistency: a process whose median gap is not zero, and a declared
\* cadence
Periodic(view) ==
  LET times == ProcessTimes(view)
      distinct == {view.rows[i][TimeColumn(view)] : i \in times}
  IN Cardinality(distinct) > 1 /\ 2 * (Cardinality(distinct) - 1) >= Cardinality(times) - 1

AnalyzeConsistency(views, declared) ==
  UNION {{Item(v, "consistency_v1", b.criterion, Len(v.rows), 0) :
            b \in {p \in Process(v) :
                     /\ Periodic(v)
                     /\ \E d \in declared : d.criterion = p.criterion}} : v \in views}

\* analyzeCrucialItemCoverage: what of a criterion is found anywhere; always
\* eligible
Named(sources) ==
  UNION {(UNION {file.doc.pages[p].names : p \in ReadPages(file.doc)})
           \union (UNION {h.names : h \in HeadsOf(file.doc)}) : file \in ToSet(sources)}

Coverage(sources) ==
  [criterion \in DOMAIN Expected |->
     [found |-> Expected[criterion] \cap Named(sources),
      missing |-> Expected[criterion] \ Named(sources)]]

\* deriveAllEvidenceSignals, for the source at a place in the order
Derived(sources, i) ==
  LET views == Views(sources[i].doc)
  IN (UNION {AnalyzeTagging(v) : v \in views}) \union ShapedWithRetry(views)
       \union AnalyzeConsistency(views, Declared(sources))

\* domainDerived: what the models are given as calculated.  Approved coverage items
\* are diagnostics, and stay out of what the models read.
Approved(sources, i) == {item \in Derived(sources, i) : Authoritative(item)}
=============================================================================
