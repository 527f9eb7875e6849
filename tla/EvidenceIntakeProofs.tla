------------------------ MODULE EvidenceIntakeProofs ------------------------
(***************************************************************************)
(* Theorems about EvidenceIntake for any documents, selections, slots and  *)
(* bounds: what is read of a document and stands in the chunks is what is  *)
(* not hidden in it, all of it and under its own head, and nothing that is *)
(* to be withheld; a secret stops the run; what is offered as calculated   *)
(* from a complete population is; and no file is lost to another selection.*)
(***************************************************************************)
EXTENDS EvidenceIntake, FiniteSetTheorems, SequenceTheorems, TLAPS

-----------------------------------------------------------------------------
(* The inductive invariant *)

\* Files that the readers have kept
SoundFiles == {f \in Files : f.ocr \subseteq Recognisable(f.doc) /\ Accepted(f)}

\* Every file on the screen, in a selection or in a run went through a reader.
Sound ==
  /\ files \in Seq(SoundFiles) /\ shown \in Seq(SoundFiles)
  /\ \A s \in Slots : uploads[s].kept \in Seq(SoundFiles)
  /\ unlocking \in SUBSET Seq(SoundFiles)
  /\ run.sources \in Seq(SoundFiles)

\* Nothing goes to the models but what the checks before them have accepted.
Examined == run.at = "models" => Verdict(run.sources) = "accepted"

IInv == TypeOK /\ Sound /\ Examined

-----------------------------------------------------------------------------
(* Numbers in their order *)

\* The sequence of a finite set of numbers has each of them, once.
LEMMA InOrderFits ==
  ASSUME NEW S \in SUBSET Nat, IsFiniteSet(S)
  PROVE  /\ InOrder(S) \in Seq(S) /\ Len(InOrder(S)) = Cardinality(S)
         /\ DOMAIN InOrder(S) = 1 .. Cardinality(S)
         /\ Cardinality(S) \in Nat
         /\ ToSet(InOrder(S)) = S
<1> DEFINE below(n) == {m \in S : m <= n}
           rank == [n \in S |-> Cardinality(below(n))]
           N == Cardinality(S)
<1>1. N \in Nat
  BY FS_CardinalityType
<1>2. ASSUME NEW n \in S PROVE Cardinality(below(n)) \in 1 .. N /\ IsFiniteSet(below(n))
  <2>1. IsFiniteSet(below(n)) /\ Cardinality(below(n)) <= N
    BY FS_Subset
  <2>2. Cardinality(below(n)) \in Nat /\ Cardinality(below(n)) # 0
    BY <2>1, FS_CardinalityType, FS_EmptySet
  <2> QED  BY <1>1, <2>1, <2>2
<1>3. ASSUME NEW n \in S, NEW o \in S, n < o PROVE Cardinality(below(n)) < Cardinality(below(o))
  <2>1. below(n) \in SUBSET below(o) /\ below(n) # below(o)
    <3>1. o \in below(o) /\ o \notin below(n)
      BY <1>3
    <3>2. \A m \in below(n) : m \in below(o)
      BY <1>3
    <3> QED  BY <3>1, <3>2
  <2>2. Cardinality(below(n)) <= Cardinality(below(o)) /\ Cardinality(below(n)) # Cardinality(below(o))
    BY <1>2, <2>1, FS_Subset
  <2> QED  BY <1>1, <1>2, <2>2
<1>4. rank \in Injection(S, 1 .. N)
  <2>1. rank \in [S -> 1 .. N]
    BY <1>2
  <2>2. ASSUME NEW n \in S, NEW o \in S, rank[n] = rank[o] PROVE n = o
    <3>1. rank[n] \in Nat /\ ~(rank[n] < rank[o]) /\ ~(rank[o] < rank[n])
      BY <1>1, <1>2, <2>2
    <3> QED  BY <1>3, <3>1
  <2> QED  BY <2>1, <2>2 DEF Injection, IsInjective
<1>5. rank \in Surjection(S, 1 .. N)
  <2>1. IsFiniteSet(1 .. N) /\ Cardinality(1 .. N) = N
    BY <1>1, FS_Interval
  <2> QED  BY <1>4, <2>1, FS_Injection
<1>6. ASSUME NEW k \in 1 .. N
      PROVE  InOrder(S)[k] \in S /\ rank[InOrder(S)[k]] = k
  <2>1. \E n \in S : Cardinality(below(n)) = k
    BY <1>5 DEF Surjection
  <2> QED  BY <2>1 DEF InOrder
<1>7. InOrder(S) \in [1 .. N -> S]
  BY <1>6 DEF InOrder
<1>8. \A n \in S : InOrder(S)[rank[n]] = n
  BY <1>2, <1>4, <1>6 DEF Injection, IsInjective
<1>9. DOMAIN InOrder(S) = 1 .. N /\ InOrder(S) \in Seq(S) /\ Len(InOrder(S)) = N
  BY <1>1, <1>7
<1>10. ToSet(InOrder(S)) = S
  <2>1. \A n \in S : rank[n] \in 1 .. N
    BY <1>2
  <2> HIDE DEF rank, N
  <2> QED  BY <1>7, <1>8, <1>9, <2>1 DEF ToSet
<1> QED  BY <1>1, <1>9, <1>10

-----------------------------------------------------------------------------
(* Tables *)

\* What is read of a sheet: the columns and the rows that are not hidden, each
\* once.
LEMMA SheetRead ==
  ASSUME NEW doc \in Document, NEW s \in DOMAIN doc.sheets, NEW sheet, sheet = doc.sheets[s]
  PROVE  /\ s \in Nat /\ sheet \in Sheet
         /\ IsFiniteSet(Columns(sheet)) /\ Cardinality(Columns(sheet)) = Len(sheet.heads)
         /\ IsFiniteSet(DOMAIN sheet.rows) /\ Cardinality(DOMAIN sheet.rows) = Len(sheet.rows)
         /\ ToSet(VisibleColumns(sheet)) = Columns(sheet) \ sheet.covered
         /\ ToSet(VisibleRows(sheet)) = {r \in DOMAIN sheet.rows : ~sheet.rows[r].hidden}
         /\ Len(VisibleColumns(sheet)) = Cardinality(Columns(sheet) \ sheet.covered)
         /\ Len(VisibleRows(sheet))
              = Cardinality({r \in DOMAIN sheet.rows : ~sheet.rows[r].hidden})
         /\ DOMAIN VisibleColumns(sheet) = 1 .. Len(VisibleColumns(sheet))
         /\ DOMAIN VisibleRows(sheet) = 1 .. Len(VisibleRows(sheet))
         /\ Len(VisibleColumns(sheet)) \in Nat /\ Len(VisibleRows(sheet)) \in Nat
<1>1. doc.sheets \in Seq(Sheet)
  BY DEF Document
<1>2. s \in Nat /\ sheet \in Sheet
  BY <1>1
<1>3. sheet.heads \in Seq(ColumnHead) /\ sheet.rows \in Seq(Row)
  BY <1>2 DEF Sheet
<1>4. /\ Columns(sheet) = 1 .. Len(sheet.heads) /\ Len(sheet.heads) \in Nat
      /\ DOMAIN sheet.rows = 1 .. Len(sheet.rows) /\ Len(sheet.rows) \in Nat
  BY <1>3 DEF Columns
<1>5. /\ IsFiniteSet(Columns(sheet)) /\ Cardinality(Columns(sheet)) = Len(sheet.heads)
      /\ IsFiniteSet(DOMAIN sheet.rows) /\ Cardinality(DOMAIN sheet.rows) = Len(sheet.rows)
  <2>1. \A n \in Nat : IsFiniteSet(1 .. n) /\ Cardinality(1 .. n) = n
    BY FS_Interval
  <2> QED  BY <1>4, <2>1
<1> DEFINE open == Columns(sheet) \ sheet.covered
           kept == {r \in DOMAIN sheet.rows : ~sheet.rows[r].hidden}
<1>6. open \in SUBSET Columns(sheet) /\ kept \in SUBSET DOMAIN sheet.rows
  OBVIOUS
<1>7. open \in SUBSET Nat /\ kept \in SUBSET Nat
  BY <1>4
<1>8. IsFiniteSet(open) /\ IsFiniteSet(kept)
  BY <1>5, <1>6, FS_Subset
<1>9. VisibleColumns(sheet) = InOrder(open) /\ VisibleRows(sheet) = InOrder(kept)
  BY DEF VisibleColumns, VisibleRows
<1> HIDE DEF open, kept
<1>10. /\ ToSet(InOrder(open)) = open /\ Len(InOrder(open)) = Cardinality(open)
       /\ DOMAIN InOrder(open) = 1 .. Cardinality(open) /\ Cardinality(open) \in Nat
  BY <1>7, <1>8, InOrderFits
<1>11. /\ ToSet(InOrder(kept)) = kept /\ Len(InOrder(kept)) = Cardinality(kept)
       /\ DOMAIN InOrder(kept) = 1 .. Cardinality(kept) /\ Cardinality(kept) \in Nat
  BY <1>7, <1>8, InOrderFits
<1> USE DEF open, kept
<1> QED  BY <1>2, <1>5, <1>9, <1>10, <1>11

\* A document has one table for each sheet that has a head.
LEMMA TablesAre ==
  ASSUME NEW doc \in Document
  PROVE  ToSet(Tables(doc)) = {Table(doc, s) : s \in {n \in DOMAIN doc.sheets :
                                                        doc.sheets[n].heads # <<>>}}
<1> DEFINE headed == {n \in DOMAIN doc.sheets : doc.sheets[n].heads # <<>>}
<1>1. DOMAIN doc.sheets = 1 .. Len(doc.sheets) /\ Len(doc.sheets) \in Nat
  BY DEF Document
<1>2. IsFiniteSet(DOMAIN doc.sheets)
  BY <1>1, FS_Interval
<1>3. headed \in SUBSET Nat /\ headed \in SUBSET DOMAIN doc.sheets
  BY <1>1
<1>4. IsFiniteSet(headed)
  BY <1>2, <1>3, FS_Subset
<1>5. Tables(doc) = [k \in DOMAIN InOrder(headed) |-> Table(doc, InOrder(headed)[k])]
  BY DEF Tables
<1> HIDE DEF headed
<1>6. ToSet(InOrder(headed)) = headed
  BY <1>3, <1>4, InOrderFits
<1>7. ToSet(Tables(doc)) = {Table(doc, s) : s \in ToSet(InOrder(headed))}
  BY <1>5 DEF ToSet
<1> QED  BY <1>6, <1>7 DEF headed

-----------------------------------------------------------------------------
(* What the chunks tell *)

\* The columns and the rows of a sheet that are not hidden in it
OpenColumns(doc, s) == Columns(doc.sheets[s]) \ doc.sheets[s].covered
OpenRows(doc, s) == {r \in DOMAIN doc.sheets[s].rows : ~doc.sheets[s].rows[r].hidden}

\* A head is hidden with its sheet or its column.
LEMMA HiddenHead ==
  ASSUME NEW doc, NEW s, NEW c, NEW at, at = <<"head", s, c>>
  PROVE  /\ Hidden(doc, at) <=> doc.sheets[s].hidden \/ c \in doc.sheets[s].covered
         /\ at[Len(at)] = c /\ at[1] = "head"
<1>1. Len(at) = 3 /\ at[1] = "head" /\ at[2] = s /\ at[3] = c
  OBVIOUS
<1> QED  BY <1>1 DEF Hidden

\* A value is hidden with its sheet, its column or its row.
LEMMA HiddenCell ==
  ASSUME NEW doc, NEW s, NEW r, NEW c, NEW at, at = <<"cell", s, r, c>>
  PROVE  /\ Hidden(doc, at) <=> \/ doc.sheets[s].hidden \/ c \in doc.sheets[s].covered
                                \/ doc.sheets[s].rows[r].hidden
         /\ at[Len(at)] = c /\ at[1] = "cell"
<1>1. Len(at) = 4 /\ at[1] = "cell" /\ at[2] = s /\ at[3] = r /\ at[4] = c
  OBVIOUS
<1> QED  BY <1>1 DEF Hidden

\* The facts of a table are the heads and values of its sheet that are not
\* hidden there, each under the head of its own column.
LEMMA TableFactsAre ==
  ASSUME NEW file, file.doc \in Document, NEW s \in DOMAIN file.doc.sheets
  PROVE  TableFacts(file, Table(file.doc, s)) =
           {Fact(file, <<"head", s, c>>, c) : c \in OpenColumns(file.doc, s)}
           \cup UNION {{Fact(file, <<"cell", s, r, c>>, c) : c \in OpenColumns(file.doc, s)} :
                          r \in OpenRows(file.doc, s)}
<1> DEFINE sheet == file.doc.sheets[s]
           t == Table(file.doc, s)
           open == OpenColumns(file.doc, s)
           kept == OpenRows(file.doc, s)
           cols == VisibleColumns(sheet)
           rows == VisibleRows(sheet)
           Of(k) == {Fact(file, <<"cell", t.sheet, t.rows[k].row, t.rows[k].cells[i]>>,
                          IF i \in DOMAIN t.columns THEN t.columns[i] ELSE 0) :
                       i \in DOMAIN t.rows[k].cells}
<1>1. ToSet(cols) = open /\ ToSet(rows) = kept
  BY SheetRead DEF OpenColumns, OpenRows
<1>2. /\ t.sheet = s /\ t.columns = cols /\ DOMAIN t.rows = DOMAIN rows
      /\ \A k \in DOMAIN rows : t.rows[k].row = rows[k] /\ t.rows[k].cells = cols
  BY DEF Table, Projected
<1>3. TableFacts(file, t) = {Fact(file, <<"head", t.sheet, c>>, c) : c \in ToSet(t.columns)}
                              \cup UNION {Of(k) : k \in DOMAIN t.rows}
  BY DEF TableFacts
<1> HIDE DEF sheet, t, open, kept, cols, rows
<1>4. ASSUME NEW k \in DOMAIN rows
      PROVE  Of(k) = {Fact(file, <<"cell", s, rows[k], c>>, c) : c \in open}
  <2>1. Of(k) = {Fact(file, <<"cell", s, rows[k], cols[i]>>, cols[i]) : i \in DOMAIN cols}
    BY <1>2
  <2> HIDE DEF Of
  <2> QED  BY <1>1, <2>1 DEF ToSet
<1> HIDE DEF Of
<1>5. UNION {Of(k) : k \in DOMAIN rows} =
        UNION {{Fact(file, <<"cell", s, r, c>>, c) : c \in open} : r \in kept}
  <2>1. ASSUME NEW f \in UNION {Of(k) : k \in DOMAIN rows}
        PROVE  f \in UNION {{Fact(file, <<"cell", s, r, c>>, c) : c \in open} : r \in kept}
    <3>1. PICK k \in DOMAIN rows : f \in Of(k)
      OBVIOUS
    <3>2. PICK c \in open : f = Fact(file, <<"cell", s, rows[k], c>>, c)
      BY <1>4, <3>1
    <3>3. rows[k] \in kept
      BY <1>1 DEF ToSet
    <3> QED  BY <3>2, <3>3
  <2>2. ASSUME NEW f \in UNION {{Fact(file, <<"cell", s, r, c>>, c) : c \in open} : r \in kept}
        PROVE  f \in UNION {Of(k) : k \in DOMAIN rows}
    <3>1. PICK r \in kept : f \in {Fact(file, <<"cell", s, r, c>>, c) : c \in open}
      OBVIOUS
    <3>2. PICK k \in DOMAIN rows : r = rows[k]
      BY <1>1 DEF ToSet
    <3> QED  BY <1>4, <3>1, <3>2
  <2> QED  BY <2>1, <2>2
<1>6. TableFacts(file, t) = {Fact(file, <<"head", s, c>>, c) : c \in open}
                              \cup UNION {{Fact(file, <<"cell", s, r, c>>, c) : c \in open} : r \in kept}
  BY <1>1, <1>2, <1>3, <1>5
<1> QED  BY <1>6 DEF t, open, kept

\* The heads and values of a document that are not hidden
ShownPlaces(doc) == {at \in HeadPlaces(doc) \cup CellPlaces(doc) : ~Hidden(doc, at)}

\* The chunks of a source tell the text of its pages, and every head and value
\* that is not hidden, each under the head of its own column, and nothing else.
LEMMA FactsAre ==
  ASSUME NEW file, file.doc \in Document
  PROVE  Facts(file) = {Fact(file, at, 0) : at \in PagePlaces(file)}
                         \cup {Fact(file, at, at[Len(at)]) : at \in ShownPlaces(file.doc)}
<1> DEFINE doc == file.doc
           told == UNION {TableFacts(file, t) : t \in OfferedTables(doc)}
           shownFacts == {Fact(file, at, at[Len(at)]) : at \in ShownPlaces(doc)}
<1>1. ASSUME NEW t \in OfferedTables(doc)
      PROVE  \E s \in DOMAIN doc.sheets : t = Table(doc, s) /\ ~doc.sheets[s].hidden
  <2>1. t \in ToSet(Tables(doc)) /\ t.eligible
    BY DEF OfferedTables
  <2>2. PICK s \in DOMAIN doc.sheets : t = Table(doc, s)
    BY <2>1, TablesAre
  <2>3. t.eligible = ~doc.sheets[s].hidden
    BY <2>2 DEF Table
  <2> QED  BY <2>1, <2>2, <2>3
<1>2. ASSUME NEW s \in DOMAIN doc.sheets, ~doc.sheets[s].hidden, doc.sheets[s].heads # <<>>
      PROVE  Table(doc, s) \in OfferedTables(doc)
  <2>1. Table(doc, s) \in ToSet(Tables(doc))
    BY <1>2, TablesAre
  <2>2. Table(doc, s).eligible = ~doc.sheets[s].hidden
    BY DEF Table
  <2> QED  BY <1>2, <2>1, <2>2 DEF OfferedTables
<1>3. ASSUME NEW s \in DOMAIN doc.sheets
      PROVE  TableFacts(file, Table(doc, s)) =
               {Fact(file, <<"head", s, c>>, c) : c \in OpenColumns(doc, s)}
               \cup UNION {{Fact(file, <<"cell", s, r, c>>, c) : c \in OpenColumns(doc, s)} :
                             r \in OpenRows(doc, s)}
  BY TableFactsAre
<1>4. ASSUME NEW f \in told PROVE f \in shownFacts
  <2>1. PICK s \in DOMAIN doc.sheets :
          ~doc.sheets[s].hidden /\ f \in TableFacts(file, Table(doc, s))
    BY <1>1
  <2>2. CASE f \in {Fact(file, <<"head", s, c>>, c) : c \in OpenColumns(doc, s)}
    <3>1. PICK c \in OpenColumns(doc, s) : f = Fact(file, <<"head", s, c>>, c)
      BY <2>2
    <3> DEFINE at == <<"head", s, c>>
    <3>2. at \in HeadPlaces(doc)
      BY DEF HeadPlaces, OpenColumns
    <3>3. at[Len(at)] = c /\ ~Hidden(doc, at)
      BY <2>1, HiddenHead DEF OpenColumns
    <3>4. f = Fact(file, at, at[Len(at)])
      BY <3>1, <3>3
    <3> HIDE DEF at
    <3> QED  BY <3>2, <3>3, <3>4 DEF ShownPlaces
  <2>3. CASE f \in UNION {{Fact(file, <<"cell", s, r, c>>, c) : c \in OpenColumns(doc, s)} :
                             r \in OpenRows(doc, s)}
    <3>0. PICK r \in OpenRows(doc, s) :
            f \in {Fact(file, <<"cell", s, r, c>>, c) : c \in OpenColumns(doc, s)}
      BY <2>3
    <3>1. PICK c \in OpenColumns(doc, s) : f = Fact(file, <<"cell", s, r, c>>, c)
      BY <3>0
    <3> DEFINE at == <<"cell", s, r, c>>
    <3>2. at \in CellPlaces(doc)
      BY DEF CellPlaces, OpenColumns, OpenRows
    <3>3. at[Len(at)] = c /\ ~Hidden(doc, at)
      BY <2>1, HiddenCell DEF OpenColumns, OpenRows
    <3>4. f = Fact(file, at, at[Len(at)])
      BY <3>1, <3>3
    <3> HIDE DEF at
    <3> QED  BY <3>2, <3>3, <3>4 DEF ShownPlaces
  <2> QED  BY <1>3, <2>1, <2>2, <2>3
<1>5. ASSUME NEW at \in ShownPlaces(doc) PROVE Fact(file, at, at[Len(at)]) \in told
  <2>1. CASE at \in HeadPlaces(doc)
    <3>0. PICK s \in DOMAIN doc.sheets :
            \E c \in Columns(doc.sheets[s]) : at = <<"head", s, c>>
      BY <2>1 DEF HeadPlaces
    <3>1. PICK c \in Columns(doc.sheets[s]) : at = <<"head", s, c>>
      BY <3>0
    <3>2. ~doc.sheets[s].hidden /\ c \in OpenColumns(doc, s) /\ at[Len(at)] = c
      BY <3>1, HiddenHead DEF ShownPlaces, OpenColumns
    <3>3. doc.sheets[s].heads # <<>>
      BY <3>1 DEF Columns
    <3>4. Table(doc, s) \in OfferedTables(doc)
      BY <1>2, <3>2, <3>3
    <3>5. Fact(file, at, at[Len(at)]) \in TableFacts(file, Table(doc, s))
      BY <1>3, <3>1, <3>2
    <3> QED  BY <3>4, <3>5
  <2>2. CASE at \in CellPlaces(doc)
    <3>0. PICK s \in DOMAIN doc.sheets :
            \E r \in DOMAIN doc.sheets[s].rows, c \in Columns(doc.sheets[s]) :
              at = <<"cell", s, r, c>>
      BY <2>2 DEF CellPlaces
    <3>1. PICK r \in DOMAIN doc.sheets[s].rows, c \in Columns(doc.sheets[s]) :
            at = <<"cell", s, r, c>>
      BY <3>0
    <3>2. ~doc.sheets[s].hidden /\ c \in OpenColumns(doc, s) /\ r \in OpenRows(doc, s) /\ at[Len(at)] = c
      BY <3>1, HiddenCell DEF ShownPlaces, OpenColumns, OpenRows
    <3>3. doc.sheets[s].heads # <<>>
      BY <3>1 DEF Columns
    <3>4. Table(doc, s) \in OfferedTables(doc)
      BY <1>2, <3>2, <3>3
    <3>5. Fact(file, at, at[Len(at)]) \in TableFacts(file, Table(doc, s))
      BY <1>3, <3>1, <3>2
    <3> QED  BY <3>4, <3>5
  <2> QED  BY <2>1, <2>2 DEF ShownPlaces
<1>6. told = shownFacts
  BY <1>4, <1>5
<1>7. Facts(file) = {Fact(file, at, 0) : at \in PagePlaces(file)} \cup told
  BY DEF Facts
<1> HIDE DEF told
<1> QED  BY <1>6, <1>7

-----------------------------------------------------------------------------
(* What an accepted source is *)

\* The pages that are read, and those that OCR may read, are pages of the document.
LEMMA PagesFit ==
  ASSUME NEW doc \in Document
  PROVE  /\ doc.pages \in Seq(Page) /\ Len(doc.pages) \in Nat /\ ReadPages(doc) \in SUBSET Nat
         /\ DOMAIN doc.pages = 1 .. Len(doc.pages)
         /\ ReadPages(doc) \in SUBSET DOMAIN doc.pages
         /\ Recognisable(doc) \in SUBSET NeedsOcr(doc) /\ NeedsOcr(doc) \in SUBSET ReadPages(doc)
<1>1. doc.pages \in Seq(Page) /\ Len(doc.pages) \in Nat /\ DOMAIN doc.pages = 1 .. Len(doc.pages)
  BY DEF Document
<1>2. ReadPages(doc) \in SUBSET DOMAIN doc.pages
  BY <1>1, DocumentsAssumption DEF ReadPages
<1> QED  BY <1>1, <1>2 DEF NeedsOcr, Recognisable

\* A piece of a document has a tag, and only a head presents a person.
LEMMA TagTypes ==
  ASSUME NEW file \in Files, file.ocr \subseteq Recognisable(file.doc)
  PROVE  /\ \A at \in PagePlaces(file) : /\ at[1] \notin {"head", "cell"}
                                         /\ Tag(file.doc, at) \in Tags
         /\ \A at \in HeadPlaces(file.doc) : Tag(file.doc, at) \in Tags \cup {"person"}
         /\ \A at \in CellPlaces(file.doc) : Tag(file.doc, at) \in Tags
<1> DEFINE doc == file.doc
<1>1. doc \in Document
  BY DEF Files
<1>2. ASSUME NEW at \in PagePlaces(file)
      PROVE  at[1] \notin {"head", "cell"} /\ Tag(doc, at) \in Tags
  <2>1. ASSUME NEW p \in ReadPages(doc) PROVE doc.pages[p] \in Page
    BY <1>1, PagesFit
  <2>2. CASE \E p \in ReadPages(doc) : at = <<"text", p>>
    <3>1. PICK p \in ReadPages(doc) : at = <<"text", p>>
      BY <2>2
    <3>2. at[1] = "text" /\ at[2] = p
      BY <3>1
    <3>3. Tag(doc, at) = doc.pages[p].tag
      BY <3>2 DEF Tag
    <3> QED  BY <2>1, <3>2, <3>3 DEF Page
  <2>3. CASE \E p \in file.ocr : at = <<"picture", p>>
    <3>1. PICK p \in file.ocr : at = <<"picture", p>>
      BY <2>3
    <3>2. at[1] = "picture" /\ at[2] = p
      BY <3>1
    <3>3. Tag(doc, at) = doc.pages[p].read
      BY <3>2 DEF Tag
    <3>4. p \in ReadPages(doc)
      BY <1>1, PagesFit
    <3> QED  BY <2>1, <3>2, <3>3, <3>4 DEF Page
  <2> QED  BY <2>2, <2>3 DEF PagePlaces
<1>3. ASSUME NEW at \in HeadPlaces(doc) PROVE Tag(doc, at) \in Tags \cup {"person"}
  <2>1. PICK s \in DOMAIN doc.sheets : \E c \in Columns(doc.sheets[s]) : at = <<"head", s, c>>
    BY DEF HeadPlaces
  <2>2. PICK c \in Columns(doc.sheets[s]) : at = <<"head", s, c>>
    BY <2>1
  <2>3. at[1] = "head" /\ at[2] = s /\ at[3] = c
    BY <2>2
  <2>4. doc.sheets[s] \in Sheet
    BY <1>1, SheetRead
  <2>5. doc.sheets[s].heads[c] \in ColumnHead
    BY <2>4 DEF Sheet, Columns
  <2>6. Tag(doc, at) = doc.sheets[s].heads[c].tag
    BY <2>3 DEF Tag
  <2> QED  BY <2>5, <2>6 DEF ColumnHead
<1>4. ASSUME NEW at \in CellPlaces(doc) PROVE Tag(doc, at) \in Tags
  <2>1. PICK s \in DOMAIN doc.sheets :
          \E r \in DOMAIN doc.sheets[s].rows, c \in Columns(doc.sheets[s]) :
            at = <<"cell", s, r, c>>
    BY DEF CellPlaces
  <2>2. PICK r \in DOMAIN doc.sheets[s].rows, c \in Columns(doc.sheets[s]) :
          at = <<"cell", s, r, c>>
    BY <2>1
  <2>3. at[1] = "cell" /\ at[2] = s /\ at[3] = r /\ at[4] = c
    BY <2>2
  <2>4. doc.sheets[s] \in Sheet
    BY <1>1, SheetRead
  <2>5. /\ doc.sheets[s].rows[r] \in Row /\ doc.sheets[s].heads \in Seq(ColumnHead)
        /\ Len(doc.sheets[s].rows[r].cells) = Len(doc.sheets[s].heads)
    BY <2>4 DEF Sheet
  <2>6. doc.sheets[s].rows[r].cells[c] \in Cell
    BY <2>5 DEF Row, Columns
  <2>7. Tag(doc, at) = doc.sheets[s].rows[r].cells[c].tag
    BY <2>3 DEF Tag
  <2> QED  BY <2>6, <2>7 DEF Cell
<1> QED  BY <1>2, <1>3, <1>4

\* The checks before the models say of each of their sources what it is.
LEMMA AcceptedSources ==
  ASSUME IInv, AtModels, NEW file \in ToSet(run.sources)
  PROVE  /\ file \in SoundFiles /\ file \in Files /\ file.doc \in Document
         /\ file.ocr \subseteq Recognisable(file.doc)
         /\ ~Blocked(file) /\ HasText(file) /\ Quality(file) # "poor"
         /\ file.doc.kind = "pdf" => ~Truncated(file.doc)
<1>1. file \in SoundFiles
  BY DEF IInv, Sound, ToSet
<1>2. Verdict(run.sources) = "accepted"
  BY DEF IInv, Examined, AtModels
<1>3. ~Blocked(file) /\ ValidRecord(file) /\ ~Incomplete(run.sources)
  BY <1>2 DEF Verdict
<1> QED  BY <1>1, <1>3 DEF SoundFiles, Files, ValidRecord, Incomplete

-----------------------------------------------------------------------------
(* What the models are given *)

\* The places that the chunks tell
LEMMA PlacesTold ==
  ASSUME NEW file, file.doc \in Document
  PROVE  {f.at : f \in Facts(file)} = PagePlaces(file) \cup ShownPlaces(file.doc)
<1> DEFINE A == {Fact(file, at, 0) : at \in PagePlaces(file)}
           B == {Fact(file, at, at[Len(at)]) : at \in ShownPlaces(file.doc)}
<1>1. Facts(file) = A \cup B
  BY FactsAre
<1>2. \A at, label : Fact(file, at, label).at = at
  BY DEF Fact
<1>3. \A f \in A : f.at \in PagePlaces(file)
  BY <1>2
<1>4. \A f \in B : f.at \in ShownPlaces(file.doc)
  BY <1>2
<1>5. ASSUME NEW at \in PagePlaces(file) PROVE \E f \in A : f.at = at
  <2>1. Fact(file, at, 0) \in A
    OBVIOUS
  <2> HIDE DEF A
  <2> QED  BY <1>2, <2>1
<1>6. ASSUME NEW at \in ShownPlaces(file.doc) PROVE \E f \in B : f.at = at
  <2>1. Fact(file, at, at[Len(at)]) \in B
    OBVIOUS
  <2> HIDE DEF B
  <2> QED  BY <1>2, <2>1
<1> HIDE DEF A, B
<1> QED  BY <1>1, <1>3, <1>4, <1>5, <1>6

\* What is withheld of a document stays in the browser, whatever is in it.
LEMMA FactsClear ==
  ASSUME NEW file \in Files, file.ocr \subseteq Recognisable(file.doc), NEW f \in Facts(file)
  PROVE  /\ ~Hidden(file.doc, f.at)
         /\ \/ f.redacted
            \/ Tag(file.doc, f.at) = "plain"
            \/ Tag(file.doc, f.at) = "name" /\ ~PersonsKnown(file.doc)
         /\ f.at[1] \in {"head", "cell"} => f.label = f.at[Len(f.at)]
<1>1. file.doc \in Document
  BY DEF Files
<1>2. \A at, label : /\ Fact(file, at, label).at = at /\ Fact(file, at, label).label = label
                     /\ Fact(file, at, label).redacted = Redacted(file.doc, at)
  BY DEF Fact
<1>3. ASSUME Tag(file.doc, f.at) \in Tags \cup {"person"}, f.redacted = Redacted(file.doc, f.at)
      PROVE  \/ f.redacted
             \/ Tag(file.doc, f.at) = "plain"
             \/ Tag(file.doc, f.at) = "name" /\ ~PersonsKnown(file.doc)
  BY <1>3 DEF Redacted, Tags
<1>4. CASE \E at \in PagePlaces(file) : f = Fact(file, at, 0)
  <2>1. PICK at \in PagePlaces(file) : f = Fact(file, at, 0)
    BY <1>4
  <2>2. f.at = at /\ f.redacted = Redacted(file.doc, f.at)
    BY <1>2, <2>1
  <2>3. f.at[1] \notin {"head", "cell"} /\ Tag(file.doc, f.at) \in Tags
    BY <2>2, TagTypes
  <2>4. ~Hidden(file.doc, f.at)
    BY <2>3 DEF Hidden
  <2> QED  BY <1>3, <2>2, <2>3, <2>4
<1>5. CASE \E at \in ShownPlaces(file.doc) : f = Fact(file, at, at[Len(at)])
  <2>1. PICK at \in ShownPlaces(file.doc) : f = Fact(file, at, at[Len(at)])
    BY <1>5
  <2>2. f.at = at /\ f.redacted = Redacted(file.doc, f.at) /\ f.label = f.at[Len(f.at)]
    BY <1>2, <2>1
  <2>3. ~Hidden(file.doc, f.at) /\ Tag(file.doc, f.at) \in Tags \cup {"person"}
    BY <2>2, TagTypes DEF ShownPlaces
  <2> QED  BY <1>3, <2>2, <2>3
<1> QED  BY <1>1, <1>4, <1>5, FactsAre

\* A document that the checks accepted has been read to its last page.
LEMMA AllPagesRead ==
  ASSUME NEW doc \in Document, doc.kind = "pdf" => ~Truncated(doc)
  PROVE  ReadPages(doc) = DOMAIN doc.pages
<1>1. Len(doc.pages) \in Nat /\ DOMAIN doc.pages = 1 .. Len(doc.pages)
  BY PagesFit
<1>2. Len(doc.pages) <= MaxPages
  <2>1. CASE doc.kind = "pdf"
    BY <1>1, <2>1, DocumentsAssumption DEF Truncated
  <2>2. CASE doc.kind # "pdf"
    <3>1. Len(doc.pages) = 1 \/ doc.pages = <<>>
      BY <2>2 DEF Document
    <3>2. Len(doc.pages) \in {0, 1}
      BY <3>1
    <3>3. MaxPages \in Nat /\ MaxPages # 0
      BY DocumentsAssumption
    <3> DEFINE n == Len(doc.pages)
    <3>4. n \in {0, 1}
      BY <3>2
    <3> HIDE DEF n
    <3>5. n <= MaxPages
      BY <3>3, <3>4
    <3> QED  BY <3>5 DEF n
  <2> QED  BY <2>1, <2>2
<1> QED  BY <1>1, <1>2, DocumentsAssumption DEF ReadPages

\* Pages with a material picture, or with little text, have been read by OCR, but
\* for sparse ones that are alone or a small part of their document.
LEMMA PagesAreRead ==
  ASSUME NEW file \in SoundFiles, HasText(file), Quality(file) # "poor",
         file.doc.kind = "pdf" => ~Truncated(file.doc),
         NEW unread, unread = {p \in DOMAIN file.doc.pages :
                                 file.doc.pages[p].text = "sparse" /\ p \notin file.ocr}
  PROVE  /\ \A p \in DOMAIN file.doc.pages :
              IF file.doc.pages[p].text = "none" THEN p \in file.ocr
              ELSE p \in ReadPages(file.doc) /\ ~NearZero(file.doc, p)
         /\ file.doc.kind = "pdf" =>
              /\ \A p \in DOMAIN file.doc.pages :
                   file.doc.pages[p].text = "full" /\ file.doc.pages[p].picture => p \in file.ocr
              /\ Cardinality(unread) > 1 =>
                   100 * Cardinality(unread) < SparsePercent * Len(file.doc.pages)
<1> DEFINE doc == file.doc
<1>1. doc \in Document /\ PagesAccepted(file)
  BY DEF SoundFiles, Files, Accepted
<1>2. ReadPages(doc) = DOMAIN doc.pages
  BY <1>1, AllPagesRead
<1>3. DOMAIN doc.pages = 1 .. Len(doc.pages) /\ Len(doc.pages) \in Nat
  BY <1>1, PagesFit
<1>4. ASSUME NEW p \in DOMAIN doc.pages, doc.pages[p].text = "none" PROVE p \in file.ocr
  <2>1. NearZero(doc, p) /\ Sparse(doc, p)
    BY <1>4 DEF NearZero, Sparse
  <2>2. CASE doc.kind \in {"pdf", "image"}
    <3>1. p \in NeedsOcr(doc)
      BY <1>2, <2>1, <2>2 DEF NeedsOcr
    <3> QED  BY <1>1, <2>1, <3>1 DEF PagesAccepted
  <2>3. CASE doc.kind = "text"
    <3>1. PICK q \in ReadPages(doc) : ~NearZero(doc, q)
      BY <2>3 DEF HasText
    <3>2. Len(doc.pages) = 1
      BY <1>1, <2>3 DEF Document
    <3>3. q = p
      BY <1>2, <1>3, <3>2
    <3> QED  BY <2>1, <3>1, <3>3
  <2>4. CASE doc.kind \in {"csv", "xlsx"}
    <3>1. doc.pages = <<>>
      BY <1>1, <2>4 DEF Document
    <3> QED  BY <3>1
  <2>5. doc.kind \in {"pdf", "image", "text", "csv", "xlsx"}
    BY <1>1 DEF Document
  <2> QED  BY <2>2, <2>3, <2>4, <2>5
<1>5. ASSUME doc.kind = "pdf", NEW p \in DOMAIN doc.pages,
             doc.pages[p].text = "full", doc.pages[p].picture
      PROVE  p \in file.ocr
  <2>1. p \in NeedsOcr(doc) /\ ~Sparse(doc, p)
    BY <1>2, <1>5 DEF NeedsOcr, Sparse
  <2>2. PageState(file, p) = "VISUAL_REGION_WITHHELD" => Quality(file) = "poor"
    BY <1>2, <1>5 DEF PagesInState, Quality
  <2> QED  BY <2>1, <2>2 DEF PageState
<1>6. ASSUME doc.kind = "pdf", Cardinality(unread) > 1
      PROVE  100 * Cardinality(unread) < SparsePercent * Len(doc.pages)
  <2> DEFINE left == PagesInState(file, "SPARSE_TEXT_ONLY")
  <2>1. ASSUME NEW p \in unread PROVE p \in left
    <3>1. p \in NeedsOcr(doc) /\ Sparse(doc, p) /\ p \notin file.ocr
      BY <1>2, <1>6 DEF NeedsOcr, Sparse
    <3>2. PageState(file, p) = "SPARSE_TEXT_ONLY"
      BY <3>1 DEF PageState
    <3> QED  BY <1>2, <3>2 DEF PagesInState
  <2>2. IsFiniteSet(DOMAIN doc.pages) /\ Cardinality(DOMAIN doc.pages) = Len(doc.pages)
    <3>1. \A n \in Nat : IsFiniteSet(1 .. n) /\ Cardinality(1 .. n) = n
      BY FS_Interval
    <3> QED  BY <1>3, <3>1
  <2>3. left \in SUBSET DOMAIN doc.pages
    BY <1>2 DEF PagesInState
  <2>4. IsFiniteSet(left)
    BY <2>2, <2>3, FS_Subset
  <2>5. ~(/\ Cardinality(left) > 1
          /\ 100 * Cardinality(left) >= SparsePercent * Cardinality(ReadPages(doc)))
    BY <1>6 DEF Quality
  <2> HIDE DEF left
  <2>6. unread \in SUBSET left
    BY <2>1
  <2>7. IsFiniteSet(unread) /\ Cardinality(unread) <= Cardinality(left)
    BY <2>4, <2>6, FS_Subset
  <2>8. Cardinality(left) \in Nat /\ Cardinality(unread) \in Nat
    BY <2>4, <2>7, FS_CardinalityType
  <2>9. SparsePercent \in Nat
    BY DocumentsAssumption
  <2>10. SparsePercent * Cardinality(ReadPages(doc)) = SparsePercent * Len(doc.pages)
    BY <1>2, <2>2
  <2>11. SparsePercent * Len(doc.pages) \in Nat
    BY <1>3, <2>9
  <2> DEFINE bound == SparsePercent * Len(doc.pages)
  <2>12. ~(Cardinality(left) > 1 /\ 100 * Cardinality(left) >= bound)
    BY <2>5, <2>10
  <2>13. bound \in Nat
    BY <2>11
  <2> HIDE DEF bound
  <2>14. 100 * Cardinality(unread) < bound
    BY <1>6, <2>7, <2>8, <2>12, <2>13
  <2> QED  BY <2>14 DEF bound
<1>7. ASSUME NEW p \in DOMAIN doc.pages, doc.pages[p].text # "none"
      PROVE  p \in ReadPages(doc) /\ ~NearZero(doc, p)
  BY <1>2, <1>7 DEF NearZero
<1> QED  BY <1>4, <1>5, <1>6, <1>7

\* Nothing of a source that the checks accepted is missing from the chunks.
LEMMA NothingLeftOut ==
  ASSUME NEW file \in SoundFiles, HasText(file), Quality(file) # "poor",
         file.doc.kind = "pdf" => ~Truncated(file.doc),
         NEW told, told = {f.at : f \in Facts(file)},
         NEW unread, unread = {p \in DOMAIN file.doc.pages :
                                 file.doc.pages[p].text = "sparse" /\ p \notin file.ocr}
  PROVE  /\ {at \in HeadPlaces(file.doc) \cup CellPlaces(file.doc) : ~Hidden(file.doc, at)}
              \subseteq told
         /\ \A p \in DOMAIN file.doc.pages :
              \/ <<"text", p>> \in told
              \/ file.doc.pages[p].text = "none" /\ <<"picture", p>> \in told
         /\ file.doc.kind = "pdf" =>
              /\ \A p \in DOMAIN file.doc.pages :
                   file.doc.pages[p].text = "full" /\ file.doc.pages[p].picture
                     => <<"picture", p>> \in told
              /\ Cardinality(unread) > 1 =>
                   100 * Cardinality(unread) < SparsePercent * Len(file.doc.pages)
<1>1. file.doc \in Document
  BY DEF SoundFiles, Files
<1>2. told = PagePlaces(file) \cup ShownPlaces(file.doc)
  BY <1>1, PlacesTold
<1>3. \A p \in file.ocr : <<"picture", p>> \in told
  BY <1>2 DEF PagePlaces
<1>4. \A p \in ReadPages(file.doc) : ~NearZero(file.doc, p) => <<"text", p>> \in told
  BY <1>2 DEF PagePlaces
<1>5. /\ \A p \in DOMAIN file.doc.pages :
           IF file.doc.pages[p].text = "none" THEN p \in file.ocr
           ELSE p \in ReadPages(file.doc) /\ ~NearZero(file.doc, p)
      /\ file.doc.kind = "pdf" =>
           /\ \A p \in DOMAIN file.doc.pages :
                file.doc.pages[p].text = "full" /\ file.doc.pages[p].picture => p \in file.ocr
           /\ Cardinality(unread) > 1 =>
                100 * Cardinality(unread) < SparsePercent * Len(file.doc.pages)
  BY PagesAreRead
<1>6. {at \in HeadPlaces(file.doc) \cup CellPlaces(file.doc) : ~Hidden(file.doc, at)} \subseteq told
  BY <1>2 DEF ShownPlaces
<1>7. ASSUME NEW p \in DOMAIN file.doc.pages
      PROVE  \/ <<"text", p>> \in told
             \/ file.doc.pages[p].text = "none" /\ <<"picture", p>> \in told
  BY <1>3, <1>4, <1>5
<1>8. ASSUME file.doc.kind = "pdf", NEW p \in DOMAIN file.doc.pages,
             file.doc.pages[p].text = "full", file.doc.pages[p].picture
      PROVE  <<"picture", p>> \in told
  BY <1>3, <1>5, <1>8
<1> QED  BY <1>5, <1>6, <1>7, <1>8

-----------------------------------------------------------------------------
(* What is calculated from the tables *)

\* An item is of the table it was made from, carries the reasons of that table,
\* and is observed only from as many values as its analyzer needs.
Justified(item, view) ==
  /\ item.sheet = view.sheet
  /\ HiddenReasons(view) \subseteq item.reasons
  /\ /\ item.status = "OBSERVED"
     /\ item.analyzer \in {"trend_v1", "variation_v1", "association_v1"}
     => item.n >= MinObservations

\* An item whose analyzer found what it asks for is justified by its view.
LEMMA ItemJustified ==
  ASSUME NEW view, NEW analyzer, NEW criterion, NEW n \in Nat, NEW least,
         \/ least = MinObservations
         \/ analyzer \notin {"trend_v1", "variation_v1", "association_v1"}
  PROVE  Justified(Item(view, analyzer, criterion, n, least), view)
<1> DEFINE item == Item(view, analyzer, criterion, n, least)
<1>1. /\ item.sheet = view.sheet /\ item.analyzer = analyzer /\ item.n = n
      /\ HiddenReasons(view) \subseteq item.reasons
      /\ item.status = (IF n < least THEN "NO_STATISTICALLY_USABLE_POPULATION" ELSE "OBSERVED")
  BY DEF Item
<1>2. MinObservations \in Nat
  BY DerivedAssumption
<1>3. n < MinObservations \/ n >= MinObservations
  BY <1>2
<1> HIDE DEF item
<1>4. Justified(item, view)
  BY <1>1, <1>3 DEF Justified
<1> QED  BY <1>4 DEF item

\* Each analyzer makes such items.
LEMMA ItemsJustified ==
  ASSUME NEW view, IsFiniteSet(DOMAIN view.rows), Len(view.rows) \in Nat
  PROVE  /\ \A item \in AnalyzeTrend(view) \cup AnalyzeVariation(view) : Justified(item, view)
         /\ \A item \in AnalyzeConcentration(view) : Justified(item, view)
         /\ \A item \in AnalyzeAdoption(view) : Justified(item, view)
         /\ \A item \in AnalyzeProcess(view) : Justified(item, view)
         /\ \A item \in AnalyzeException(view) : Justified(item, view)
         /\ \A item \in AnalyzeAssociation(view) : Justified(item, view)
         /\ \A item \in AnalyzeTagging(view) : Justified(item, view)
<1>1. ASSUME NEW k, NEW values PROVE With(view, k, values) \in SUBSET DOMAIN view.rows
  BY DEF With
<1>2. ASSUME NEW points \in SUBSET DOMAIN view.rows PROVE Cardinality(points) \in Nat
  BY FS_Subset, FS_CardinalityType
<1>3. ASSUME NEW s \in TrendSeries(view) PROVE Cardinality(s.points) \in Nat
  <2>1. s \in TrendPoints(view)
    BY DEF TrendSeries
  <2> DEFINE both(b) == With(view, Column(view, {b.left}), {"number"})
                          \cap With(view, Column(view, {b.right}), {"number"})
             one(b) == With(view, First({k \in Matching(view, {b.head}) :
                                           b.cost \/ "cost" \notin view.heads[k]}), {"number"})
  <2>2. \A b : both(b) \in SUBSET DOMAIN view.rows /\ one(b) \in SUBSET DOMAIN view.rows
    BY <1>1
  <2>3. s \in {[criterion |-> b.criterion, points |-> both(b)] : b \in Paired(view)}
               \cup {[criterion |-> b.criterion, points |-> one(b)] : b \in Series(view)}
    BY <2>1 DEF TrendPoints
  <2> HIDE DEF both, one
  <2>4. \E b : s.points = both(b) \/ s.points = one(b)
    BY <2>3
  <2>5. s.points \in SUBSET DOMAIN view.rows
    BY <2>2, <2>4
  <2> QED  BY <1>2, <2>5
<1>4. ASSUME NEW item \in AnalyzeTrend(view) PROVE Justified(item, view)
  BY <1>3, ItemJustified DEF AnalyzeTrend
<1>5. ASSUME NEW item \in AnalyzeVariation(view) PROVE Justified(item, view)
  BY <1>3, ItemJustified DEF AnalyzeVariation
<1>6. ASSUME NEW item \in AnalyzeConcentration(view) PROVE Justified(item, view)
  BY ItemJustified DEF AnalyzeConcentration
<1>7. ASSUME NEW item \in AnalyzeAdoption(view) PROVE Justified(item, view)
  BY ItemJustified DEF AnalyzeAdoption
<1>8. ASSUME NEW item \in AnalyzeProcess(view) PROVE Justified(item, view)
  BY ItemJustified DEF AnalyzeProcess
<1>9. ASSUME NEW item \in AnalyzeException(view) PROVE Justified(item, view)
  BY ItemJustified DEF AnalyzeException
<1>10. ASSUME NEW item \in AnalyzeAssociation(view) PROVE Justified(item, view)
  <2>1. PICK p : item = Item(view, "association_v1", p.criterion,
                             Cardinality(PairPoints(view, p)), MinObservations)
    BY DEF AnalyzeAssociation
  <2>2. PairPoints(view, p) \in SUBSET DOMAIN view.rows
    BY <1>1 DEF PairPoints
  <2>3. Cardinality(PairPoints(view, p)) \in Nat
    BY <1>2, <2>2
  <2> QED  BY <2>1, <2>3, ItemJustified
<1>11. ASSUME NEW item \in AnalyzeTagging(view) PROVE Justified(item, view)
  BY <1>11 DEF AnalyzeTagging, Justified
<1> QED  BY <1>4, <1>5, <1>6, <1>7, <1>8, <1>9, <1>10, <1>11

\* What is calculated is calculated from the sheets that are not hidden: the view
\* of a table says how many of its rows and columns are hidden, under the heads as
\* they are and as they are renamed for the second attempt.
LEMMA ViewFits ==
  ASSUME NEW doc \in Document, NEW view \in Views(doc)
  PROVE  \E s \in DOMAIN doc.sheets :
           /\ ~doc.sheets[s].hidden
           /\ \A v \in {view, Renamed(view)} :
                /\ v.sheet = s /\ IsFiniteSet(DOMAIN v.rows) /\ Len(v.rows) \in Nat
                /\ v.hiddenRows = Len(doc.sheets[s].rows) - Len(VisibleRows(doc.sheets[s]))
                /\ v.hiddenColumns = Len(doc.sheets[s].heads) - Len(VisibleColumns(doc.sheets[s]))
<1>1. PICK t \in OfferedTables(doc) : view = View(doc, t)
  BY DEF Views
<1>2. PICK s \in DOMAIN doc.sheets : t = Table(doc, s)
  BY TablesAre DEF OfferedTables
<1> DEFINE sheet == doc.sheets[s]
<1>3. /\ t.sheet = s /\ t.eligible = ~sheet.hidden /\ DOMAIN t.rows = DOMAIN VisibleRows(sheet)
      /\ t.hiddenRows = Len(sheet.rows) - Len(VisibleRows(sheet))
      /\ t.hiddenColumns = Len(sheet.heads) - Len(VisibleColumns(sheet))
  BY <1>2 DEF Table
<1>4. ~sheet.hidden
  BY <1>3 DEF OfferedTables
<1> DEFINE counted == {i \in DOMAIN t.rows : ~doc.sheets[t.sheet].rows[t.rows[i].row].total}
<1>5. DOMAIN t.rows \in SUBSET Nat /\ IsFiniteSet(DOMAIN t.rows)
  <2>1. DOMAIN VisibleRows(sheet) = 1 .. Len(VisibleRows(sheet)) /\ Len(VisibleRows(sheet)) \in Nat
    BY SheetRead
  <2>2. \A n \in Nat : IsFiniteSet(1 .. n) /\ 1 .. n \in SUBSET Nat
    BY FS_Interval
  <2> QED  BY <1>3, <2>1, <2>2
<1>6. counted \in SUBSET Nat /\ IsFiniteSet(counted)
  BY <1>5, FS_Subset
<1>7. /\ view.sheet = t.sheet /\ DOMAIN view.rows = DOMAIN InOrder(counted)
      /\ view.hiddenRows = t.hiddenRows /\ view.hiddenColumns = t.hiddenColumns
      /\ Renamed(view).sheet = view.sheet /\ Renamed(view).rows = view.rows
      /\ Renamed(view).hiddenRows = view.hiddenRows
      /\ Renamed(view).hiddenColumns = view.hiddenColumns
  BY <1>1 DEF View, Renamed
<1> HIDE DEF counted
<1>8. DOMAIN view.rows = 1 .. Cardinality(counted) /\ Cardinality(counted) \in Nat
  BY <1>6, <1>7, InOrderFits
<1>9. IsFiniteSet(DOMAIN view.rows)
  BY <1>8, FS_Interval
<1>10. Len(view.rows) \in Nat
  BY <1>8
<1> QED  BY <1>3, <1>4, <1>7, <1>9, <1>10

\* A table without a reason against it hides nothing.
LEMMA NothingHidden ==
  ASSUME NEW doc \in Document, NEW s \in DOMAIN doc.sheets, NEW view,
         view.hiddenRows = Len(doc.sheets[s].rows) - Len(VisibleRows(doc.sheets[s])),
         view.hiddenColumns = Len(doc.sheets[s].heads) - Len(VisibleColumns(doc.sheets[s])),
         HiddenReasons(view) = {}
  PROVE  /\ doc.sheets[s].covered \cap Columns(doc.sheets[s]) = {}
         /\ \A r \in DOMAIN doc.sheets[s].rows : ~doc.sheets[s].rows[r].hidden
<1> DEFINE sheet == doc.sheets[s]
           open == Columns(sheet) \ sheet.covered
           kept == {r \in DOMAIN sheet.rows : ~sheet.rows[r].hidden}
<1>1. /\ IsFiniteSet(Columns(sheet)) /\ Cardinality(Columns(sheet)) = Len(sheet.heads)
      /\ IsFiniteSet(DOMAIN sheet.rows) /\ Cardinality(DOMAIN sheet.rows) = Len(sheet.rows)
      /\ Len(VisibleColumns(sheet)) = Cardinality(open) /\ Len(VisibleRows(sheet)) = Cardinality(kept)
  BY SheetRead
<1>2. open \in SUBSET Columns(sheet) /\ kept \in SUBSET DOMAIN sheet.rows
  OBVIOUS
<1>3. /\ ~(Cardinality(DOMAIN sheet.rows) - Cardinality(kept) > 0)
      /\ ~(Cardinality(Columns(sheet)) - Cardinality(open) > 0)
  BY <1>1 DEF HiddenReasons
<1> DEFINE columns == Columns(sheet)
           rows == DOMAIN sheet.rows
<1> HIDE DEF open, kept, columns, rows
<1>4. open = columns
  <2>1. IsFiniteSet(columns) /\ open \in SUBSET columns
    BY <1>1, <1>2 DEF columns
  <2>2. Cardinality(open) <= Cardinality(columns) /\ IsFiniteSet(open)
    BY <2>1, FS_Subset
  <2>3. Cardinality(open) \in Nat /\ Cardinality(columns) \in Nat
    BY <2>1, <2>2, FS_CardinalityType
  <2>4. Cardinality(columns) = Cardinality(open)
    BY <1>3, <2>2, <2>3 DEF columns
  <2> QED  BY <2>1, <2>4, FS_Subset
<1>5. kept = rows
  <2>1. IsFiniteSet(rows) /\ kept \in SUBSET rows
    BY <1>1, <1>2 DEF rows
  <2>2. Cardinality(kept) <= Cardinality(rows) /\ IsFiniteSet(kept)
    BY <2>1, FS_Subset
  <2>3. Cardinality(kept) \in Nat /\ Cardinality(rows) \in Nat
    BY <2>1, <2>2, FS_CardinalityType
  <2>4. Cardinality(rows) = Cardinality(kept)
    BY <1>3, <2>2, <2>3 DEF rows
  <2> QED  BY <2>1, <2>4, FS_Subset
<1> QED  BY <1>4, <1>5 DEF open, kept, columns, rows

\* What is approved is calculated from a table that hides nothing.
LEMMA ApprovedIsWhole ==
  ASSUME NEW sources \in Seq(Files), NEW i \in DOMAIN sources, NEW item \in Approved(sources, i),
         NEW sheet, sheet = sources[i].doc.sheets[item.sheet]
  PROVE  /\ ~sheet.hidden /\ sheet.covered \cap Columns(sheet) = {}
         /\ \A r \in DOMAIN sheet.rows : ~sheet.rows[r].hidden
         /\ item.analyzer \in {"trend_v1", "variation_v1", "association_v1"} => item.n >= MinObservations
<1> DEFINE doc == sources[i].doc
           views == Views(doc)
<1>1. doc \in Document
  <2>1. sources[i] \in Files
    OBVIOUS
  <2> QED  BY <2>1 DEF Files
<1>2. item \in Derived(sources, i) /\ item.reasons = {} /\ item.status = "OBSERVED"
  BY DEF Approved, Authoritative
<1> DEFINE origins == views \cup {Renamed(v) : v \in views}
<1>4. ASSUME NEW v \in origins
      PROVE  \E s \in DOMAIN doc.sheets :
               /\ ~doc.sheets[s].hidden
               /\ v.sheet = s /\ IsFiniteSet(DOMAIN v.rows) /\ Len(v.rows) \in Nat
               /\ v.hiddenRows = Len(doc.sheets[s].rows) - Len(VisibleRows(doc.sheets[s]))
               /\ v.hiddenColumns = Len(doc.sheets[s].heads) - Len(VisibleColumns(doc.sheets[s]))
  <2>1. PICK u \in views : v \in {u, Renamed(u)}
    OBVIOUS
  <2> QED  BY <1>1, <2>1, ViewFits
<1>5. \E v \in origins : Justified(item, v)
  <2>0. \/ \E v \in views : item \in AnalyzeTagging(v)
        \/ item \in ShapedWithRetry(views)
        \/ item \in AnalyzeConsistency(views, Declared(sources))
    <3> DEFINE tagged == UNION {AnalyzeTagging(v) : v \in views}
               shaped == ShapedWithRetry(views)
               consistent == AnalyzeConsistency(views, Declared(sources))
    <3>1. Derived(sources, i) = tagged \cup shaped \cup consistent
      BY DEF Derived
    <3>2. item \in tagged \/ item \in shaped \/ item \in consistent
      BY <1>2, <3>1
    <3> QED  BY <3>2
  <2>1. ASSUME NEW set, set \subseteq origins, item \in Shaped(set)
        PROVE  \E v \in origins : Justified(item, v)
    <3>1. PICK v \in set : item \in AnalyzeTrend(v) \cup AnalyzeVariation(v) \cup AnalyzeConcentration(v)
             \cup AnalyzeAdoption(v) \cup AnalyzeProcess(v) \cup AnalyzeException(v)
             \cup AnalyzeAssociation(v)
      BY <2>1 DEF Shaped
    <3>2. v \in origins /\ IsFiniteSet(DOMAIN v.rows) /\ Len(v.rows) \in Nat
      BY <1>4, <2>1
    <3>3. Justified(item, v)
      BY <3>1, <3>2, ItemsJustified
    <3> QED  BY <3>2, <3>3
  <2>2. CASE \E v \in views : item \in AnalyzeTagging(v)
    BY <1>4, <2>2, ItemsJustified
  <2>3. CASE item \in ShapedWithRetry(views)
    BY <2>1, <2>3 DEF ShapedWithRetry
  <2>4. CASE item \in AnalyzeConsistency(views, Declared(sources))
    <3>1. PICK v \in views : \E c : item = Item(v, "consistency_v1", c, Len(v.rows), 0)
      BY <2>4 DEF AnalyzeConsistency
    <3> QED  BY <1>4, <3>1, ItemJustified
  <2> QED  BY <2>0, <2>2, <2>3, <2>4
<1>6. PICK v \in origins : Justified(item, v)
  BY <1>5
<1>7. PICK s \in DOMAIN doc.sheets :
        /\ ~doc.sheets[s].hidden /\ v.sheet = s
        /\ v.hiddenRows = Len(doc.sheets[s].rows) - Len(VisibleRows(doc.sheets[s]))
        /\ v.hiddenColumns = Len(doc.sheets[s].heads) - Len(VisibleColumns(doc.sheets[s]))
  BY <1>4
<1>8. HiddenReasons(v) = {} /\ item.sheet = s
  BY <1>2, <1>6, <1>7 DEF Justified
<1>9. sheet = doc.sheets[s]
  BY <1>8
<1>10. /\ doc.sheets[s].covered \cap Columns(doc.sheets[s]) = {}
       /\ \A r \in DOMAIN doc.sheets[s].rows : ~doc.sheets[s].rows[r].hidden
  BY <1>1, <1>7, <1>8, NothingHidden
<1>11. item.analyzer \in {"trend_v1", "variation_v1", "association_v1"} => item.n >= MinObservations
  BY <1>2, <1>6 DEF Justified
<1> QED  BY <1>7, <1>9, <1>10, <1>11

-----------------------------------------------------------------------------
(* The screen and the runs keep the invariant *)

\* What a reader keeps is a sound file.
LEMMA KeptIsSound ==
  ASSUME NEW doc \in Document, NEW ocr \in SUBSET Recognisable(doc), NEW file,
         file = [doc |-> doc, ocr |-> ocr], Accepted(file)
  PROVE  file \in SoundFiles
<1>1. ocr \in SUBSET Nat
  BY PagesFit
<1> QED  BY <1>1 DEF SoundFiles, Files

\* What the readers have kept are files.
LEMMA SoundAreFiles ==
  ASSUME NEW kept \in Seq(SoundFiles)
  PROVE  kept \in Seq(Files)
BY DEF SoundFiles

\* A slot as it was and a slot given other documents or another place are the
\* slots of a type.
LEMMA SlotStep ==
  ASSUME TypeOK, Sound, NEW s \in Slots, NEW at \in {"idle", "reading"},
         NEW rest \in Seq(Document), NEW kept \in Seq(SoundFiles),
         uploads' = [uploads EXCEPT ![s] = [at |-> at, rest |-> rest, kept |-> kept]]
  PROVE  /\ uploads' \in [Slots -> [at : {"idle", "reading"}, rest : Seq(Document), kept : Seq(Files)]]
         /\ \A q \in Slots : uploads'[q].kept \in Seq(SoundFiles)
<1>1. kept \in Seq(Files)
  BY SoundAreFiles
<1>2. [at |-> at, rest |-> rest, kept |-> kept]
        \in [at : {"idle", "reading"}, rest : Seq(Document), kept : Seq(Files)]
  BY <1>1
<1> QED  BY <1>2 DEF TypeOK, Sound

\* Rendering shows what was set and says whether it has a text.
LEMMA RenderingStep ==
  ASSUME TypeOK, Rendering, files' \in Seq(SoundFiles)
  PROVE  /\ files' \in Seq(Files) /\ shown' \in Seq(Files) /\ shown' \in Seq(SoundFiles)
         /\ canRun' \in BOOLEAN /\ timer' \in BOOLEAN
<1> DEFINE some == SomeText(files')
<1>1. some \in BOOLEAN
  BY DEF SomeText
<1>2. shown' = files' /\ canRun' = (canRun /\ some) /\ timer' = some
  BY DEF Rendering
<1> HIDE DEF some
<1>3. canRun' \in BOOLEAN /\ timer' \in BOOLEAN
  BY <1>1, <1>2
<1> QED  BY <1>2, <1>3, SoundAreFiles

\* No assessment, and one that begins, are of the type of the runs.
LEMMA RunFits ==
  ASSUME NEW at \in {"none", "reading", "models", "refused", "open"}, NEW verdict \in Verdicts,
         NEW sources \in Seq(SoundFiles), NEW r,
         r = [at |-> at, sources |-> sources, verdict |-> verdict]
  PROVE  /\ r \in [at : {"none", "reading", "models", "refused", "open"}, sources : Seq(Files),
                   verdict : Verdicts]
         /\ r.at = at /\ r.sources = sources
BY SoundAreFiles

\* No assessment is one of the records too, with no sources.
LEMMA NoRunFits ==
  /\ NoRun \in [at : {"none", "reading", "models", "refused", "open"}, sources : Seq(Files),
                verdict : Verdicts]
  /\ NoRun.at = "none" /\ NoRun.sources \in Seq(SoundFiles)
<1>1. "none" \in Verdicts /\ <<>> \in Seq(SoundFiles)
  BY DEF Verdicts
<1> QED  BY <1>1, RunFits DEF NoRun

\* The empty screen has no file that a reader would have refused.
LEMMA IntakeInit == Init => IInv
<1> SUFFICES ASSUME Init PROVE IInv
  OBVIOUS
<1>1. Idle \in [at : {"idle", "reading"}, rest : Seq(Document), kept : Seq(Files)]
      /\ Idle.kept \in Seq(SoundFiles)
  BY DEF Idle
<1>2. TypeOK
  <2>1. files \in Seq(Files) /\ shown \in Seq(Files)
    BY DEF Init
  <2>2. canRun \in BOOLEAN /\ timer \in BOOLEAN /\ authenticated \in BOOLEAN
       /\ login \in {"closed", "asked", "busy"} /\ unlocking \in SUBSET Seq(Files)
    BY DEF Init
  <2>3. uploads \in [Slots -> [at : {"idle", "reading"}, rest : Seq(Document), kept : Seq(Files)]]
    BY <1>1 DEF Init
  <2>4. run \in [at : {"none", "reading", "models", "refused", "open"}, sources : Seq(Files),
                 verdict : Verdicts]
    BY NoRunFits DEF Init
  <2>5. selected \in 0 .. MaxSelected /\ runs \in 0 .. MaxRuns
    BY IntakeAssumption DEF Init
  <2> QED  BY <2>1, <2>2, <2>3, <2>4, <2>5 DEF TypeOK
<1>3. Sound /\ Examined
  BY <1>1 DEF Init, Sound, Examined, NoRun
<1> QED  BY <1>2, <1>3 DEF IInv

\* Files enter by the readers alone, and sources go to the models by Examine.
LEMMA IntakeStep == IInv /\ [Next]_vars => IInv'
<1> SUFFICES ASSUME TypeOK, Sound, Examined, [Next]_vars PROVE IInv'
  BY DEF IInv
<1> USE DEF screenVars, countVars, loginVars
<1>1. ASSUME NEW s \in Slots, NEW documents \in Selections, Select(s, documents) PROVE IInv'
  <2>1. documents \in Seq(Document) /\ <<>> \in Seq(SoundFiles)
    BY IntakeAssumption
  <2>2. /\ uploads' \in [Slots -> [at : {"idle", "reading"}, rest : Seq(Document), kept : Seq(Files)]]
        /\ \A q \in Slots : uploads'[q].kept \in Seq(SoundFiles)
    BY <1>1, <2>1, SlotStep DEF Select
  <2>3. selected' \in 0 .. MaxSelected
    BY <1>1, IntakeAssumption DEF Select, TypeOK
  <2> QED  BY <1>1, <2>2, <2>3 DEF Select, IInv, TypeOK, Sound, Examined
<1>2. ASSUME NEW s \in Slots, ReadNext(s) PROVE IInv'
  <2> DEFINE u == uploads[s]
             doc == Head(u.rest)
  <2>1. u \in [at : {"idle", "reading"}, rest : Seq(Document), kept : Seq(Files)]
        /\ u.kept \in Seq(SoundFiles)
    BY DEF TypeOK, Sound
  <2>2. doc \in Document /\ Tail(u.rest) \in Seq(Document)
    BY <1>2, <2>1 DEF ReadNext
  <2>3. PICK ocr \in SUBSET Recognisable(doc), late \in BOOLEAN :
          LET file == [doc |-> doc, ocr |-> ocr]
          IN uploads' = [uploads EXCEPT ![s] =
               [at |-> "reading", rest |-> Tail(uploads[s].rest),
                kept |-> IF Accepted(file) /\ ~late THEN Append(uploads[s].kept, file)
                         ELSE uploads[s].kept]]
    BY <1>2 DEF ReadNext
  <2> DEFINE file == [doc |-> doc, ocr |-> ocr]
             more == IF Accepted(file) /\ ~late THEN Append(u.kept, file) ELSE u.kept
  <2>4. more \in Seq(SoundFiles)
    <3>1. Accepted(file) => file \in SoundFiles
      BY <2>2, KeptIsSound
    <3> HIDE DEF file
    <3> QED  BY <2>1, <3>1
  <2>5. uploads' = [uploads EXCEPT ![s] = [at |-> "reading", rest |-> Tail(u.rest), kept |-> more]]
    BY <2>3
  <2> HIDE DEF u, more
  <2>7. /\ uploads' \in [Slots -> [at : {"idle", "reading"}, rest : Seq(Document), kept : Seq(Files)]]
        /\ \A q \in Slots : uploads'[q].kept \in Seq(SoundFiles)
    BY <2>2, <2>4, <2>5, SlotStep
  <2> QED  BY <1>2, <2>7 DEF ReadNext, IInv, TypeOK, Sound, Examined
<1>3. ASSUME NEW s \in Slots, FinishSelect(s) PROVE IInv'
  <2>1. uploads[s].kept \in Seq(SoundFiles)
    BY DEF Sound
  <2>2. files' \in Seq(SoundFiles) /\ files' \in Seq(Files)
    <3>1. files' = files \o uploads[s].kept
      BY <1>3 DEF FinishSelect, Appended
    <3>2. files' \in Seq(SoundFiles)
      BY <2>1, <3>1 DEF Sound
    <3> QED  BY <3>2, SoundAreFiles
  <2>3. <<>> \in Seq(Document) /\ <<>> \in Seq(SoundFiles)
    OBVIOUS
  <2>4. /\ uploads' \in [Slots -> [at : {"idle", "reading"}, rest : Seq(Document), kept : Seq(Files)]]
        /\ \A q \in Slots : uploads'[q].kept \in Seq(SoundFiles)
    BY <1>3, <2>3, SlotStep DEF FinishSelect, Idle
  <2> QED  BY <1>3, <2>2, <2>4 DEF FinishSelect, IInv, TypeOK, Sound, Examined
<1>4. CASE Render
  <2>1. files' \in Seq(SoundFiles)
    BY <1>4 DEF Render, Sound
  <2> QED  BY <1>4, <2>1, RenderingStep DEF Render, IInv, TypeOK, Sound, Examined
<1>5. CASE Settle
  <2> DEFINE fits == Len(shown) \in MinFiles .. MaxFiles
  <2>1. fits \in BOOLEAN
    OBVIOUS
  <2>2. canRun' = fits
    BY <1>5 DEF Settle
  <2> HIDE DEF fits
  <2>3. canRun' \in BOOLEAN
    BY <2>1, <2>2
  <2> QED  BY <1>5, <2>3 DEF Settle, IInv, TypeOK, Sound, Examined
<1>6. CASE Reset
  <2>1. files' \in Seq(SoundFiles) /\ Rendering
    BY <1>6 DEF Reset
  <2>2. run' = NoRun
    BY <1>6 DEF Reset
  <2> QED  BY <1>6, <2>1, <2>2, RenderingStep, NoRunFits DEF Reset, IInv, TypeOK, Sound, Examined
<1>7. ASSUME NEW i \in DOMAIN shown, RemoveFile(i) PROVE IInv'
  <2>1. files' \in Seq(SoundFiles)
    <3>1. files' = SubSeq(shown, 1, i - 1) \o SubSeq(shown, i + 1, Len(shown))
      BY <1>7 DEF RemoveFile, RemoveAt
    <3>2. shown \in Seq(SoundFiles) /\ i \in 1 .. Len(shown)
      BY DEF Sound
    <3>3. SubSeq(shown, 1, i - 1) \in Seq(SoundFiles)
      BY <3>2, SubSeqProperties
    <3>4. SubSeq(shown, i + 1, Len(shown)) \in Seq(SoundFiles)
      BY <3>2, SubSeqProperties
    <3> QED  BY <3>1, <3>3, <3>4
  <2> QED  BY <1>7, <2>1, RenderingStep DEF RemoveFile, IInv, TypeOK, Sound, Examined
<1>8. ASSUME NEW sources \in Seq(SoundFiles), StartRun(sources),
             UNCHANGED <<screenVars, uploads, selected>>,
             login' \in {"closed", "asked", "busy"}, authenticated' \in BOOLEAN,
             unlocking' \subseteq unlocking
      PROVE  IInv'
  <2>1. runs' \in 0 .. MaxRuns
    BY <1>8, IntakeAssumption DEF StartRun, TypeOK
  <2>2. "none" \in Verdicts
    BY DEF Verdicts
  <2>3. /\ run' \in [at : {"none", "reading", "models", "refused", "open"}, sources : Seq(Files),
                     verdict : Verdicts]
        /\ run'.at = "reading" /\ run'.sources = sources
    BY <1>8, <2>2, RunFits DEF StartRun
  <2> QED  BY <1>8, <2>1, <2>2, <2>3 DEF IInv, TypeOK, Sound, Examined
<1>9. CASE Analyze
  <2>1. CASE authenticated
    <3>1. shown \in Seq(SoundFiles) BY DEF Sound
    <3> QED  BY <1>8, <1>9, <2>1, <3>1 DEF Analyze, TypeOK
  <2>2. CASE ~authenticated
    BY <1>9, <2>2 DEF Analyze, IInv, TypeOK, Sound, Examined
  <2> QED  BY <2>1, <2>2
<1>10. ASSUME NEW rendered \in unlocking, LoginSucceeds(rendered) PROVE IInv'
  <2>1. rendered \in Seq(SoundFiles) /\ unlocking' \subseteq unlocking
    BY <1>10 DEF Sound, LoginSucceeds
  <2>2. CASE login = "closed"
    BY <1>10, <2>1, <2>2 DEF LoginSucceeds, IInv, TypeOK, Sound, Examined
  <2>3. CASE login # "closed"
    BY <1>8, <1>10, <2>1, <2>3 DEF LoginSucceeds
  <2> QED  BY <2>2, <2>3
<1>15. ASSUME NEW rendered \in unlocking, LoginFails(rendered) PROVE IInv'
  <2>1. unlocking' \subseteq unlocking /\ login' \in {"closed", "asked", "busy"}
    BY <1>15 DEF LoginFails, TypeOK
  <2> QED  BY <1>15, <2>1 DEF LoginFails, IInv, TypeOK, Sound, Examined
<1>16. CASE LoginSubmits
  <2>1. shown \in Seq(SoundFiles) /\ shown \in Seq(Files) BY DEF Sound, TypeOK
  <2>2. unlocking' = unlocking \union {shown} BY <1>16 DEF LoginSubmits
  <2>3. /\ unlocking' \in SUBSET Seq(SoundFiles) /\ unlocking' \in SUBSET Seq(Files)
        /\ login' \in {"closed", "asked", "busy"}
    BY <1>16, <2>1, <2>2 DEF LoginSubmits, Sound, TypeOK
  <2> QED  BY <1>16, <2>3 DEF LoginSubmits, IInv, TypeOK, Sound, Examined
<1>11. CASE LoginCloses
  BY <1>11 DEF LoginCloses, IInv, TypeOK, Sound, Examined
<1>12. CASE Examine
  <2> DEFINE verdict == Verdict(run.sources)
             at == IF verdict = "accepted" THEN "models" ELSE "refused"
  <2>1. verdict \in {"private", "invalid", "risky", "incomplete", "inconsistent", "accepted"}
    BY Zenon DEF Verdict
  <2>2. run' = [run EXCEPT !.at = at, !.verdict = verdict]
    BY <1>12 DEF Examine
  <2>3. at \in {"models", "refused"} /\ (at = "models" => verdict = "accepted")
    OBVIOUS
  <2> HIDE DEF verdict, at
  <2>4. run' = [at |-> at, sources |-> run.sources, verdict |-> verdict]
    BY <2>2 DEF TypeOK
  <2>5. run'.at = at /\ run'.sources = run.sources
    BY <2>4
  <2>6. TypeOK'
    <3>1. verdict \in Verdicts
      BY <2>1 DEF Verdicts
    <3>2. run' \in [at : {"none", "reading", "models", "refused", "open"}, sources : Seq(Files),
                    verdict : Verdicts]
      BY <2>3, <2>4, <3>1, RunFits DEF Sound
    <3> QED  BY <1>12, <3>2 DEF Examine, TypeOK
  <2>7. Sound'
    BY <1>12, <2>5 DEF Examine, Sound
  <2>8. Examined'
    BY <2>3, <2>5 DEF Examined, verdict
  <2> QED  BY <2>6, <2>7, <2>8 DEF IInv
<1>13. CASE ModelsEnd
  BY <1>13 DEF ModelsEnd, IInv, TypeOK, Sound, Examined
<1>14. CASE UNCHANGED vars
  BY <1>14 DEF vars, IInv, TypeOK, Sound, Examined
<1> QED
  BY <1>1, <1>2, <1>3, <1>4, <1>5, <1>6, <1>7, <1>9, <1>10, <1>11, <1>12, <1>13, <1>14,
     <1>15, <1>16 DEF Next

-----------------------------------------------------------------------------
(* Theorems *)

\* The invariant holds of every selection, removal and assessment.
THEOREM IntakeInvariant == Spec => []IInv
<1> QED  BY IntakeInit, IntakeStep, PTL DEF Spec

\* The files, the selections under way and the runs have their types.
THEOREM IntakeTypeCorrect == Spec => []TypeOK
<1>1. IInv => TypeOK
  BY DEF IInv
<1> QED  BY <1>1, IntakeInvariant, PTL

\* What is withheld of a document never reaches a model: nothing hidden, no
\* identifier and no name that the source presents, and no value under the head of
\* another column.
THEOREM WithheldSafe == Spec => []WithheldStaysLocal
<1>1. IInv => WithheldStaysLocal
  <2> SUFFICES ASSUME IInv, AtModels, NEW file \in ToSet(run.sources), NEW f \in Facts(file)
               PROVE  /\ ~Hidden(file.doc, f.at)
                      /\ \/ f.redacted
                         \/ Tag(file.doc, f.at) = "plain"
                         \/ Tag(file.doc, f.at) = "name" /\ ~PersonsKnown(file.doc)
                      /\ f.at[1] \in {"head", "cell"} => f.label = f.at[Len(f.at)]
    BY DEF WithheldStaysLocal
  <2>1. file \in Files /\ file.ocr \subseteq Recognisable(file.doc)
    BY AcceptedSources
  <2> QED  BY <2>1, FactsClear
<1> QED  BY <1>1, IntakeInvariant, PTL

\* No assessment with a secret in any of its documents reaches a model.
THEOREM SecretsSafe == Spec => []SecretsStop
<1>1. IInv => SecretsStop
  <2> SUFFICES ASSUME IInv, AtModels, NEW file \in ToSet(run.sources),
                      NEW at \in HeadPlaces(file.doc) \cup CellPlaces(file.doc) \cup PagePlaces(file)
               PROVE  Tag(file.doc, at) # "secret"
    BY DEF SecretsStop
  <2>1. ~Blocked(file)
    BY AcceptedSources
  <2> QED  BY <2>1 DEF Blocked, Scanned
<1> QED  BY <1>1, IntakeInvariant, PTL

\* Nothing of the sources of an assessment is missing without notice.
THEOREM MissingSafe == Spec => []NothingMissing
<1>1. IInv => NothingMissing
  <2> SUFFICES ASSUME IInv, AtModels, NEW file \in ToSet(run.sources),
                      NEW told, told = {f.at : f \in Facts(file)},
                      NEW unread, unread = {p \in DOMAIN file.doc.pages :
                                              file.doc.pages[p].text = "sparse" /\ p \notin file.ocr}
               PROVE  /\ {at \in HeadPlaces(file.doc) \cup CellPlaces(file.doc) : ~Hidden(file.doc, at)}
                           \subseteq told
                      /\ \A p \in DOMAIN file.doc.pages :
                           \/ <<"text", p>> \in told
                           \/ file.doc.pages[p].text = "none" /\ <<"picture", p>> \in told
                      /\ file.doc.kind = "pdf" =>
                           /\ \A p \in DOMAIN file.doc.pages :
                                file.doc.pages[p].text = "full" /\ file.doc.pages[p].picture
                                  => <<"picture", p>> \in told
                           /\ Cardinality(unread) > 1 =>
                                100 * Cardinality(unread) < SparsePercent * Len(file.doc.pages)
    BY Zenon DEF NothingMissing
  <2>1. /\ file \in SoundFiles /\ HasText(file) /\ Quality(file) # "poor"
        /\ file.doc.kind = "pdf" => ~Truncated(file.doc)
    BY AcceptedSources
  <2> QED  BY <2>1, NothingLeftOut
<1> QED  BY <1>1, IntakeInvariant, PTL

\* What the models must take as calculated from a complete population is.
THEOREM OfferedSafe == Spec => []OfferedIsWhole
<1>1. IInv => OfferedIsWhole
  <2> SUFFICES ASSUME IInv, AtModels, NEW i \in DOMAIN run.sources,
                      NEW item \in Approved(run.sources, i),
                      NEW sheet, sheet = run.sources[i].doc.sheets[item.sheet]
               PROVE  /\ ~sheet.hidden /\ sheet.covered \cap Columns(sheet) = {}
                      /\ \A r \in DOMAIN sheet.rows : ~sheet.rows[r].hidden
                      /\ item.analyzer \in {"trend_v1", "variation_v1", "association_v1"}
                           => item.n >= MinObservations
    BY DEF OfferedIsWhole
  <2>1. run.sources \in Seq(Files)
    BY DEF IInv, TypeOK
  <2> QED  BY <2>1, ApprovedIsWhole
<1> QED  BY <1>1, IntakeInvariant, PTL

\* A sequence is in front of itself and of what is put after it.
LEMMA PrefixOfConcat ==
  ASSUME NEW S, NEW s \in Seq(S), NEW t \in Seq(S)
  PROVE  IsPrefix(s, s) /\ IsPrefix(s, s \o t)
<1>1. Len(s) \in Nat /\ Len(t) \in Nat /\ Len(s \o t) = Len(s) + Len(t)
  OBVIOUS
<1>2. SubSeq(s, 1, Len(s)) = SubSeq(s \o t, 1, Len(s))
  BY <1>1, SubSeqOfConcat1
<1> QED  BY <1>1, <1>2 DEF IsPrefix

\* Only the user's own removals take a file away that was read and kept.
THEOREM RetainedSafe == Spec => RetainedUnlessRemoved
<1>1. TypeOK /\ [Next]_vars =>
        [\/ IsPrefix(files, files')
         \/ Reset
         \/ \E i \in DOMAIN shown : RemoveFile(i)]_vars
  <2> SUFFICES ASSUME TypeOK, Next, ~Reset, ~\E i \in DOMAIN shown : RemoveFile(i)
               PROVE  IsPrefix(files, files')
    OBVIOUS
  <2>1. files \in Seq(Files) /\ \A s \in Slots : uploads[s].kept \in Seq(Files)
    BY DEF TypeOK
  <2>2. CASE \E s \in Slots : FinishSelect(s)
    <3>1. PICK s \in Slots : files' = files \o uploads[s].kept
      BY <2>2 DEF FinishSelect, Appended
    <3> QED  BY <2>1, <3>1, PrefixOfConcat
  <2>3. CASE ~\E s \in Slots : FinishSelect(s)
    <3>1. files' = files
      BY <2>3 DEF Next, Select, ReadNext, Render, Settle, Analyze, StartRun, LoginSubmits,
                  LoginSucceeds, LoginFails, LoginCloses, Examine, ModelsEnd, screenVars
    <3> QED  BY <2>1, <3>1, PrefixOfConcat
  <2> QED  BY <2>2, <2>3
<1> QED  BY <1>1, IntakeTypeCorrect, PTL DEF Spec, RetainedUnlessRemoved
=============================================================================
