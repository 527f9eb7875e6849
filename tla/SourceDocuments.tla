-------------------------- MODULE SourceDocuments --------------------------
(***************************************************************************)
(* What is read of a document in the browser, what of it may leave, and    *)
(* how complete the reading is said to be.                                 *)
(*                                                                         *)
(* src/services/evidenceFileService.ts   the type of a file                *)
(* src/services/pdfService.ts, ocrService.ts, parseQualityService.ts       *)
(* src/services/xlsxCore.ts, tableService.ts                               *)
(* src/services/deterministicPrivacyService.ts                             *)
(* src/services/sourceRegistryService.ts, pipelineIntegrityService.ts      *)
(*                                                                         *)
(* Operators only: EvidenceIntake adds the screen and the runs.  A piece   *)
(* of a document is its tag: "plain", "personal", "secret", or the "name"  *)
(* of a person, which is recognised only through a column head that        *)
(* presents the person.  A place is where a piece stands in its document.  *)
(* Bands, samples and previews of a table are left out: the evidence is    *)
(* made of its complete rows.                                              *)
(***************************************************************************)
EXTENDS Naturals, Sequences, FiniteSets, SequencesExt, FiniteSetsExt

CONSTANTS
  Items,         \* the crucial items of the criteria
  Cadences,      \* cadences a policy may declare, each for a criterion
  MaxPages,      \* pages read of a PDF: 100 in the code
  MaxOcrPages,   \* pages of a PDF that may need OCR: 30
  MaxRows,       \* rows of the tables of a file: 250 000
  SparsePercent  \* share of unread sparse pages that makes a reading poor: 20

Tags == {"plain", "personal", "secret", "name"}

\* text: what the text layer of a page holds; picture: a material raster image;
\* read: the piece OCR finds on the page; what text and image name and declare
Page == [text : {"none", "sparse", "full"}, picture : BOOLEAN, tag : Tags, read : Tags,
         names : SUBSET Items, declares : SUBSET Cadences]

\* "person": the head presents a person.  matches: the patterns its words match
ColumnHead == [tag : Tags \union {"person"}, matches : SUBSET STRING, names : SUBSET Items]

Cell == [tag : Tags, value : STRING]

Row == [hidden : BOOLEAN, total : BOOLEAN, cells : Seq(Cell)]

\* A row is as wide as the head: that of a workbook is cut from the sheet, and a
\* delimiter is accepted only where all rows are.  (The ragged rows that a
\* tab-separated file may have are left out.)
Sheet ==
  {s \in [hidden : BOOLEAN, heads : Seq(ColumnHead), rows : Seq(Row), covered : SUBSET Nat,
          headHidden : BOOLEAN, chart : BOOLEAN] :
     \A r \in DOMAIN s.rows : Len(s.rows[r].cells) = Len(s.heads)}

\* genuine: the content is of the type the name says; sound: the archive, the
\* formulas and links, the quotes and the delimiter are accepted; fit: no head
\* is longer and no column further right than a record of the run may hold.  A
\* picture and a text are one page; a table has none.
Document ==
  {d \in [kind : {"pdf", "image", "text", "csv", "xlsx"}, size : Nat, genuine : BOOLEAN,
          sound : BOOLEAN, fit : BOOLEAN, pages : Seq(Page), sheets : Seq(Sheet)] :
     /\ d.kind = "pdf" => d.pages # <<>>
     /\ d.kind \in {"image", "text"} => Len(d.pages) = 1
     /\ d.kind \in {"csv", "xlsx"} <=> d.pages = <<>>
     /\ d.kind = "csv" => Len(d.sheets) = 1
     /\ d.kind \notin {"csv", "xlsx"} => d.sheets = <<>>}

ASSUME DocumentsAssumption ==
  /\ MaxPages \in Nat \ {0}
  /\ {MaxOcrPages, MaxRows, SparsePercent} \subseteq Nat

-----------------------------------------------------------------------------
(* Pages.  A file is a document and the pages of it that OCR has read. *)

ReadPages(doc) == 1..(IF Len(doc.pages) < MaxPages THEN Len(doc.pages) ELSE MaxPages)

\* isSparsePdfPage, isNearZeroPdfPage
Sparse(doc, p) == doc.pages[p].text # "full"

NearZero(doc, p) == doc.pages[p].text = "none"

NeedsOcr(doc) ==
  IF doc.kind \in {"pdf", "image"}
    THEN {p \in ReadPages(doc) : Sparse(doc, p) \/ doc.pages[p].picture}
    ELSE {}

\* The pages on which OCR can find words with a geometry; it may fail on any
Recognisable(doc) == {p \in NeedsOcr(doc) : doc.pages[p].picture \/ ~NearZero(doc, p)}

\* extractPagesFromPdf, extractImageOcr: the state of a page
PageState(file, p) ==
  IF p \notin NeedsOcr(file.doc) THEN "TEXT_EXTRACTED"
  ELSE IF p \in file.ocr         THEN "OCR_COMPLETE"
  ELSE IF Sparse(file.doc, p)    THEN "SPARSE_TEXT_ONLY"
  ELSE "VISUAL_REGION_WITHHELD"

PagesInState(file, state) == {p \in ReadPages(file.doc) : PageState(file, p) = state}

PagesAccepted(file) ==
  /\ Cardinality(NeedsOcr(file.doc)) <= MaxOcrPages
  /\ \A p \in NeedsOcr(file.doc) : NearZero(file.doc, p) => p \in file.ocr

Truncated(doc) == Len(doc.pages) > MaxPages

\* assessPdfParseQuality
Quality(file) ==
  LET unread == Cardinality(PagesInState(file, "SPARSE_TEXT_ONLY")) IN
  IF file.doc.kind # "pdf" THEN "none"
  ELSE IF \/ PagesInState(file, "VISUAL_REGION_WITHHELD") # {}
          \/ Truncated(file.doc)
          \/ unread > 1 /\ 100 * unread >= SparsePercent * Cardinality(ReadPages(file.doc))
    THEN "poor"
  ELSE IF unread > 0 THEN "mixed" ELSE "good"

Rounded(a, b) == (2 * a + b) \div (2 * b)

\* textCoverageRatio, in percent: pages that were not sparse before OCR
TextCoverage(doc) ==
  IF doc.kind # "pdf" THEN 100
  ELSE Rounded(100 * Cardinality({p \in ReadPages(doc) : ~Sparse(doc, p)}),
               Cardinality(ReadPages(doc)))

-----------------------------------------------------------------------------
(* Tables *)

\* The numbers of a set in their order
InOrder(S) ==
  [k \in 1..Cardinality(S) |-> CHOOSE n \in S : Cardinality({m \in S : m <= n}) = k]

Columns(sheet) == DOMAIN sheet.heads

VisibleColumns(sheet) == InOrder(Columns(sheet) \ sheet.covered)

\* The cells of a row as read: a row is projected to the columns of the heads.
\* Here it is not.
WholeRow(sheet) == [c \in Columns(sheet) |-> c]

Projected(sheet) == VisibleColumns(sheet)

VisibleRows(sheet) == InOrder({r \in DOMAIN sheet.rows : ~sheet.rows[r].hidden})

\* parseXlsxBytes: the refusals that concern what is hidden.  A sheet without
\* a head is an empty one.
SheetsAccepted(doc) ==
  LET inspected == {s \in ToSet(doc.sheets) : s.heads # <<>>}
  IN /\ \E s \in inspected : ~s.hidden
     /\ \A s \in inspected :
          /\ VisibleColumns(s) # <<>>
          /\ ~s.headHidden
          /\ s.chart => /\ Len(VisibleRows(s)) = Len(s.rows)
                        /\ Len(VisibleColumns(s)) = Len(s.heads)

RowsAccepted(doc) == FoldLeft(LAMBDA n, s : n + Len(s.rows), 0, doc.sheets) <= MaxRows

\* The table of a sheet
Table(doc, s) ==
  LET sheet == doc.sheets[s]
  IN [sheet |-> s, eligible |-> ~sheet.hidden,
      columns |-> VisibleColumns(sheet),
      rows |-> [k \in DOMAIN VisibleRows(sheet) |->
                  [row |-> VisibleRows(sheet)[k], cells |-> Projected(sheet)]],
      hiddenRows |-> Len(sheet.rows) - Len(VisibleRows(sheet)),
      hiddenColumns |-> Len(sheet.heads) - Len(VisibleColumns(sheet))]

\* The tables of a document: a workbook has one for each sheet that holds
\* something, hidden ones included (model_eligible FALSE).  The rows above the
\* probable head of a delimited file belong to no table; they are left out.
Tables(doc) ==
  LET filled == InOrder({s \in DOMAIN doc.sheets : doc.sheets[s].heads # <<>>})
  IN [k \in DOMAIN filled |-> Table(doc, filled[k])]

\* Every table, the hidden sheets among them.
AllTables(doc) == ToSet(Tables(doc))

\* item.model_eligible
OfferedTables(doc) == {t \in ToSet(Tables(doc)) : t.eligible}

\* handleFileSelect and the readers: a file is kept or rejected
Accepted(file) ==
  /\ file.doc.genuine /\ file.doc.sound
  /\ PagesAccepted(file)
  /\ RowsAccepted(file.doc)
  /\ file.doc.kind = "xlsx" => SheetsAccepted(file.doc)

HasText(file) ==
  \/ file.doc.kind # "text"
  \/ \E p \in ReadPages(file.doc) : ~NearZero(file.doc, p)

-----------------------------------------------------------------------------
(* Privacy *)

PagePlaces(file) ==
  {<<"text", p>> : p \in {q \in ReadPages(file.doc) : ~NearZero(file.doc, q)}}
    \union {<<"picture", p>> : p \in file.ocr}

HeadPlaces(doc) ==
  UNION {{<<"head", s, c>> : c \in Columns(doc.sheets[s])} : s \in DOMAIN doc.sheets}

CellPlaces(doc) ==
  UNION {{<<"cell", s, r, c>> : r \in DOMAIN doc.sheets[s].rows, c \in Columns(doc.sheets[s])} :
           s \in DOMAIN doc.sheets}

Tag(doc, at) ==
  CASE at[1] = "text"    -> doc.pages[at[2]].tag
    [] at[1] = "picture" -> doc.pages[at[2]].read
    [] at[1] = "head"    -> doc.sheets[at[2]].heads[at[3]].tag
    [] OTHER             -> doc.sheets[at[2]].rows[at[3]].cells[at[4]].tag

\* collectTablePersonRedactions: by the heads of every column, hidden or not
PersonsKnown(doc) == \E at \in HeadPlaces(doc) : Tag(doc, at) = "person"

\* sanitizeText, applyKnownRedactions
Redacted(doc, at) ==
  \/ Tag(doc, at) \in {"personal", "secret", "person"}
  \/ Tag(doc, at) = "name" /\ PersonsKnown(doc)

\* sanitizeEvidenceSources scans privacy_scan_rows, every row and column of
\* every sheet.  Here analysis_rows, what is not hidden in its sheet.
ScannedRows(file) ==
  PagePlaces(file) \union HeadPlaces(file.doc)
    \union {at \in CellPlaces(file.doc) :
              LET sheet == file.doc.sheets[at[2]]
              IN ~sheet.rows[at[3]].hidden /\ at[4] \notin sheet.covered}

Scanned(file) == PagePlaces(file) \union HeadPlaces(file.doc) \union CellPlaces(file.doc)

Blocked(file) == \E at \in Scanned(file) : Tag(file.doc, at) = "secret"

-----------------------------------------------------------------------------
(* The registry *)

\* What the chunks of a source tell: a piece, the column whose head stands
\* before it, and whether it was redacted.
Fact(file, at, label) == [at |-> at, label |-> label, redacted |-> Redacted(file.doc, at)]

\* structuredTableProfile and structuredTableRows: the value at a position is
\* given the head at that position, or its number where there is none (0)
TableFacts(file, t) ==
  {Fact(file, <<"head", t.sheet, c>>, c) : c \in ToSet(t.columns)}
    \union UNION {{Fact(file, <<"cell", t.sheet, t.rows[k].row, t.rows[k].cells[i]>>,
                        IF i \in DOMAIN t.columns THEN t.columns[i] ELSE 0) :
                     i \in DOMAIN t.rows[k].cells} : k \in DOMAIN t.rows}

\* buildSourceRegistry: the chunks of a source
Facts(file) ==
  {Fact(file, at, 0) : at \in PagePlaces(file)}
    \union UNION {TableFacts(file, t) : t \in OfferedTables(file.doc)}

\* validateSourceRecords: a record without content or out of its limits stops
\* the whole run
ValidRecord(file) == HasText(file) /\ file.doc.fit

\* buildExtractionQuality, from the record runAnalyze makes of the file; the
\* rows of a table are always read completely
ProcessedPages(file) ==
  IF file.doc.kind = "pdf" THEN Cardinality(ReadPages(file.doc)) ELSE 1

TotalPages(file) == IF file.doc.kind = "pdf" THEN Len(file.doc.pages) ELSE 1

Completeness(file) == Rounded(ProcessedPages(file) * TextCoverage(file.doc), TotalPages(file))

\* The sources are files in order.
OverallCompleteness(sources) ==
  Rounded(FoldLeft(LAMBDA n, file : n + Completeness(file), 0, sources), Len(sources))

\* scanRegistryDlp: what the first scan has redacted matches no more
Risky(sources) ==
  \E file \in ToSet(sources) : \E f \in Facts(file) : Tag(file.doc, f.at) = "secret" /\ ~f.redacted

\* validateEvidenceAcquisition: SOURCE_EXTRACTION_INCOMPLETE.  First without
\* the conditions on a single source.
FailedOnly(sources) == OverallCompleteness(sources) = 0

Incomplete(sources) ==
  \/ OverallCompleteness(sources) = 0
  \/ \E file \in ToSet(sources) :
       \/ Truncated(file.doc) /\ file.doc.kind = "pdf"
       \/ ProcessedPages(file) < TotalPages(file)
       \/ Quality(file) = "poor"

\* Every source has a chunk.
Represented(sources) == \A file \in ToSet(sources) : Facts(file) # {}

\* analyzeDocument, up to the first model: where a run ends that does not get
\* there.  The packets are those of EvidenceRetrieval.
Verdict(sources) ==
  IF \E file \in ToSet(sources) : Blocked(file)            THEN "private"
  ELSE IF \E file \in ToSet(sources) : ~ValidRecord(file)  THEN "invalid"
  ELSE IF Risky(sources)                                   THEN "risky"
  ELSE IF Incomplete(sources)                              THEN "incomplete"
  ELSE IF ~Represented(sources)                            THEN "inconsistent"
  ELSE "accepted"
=============================================================================
