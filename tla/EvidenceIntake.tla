--------------------------- MODULE EvidenceIntake ---------------------------
(***************************************************************************)
(* From the selection of files to the first model of an assessment.        *)
(*                                                                         *)
(* src/App.tsx                         the screen                          *)
(* src/services/analysisService.ts     the run, up to its first model      *)
(* SourceDocuments, DerivedEvidence    what is read, kept and calculated   *)
(*                                                                         *)
(* A selection is read file by file while the user goes on: several may be *)
(* under way, files may be removed, an assessment started or the session   *)
(* reset.  Handlers and effects see the files as last rendered (shown),    *)
(* updates of the state are applied to the files as last set (files).      *)
(*                                                                         *)
(* The check of relevance never refuses a text that is not empty, and the  *)
(* messages on the screen are left out.  What happens to a report is the   *)
(* matter of ReportDelivery; opening one of the files as a saved report is *)
(* there too.                                                              *)
(***************************************************************************)
EXTENDS DerivedEvidence

CONSTANTS
  Selections,     \* sequences of documents the user may select at once
  Slots,          \* selections that may be under way at a time
  MinFiles, MaxFiles,  \* documents of an assessment: 2 and 20 in the code
  MaxSize,        \* their size: 25 MB
  MaxSelected,    \* bound: selections
  MaxRuns         \* bound: assessments started

ASSUME IntakeAssumption ==
  /\ Selections \subseteq Seq(Document)
  /\ {MinFiles, MaxFiles, MaxSize, MaxSelected, MaxRuns} \subseteq Nat

VARIABLES
  files,          \* as last set
  shown,          \* as last rendered
  canRun,         \* scanResult.canRun
  timer,          \* the check of the whole text is to come
  uploads,        \* by slot: the documents to read and the files kept
  authenticated,
  login,          \* the dialog before an assessment: closed, asked, or busy
  unlocking,      \* the renderings in which a password was sent, unanswered
  run,            \* the assessment: where it is, its sources, its verdict
  selected, runs  \* counted for the bounds

screenVars == <<files, shown, canRun, timer>>
countVars  == <<selected, runs>>
loginVars  == <<authenticated, login, unlocking>>
vars       == <<screenVars, uploads, loginVars, run, countVars>>

-----------------------------------------------------------------------------

Idle == [at |-> "idle", rest |-> <<>>, kept |-> <<>>]

NoRun == [at |-> "none", sources |-> <<>>, verdict |-> "none"]

Init ==
  /\ files = <<>> /\ shown = <<>>
  /\ canRun = FALSE /\ timer = FALSE
  /\ uploads = [s \in Slots |-> Idle]
  /\ authenticated \in BOOLEAN
  /\ login = "closed" /\ unlocking = {}
  /\ run = NoRun
  /\ selected = 0 /\ runs = 0

\* The panel for uploads is there, and no dialog before it.
PanelOpen == run.at \in {"none", "refused"} /\ login = "closed"

SizeOf(documents) == FoldLeft(LAMBDA n, doc : n + doc.size, 0, documents)

DocumentsOf(kept) == [i \in DOMAIN kept |-> kept[i].doc]

-----------------------------------------------------------------------------
(* Selections *)

\* handleFileSelect: the limits are checked against the files as rendered
Select(s, documents) ==
  /\ PanelOpen /\ selected < MaxSelected
  /\ Len(shown) < MaxFiles
  /\ uploads[s] = Idle
  /\ Len(shown) + Len(documents) <= MaxFiles
  /\ SizeOf(DocumentsOf(shown)) + SizeOf(documents) <= MaxSize
  /\ uploads' = [uploads EXCEPT ![s] = [at |-> "reading", rest |-> documents, kept |-> <<>>]]
  /\ selected' = selected + 1
  /\ UNCHANGED <<screenVars, loginVars, run, runs>>

\* The body of its loop: a file is kept or rejected.  OCR may fail on a page;
\* the worker that reads workbooks may take too long.
ReadNext(s) ==
  /\ uploads[s].rest # <<>>
  /\ \E ocr \in SUBSET Recognisable(Head(uploads[s].rest)), late \in BOOLEAN :
       LET file == [doc |-> Head(uploads[s].rest), ocr |-> ocr]
       IN /\ late => file.doc.kind = "xlsx"
          /\ uploads' = [uploads EXCEPT ![s] =
               [at |-> "reading", rest |-> Tail(@.rest),
                kept |-> IF Accepted(file) /\ ~late THEN Append(@.kept, file) ELSE @.kept]]
  /\ UNCHANGED <<screenVars, loginVars, run, countVars>>

\* setFiles(prev => [...prev, ...processedFiles]).  First with the files of the
\* last rendering.
AppendedToShown(kept) == shown \o kept

Appended(kept) == files \o kept

FinishSelect(s) ==
  /\ uploads[s].at = "reading" /\ uploads[s].rest = <<>>
  /\ files' = Appended(uploads[s].kept)
  /\ uploads' = [uploads EXCEPT ![s] = Idle]
  /\ UNCHANGED <<shown, canRun, timer, loginVars, run, countVars>>

-----------------------------------------------------------------------------
(* The screen *)

SomeText(kept) == \E file \in ToSet(kept) : HasText(file)

\* A rendering and the effects on files and aggregatedText: without text
\* nothing can be run, else the check starts again; what it found before stands
\* until then.
Rendering ==
  /\ shown' = files'
  /\ canRun' = (canRun /\ SomeText(files'))
  /\ timer' = SomeText(files')

\* What a selection has set is rendered some time after it ends.
Render ==
  /\ shown # files
  /\ UNCHANGED files
  /\ Rendering
  /\ UNCHANGED <<uploads, loginVars, run, countVars>>

Settle ==
  /\ timer
  /\ timer' = FALSE
  /\ canRun' = (Len(shown) \in MinFiles..MaxFiles)
  /\ UNCHANGED <<files, shown, uploads, loginVars, run, countVars>>

\* removeFile: the files as rendered without one.  What a click sets is rendered
\* before the next.
RemoveFile(i) ==
  /\ PanelOpen
  /\ files' = RemoveAt(shown, i)
  /\ Rendering
  /\ UNCHANGED <<uploads, loginVars, run, countVars>>

\* reset: selections under way are not stopped
Reset ==
  /\ run.at \notin {"reading", "models"} /\ login = "closed"
  /\ shown # <<>> \/ run.at = "open"
  /\ files' = <<>>
  /\ Rendering
  /\ run' = NoRun
  /\ UNCHANGED <<uploads, loginVars, countVars>>

-----------------------------------------------------------------------------
(* Assessments *)

\* runAnalyze: the sources are the files of the rendering it was made in
StartRun(sources) ==
  /\ runs < MaxRuns
  /\ runs' = runs + 1
  /\ run' = [at |-> "reading", sources |-> sources, verdict |-> "none"]

\* handleAnalyze
Analyze ==
  /\ PanelOpen
  /\ canRun /\ SomeText(shown)
  /\ Len(shown) \in MinFiles..MaxFiles
  /\ IF authenticated THEN StartRun(shown) /\ UNCHANGED login
     ELSE login' = "asked" /\ UNCHANGED <<run, runs>>
  /\ UNCHANGED <<screenVars, uploads, authenticated, unlocking, selected>>

\* submit: the password is sent, and onSuccess is that of this rendering
LoginSubmits ==
  /\ login = "asked"
  /\ login' = "busy"
  /\ unlocking' = unlocking \union {shown}
  /\ UNCHANGED <<screenVars, uploads, authenticated, run, countVars>>

\* The answer, right or wrong.  onSuccess starts what is pending, without another
\* look at the files; a dialog that was closed has nothing pending.
LoginSucceeds(rendered) ==
  /\ unlocking' = unlocking \ {rendered}
  /\ login' = "closed" /\ authenticated' = TRUE
  /\ IF login = "closed" THEN UNCHANGED <<run, runs>> ELSE StartRun(rendered)
  /\ UNCHANGED <<screenVars, uploads, selected>>

LoginFails(rendered) ==
  /\ unlocking' = unlocking \ {rendered}
  /\ login' = IF login = "busy" THEN "asked" ELSE login
  /\ UNCHANGED <<screenVars, uploads, authenticated, run, countVars>>

\* The answer that is on its way still comes.
LoginCloses ==
  /\ login # "closed"
  /\ login' = "closed"
  /\ UNCHANGED <<screenVars, uploads, authenticated, unlocking, run, countVars>>

\* analyzeDocument, up to the first model
Examine ==
  /\ run.at = "reading"
  /\ \E verdict \in {Verdict(run.sources)} :
       run' = [run EXCEPT !.at = IF verdict = "accepted" THEN "models" ELSE "refused",
                          !.verdict = verdict]
  /\ UNCHANGED <<screenVars, uploads, loginVars, countVars>>

\* The rest of the run, and the report on the screen
ModelsEnd ==
  /\ run.at = "models"
  /\ \E at \in {"open", "refused"} : run' = [run EXCEPT !.at = at]
  /\ UNCHANGED <<screenVars, uploads, loginVars, countVars>>

Next ==
  \/ \E s \in Slots :
       \/ \E documents \in Selections : Select(s, documents)
       \/ ReadNext(s)
       \/ FinishSelect(s)
  \/ Render \/ Settle \/ Reset
  \/ \E i \in DOMAIN shown : RemoveFile(i)
  \/ \E rendered \in unlocking : LoginSucceeds(rendered) \/ LoginFails(rendered)
  \/ Analyze \/ LoginSubmits \/ LoginCloses \/ Examine \/ ModelsEnd

Spec == Init /\ [][Next]_vars

-----------------------------------------------------------------------------
(* Properties *)

Files == [doc : Document, ocr : SUBSET Nat]

Verdicts == {"none", "private", "invalid", "risky", "incomplete", "inconsistent", "accepted"}

TypeOK ==
  /\ files \in Seq(Files) /\ shown \in Seq(Files)
  /\ canRun \in BOOLEAN /\ timer \in BOOLEAN
  /\ uploads \in [Slots -> [at : {"idle", "reading"}, rest : Seq(Document), kept : Seq(Files)]]
  /\ authenticated \in BOOLEAN /\ login \in {"closed", "asked", "busy"}
  /\ unlocking \in SUBSET Seq(Files)
  /\ run \in [at : {"none", "reading", "models", "refused", "open"}, sources : Seq(Files),
              verdict : Verdicts]
  /\ selected \in 0..MaxSelected /\ runs \in 0..MaxRuns

AtModels == run.at = "models"

Hidden(doc, at) ==
  /\ at[1] \in {"head", "cell"}
  /\ \/ doc.sheets[at[2]].hidden
     \/ at[Len(at)] \in doc.sheets[at[2]].covered
     \/ at[1] = "cell" /\ doc.sheets[at[2]].rows[at[3]].hidden

\* What is withheld stays in the browser: nothing of a hidden sheet, row or
\* column is in the chunks the models are given, no identifier and no name the
\* source's own heads present, not even those only a hidden head presents; and
\* every value stands under the head of its own column, whatever was projected
\* away beside it.  About xlsxCore's projection, sanitizeEvidenceSources and
\* structuredTableRows, which number columns independently of each other.
WithheldStaysLocal ==
  AtModels =>
    \A file \in ToSet(run.sources) : \A f \in Facts(file) :
      /\ ~Hidden(file.doc, f.at)
      /\ \/ f.redacted
         \/ Tag(file.doc, f.at) = "plain"
         \/ Tag(file.doc, f.at) = "name" /\ ~PersonsKnown(file.doc)
      /\ f.at[1] \in {"head", "cell"} => f.label = f.at[Len(f.at)]

\* A secret stops the assessment wherever it stands: in a hidden row, column or
\* sheet, or in a picture, though none of these would be sent.  About the scan
\* of the complete population in sanitizeEvidenceSources.
SecretsStop ==
  AtModels =>
    \A file \in ToSet(run.sources) :
      \A at \in HeadPlaces(file.doc) \union CellPlaces(file.doc) \union PagePlaces(file) :
        Tag(file.doc, at) # "secret"

\* Nothing is missing without notice: of every source the models are given each
\* head and value that is not hidden and each page of text to the last one; a
\* page without text has been read by OCR, and so has a picture on a page of
\* text; sparse pages are left unread alone, or as a small part of a document.
\* About the page states of pdfService and the gate of validateEvidenceAcquisition.
NothingMissing ==
  AtModels =>
    \A file \in ToSet(run.sources) :
      LET doc == file.doc
          told == {f.at : f \in Facts(file)}
          unread == {p \in DOMAIN doc.pages : doc.pages[p].text = "sparse" /\ p \notin file.ocr}
      IN /\ {at \in HeadPlaces(doc) \union CellPlaces(doc) : ~Hidden(doc, at)} \subseteq told
         /\ \A p \in DOMAIN doc.pages :
              \/ <<"text", p>> \in told
              \/ doc.pages[p].text = "none" /\ <<"picture", p>> \in told
         /\ doc.kind = "pdf" =>
              /\ \A p \in DOMAIN doc.pages :
                   doc.pages[p].text = "full" /\ doc.pages[p].picture => <<"picture", p>> \in told
              /\ Cardinality(unread) > 1 =>
                   100 * Cardinality(unread) < SparsePercent * Len(doc.pages)

\* What the models must take as calculated from a complete population is: a
\* table of approved evidence hides nothing and is on a sheet that is not
\* hidden, and a trend, variation or association has the observations it needs.
\* About the counts of what xlsxCore projects away, which tableEligibilityReasons
\* and isDerivedEvidenceApprovedForPacket are all that is left to look at.
OfferedIsWhole ==
  AtModels =>
    \A i \in DOMAIN run.sources : \A item \in Approved(run.sources, i) :
      LET sheet == run.sources[i].doc.sheets[item.sheet]
      IN /\ ~sheet.hidden /\ sheet.covered \cap Columns(sheet) = {}
         /\ \A r \in DOMAIN sheet.rows : ~sheet.rows[r].hidden
         /\ item.analyzer \in {"trend_v1", "variation_v1", "association_v1"} => item.n >= MinObservations

\* A file that was read and kept stays until the user removes a file or resets
\* the session: the end of another selection, begun when the file was not yet
\* there, does not take it away.  About setFiles in handleFileSelect.
RetainedUnlessRemoved ==
  [][\/ IsPrefix(files, files')
     \/ Reset
     \/ \E i \in DOMAIN shown : RemoveFile(i)]_vars
=============================================================================
