# TLA+ models of the FinOps assessment engine

This directory models the parts of the engine that are hardest to test: how documents
are read and what of them may leave the browser, which of their text reaches a model, the
governed dispatch of model calls, the life and erasure of a run, the browser that drives
both, the way of one criterion's evidence from the scanner to the maturity score, what the
scores and the metrics of all criteria say together, the way of a strategy from its first
draft to the decision of the report, the delivery and the recovery of that report, and the
knowledge base. The modules are checked with TLC on small instances. The safety
properties that the passing runs check are also proved with TLAPS for every value of the
constants: any number of attempts, workers, cleaners, profiles, documents, domains, claims,
repairs and faults. So is that the dispatch implements its abstract ledger and the life of
a run its contract with the browser, and that the browser keeps to that contract. Liveness
is model-checked alone (section 4.11).

Paths below are relative to the repository root.

## 1. The system

A browser application runs an assessment pipeline over documents it has parsed and
redacted locally. Every model call goes through a control plane: a Node server
(`api/`, `lib/`), PostgreSQL (the authoritative ledger) and Redis (coordination keys,
results, checkpoints). In-process workers send the calls to the model providers.

### 1.1 Components, state, operations

| Component | Source | State | Operations |
|---|---|---|---|
| Attempt ledger | `lib/controlPlaneRepository.js` | `model_attempts`, `dispatch_outbox`, `stage_executions`, packet metadata and bodies | reserve, claim with a lease token, compare-and-set transitions, authorise, recover, list stale rows |
| Redis execution plane | `lib/redisExecutionPlane.js` | per run: tombstone, `keys` set, lease, send marker, result and checkpoint keys; the attempts stream | Lua scripts: child, lease, authorize, tombstone; XADD / XREAD |
| Execution worker | `lib/executionWorker.js:18-51` | the locals of each `process()`, a stream cursor | claim, read, lease, intent, mark, authorise, send, store, settle, heartbeat |
| Outbox publisher | `lib/executionWorker.js:52` | - | claim an outbox row, notify, mark published |
| Attempt reconciler | `lib/executionWorker.js:54-60` | - | requeue, recover a stored result, re-notify, mark in doubt |
| Run lifecycle | `lib/runLifecycleService.js`, `api/run.js` | `runs` (state, expiry, cleanup status), `cleanup_attempts` | create, suspend, resume, ready, acknowledge, complete, fail, delete, expire |
| Cleanup worker | `lib/runLifecycleService.js:11-15` | - | expire runs, claim a cleanup, tombstone, record evidence, prune |
| Checkpoints | `api/checkpoint.js` | `checkpoint_metadata`, Redis checkpoint keys | store then commit, list, read |
| Governed packets | `api/governed-packet.js`, `lib/governance.js` | packet metadata and bodies | screen, approve, bind |
| Provider gateway | `lib/providerGateway.js`, `api/*-generate.js`, `api/model-result.js` | one open response per request | reserve, poll the ledger, write frames |
| Stage client | `src/services/modelRouter.ts` | the fallback chain of one stage execution | approve, dispatch, stream, poll, fall back |
| Document intake | `src/App.tsx`, `src/services/pdfService.ts`, `xlsxCore.ts`, `tableService.ts`, `parseQualityService.ts`, `deterministicPrivacyService.ts` | the files as last set and as last rendered, selections being read | select, read, OCR, remove, reset, redact, scan for secrets, accept or refuse the assessment |
| Derived evidence | `src/services/derivedEvidence/*.ts`, `structuredDataAnalysisService.ts` | none | find columns, decide which items a table supports, approve items as facts |
| Source packets and retrieval | `src/services/sourceRegistryService.ts`, `boundedRetrievalService.ts`, `semanticGapRetrievalService.ts`, gap analyzers | one packet per domain, its expansions | route, fill, expand before and during the analysis, check |
| Phase-1 orchestrator | `src/orchestrator.ts` | batches, rescans, adjudications | all batches at once, each with up to two rescans and one retry |
| Evidence check | `src/services/evidenceCheckService.ts`, `evidenceSupport.ts`, `antiPatternSemantics.ts` | the verdict on each criterion, the audit log | verify, adjudicate, merge, reconcile with the source chunks |
| Gate before synthesis | `src/services/pipelineIntegrityService.ts` | none | accept the log, or stop the run |
| Assessment | `src/services/maturityModelService.ts`, `metricsService.ts`, `confidenceBracket.ts`, `domainSignalService.ts`, `acquisitionQualityService.ts`, selection in `tacticGroundingService.ts`, the audit part of `qualityGateService.ts` | the log of the run and what is computed from it | merge the domains, resolve and aggregate, decide on sufficiency, band and bracket, rows, snapshot and activated criteria |
| Strategy | Phase 3 in `src/services/analysisService.ts`, with `tacticGroundingService.ts`, `factCheckService.ts`, `strategySanitationService.ts`, `qualityGateService.ts` | the strategy, the claims accepted against each half, the lineage of sanitized claims, the gate | compose, regenerate IDs, ground, fact-check, repair, sanitize, repair required tactics, judge, escalate, decide |
| Analysis pipeline | `src/services/analysisService.ts` | the run's intermediate artefacts | acquisition, phases 1 and 2, synthesis, fact check, gate, delivery |
| Report delivery | `src/App.tsx`, `src/services/checkpoint*.ts`, `src/services/runLifecycleService.ts` | the screen, session and local storage, functions that wait | save, acknowledge, recover, import, reset, delete |
| Knowledge base | `api/kb-index.js`, `lib/kbIndex.js`, `src/knowledge_base/index.ts` | the blobs, a process-wide cache and its shared refresh, a document cache, the copy of a page | list, download, validate, serve fresh or stale, build packets |
| Deterministic analysis | the other `src/services/*.ts` | none (pure functions) | rendering, diagnostics |

`PROJECT.json` lists every component with what is modelled of it.

### 1.2 Interactions

- The browser asks `POST /api/governed-packet` for an approved packet, then posts it to a
  gateway, which reserves an attempt (one transaction: attempt and outbox row) and polls
  the ledger until the attempt is settled.
- The publisher moves outbox rows to a Redis stream that every worker reads from its
  first entry; the stream carries no authority. A worker *claims* the attempt in
  PostgreSQL, with a new token and a lease that a heartbeat renews.
- Two stores take part in the decision to send: the worker first writes a send marker in
  Redis (refused if the run is tombstoned, the lease is another's, or a marker is there)
  and then moves the attempt to `send_authorized` in PostgreSQL (refused unless state,
  token, lease and run still hold). Only then does the call leave.
- The answer goes to Redis first and to the ledger second. The reconciler repairs what a
  crash in between leaves.
- Ending a run only changes its row; the erasure (tombstone in Redis, evidence and
  deletions in PostgreSQL) is a job that requests and the cleanup worker compete for.
- A checkpoint is a Redis key and a PostgreSQL row, written in that order.
- The browser knows a run by its requests alone: what they promise it is `RunContract`.
  It keeps one run id in `localStorage` and one report in `sessionStorage`, and looks for
  a run to recover whenever the screen is empty.
- A selection of files is read in the background; the pipeline takes the files of the
  render in which it was started. Sources become chunks, chunks are routed to domains,
  and every later stage cites them by their ids.
- A page asks once for the knowledge base and keeps what it gets; all handlers of the
  server that find its cache old wait for the same refresh.

### 1.3 What is hard

Concurrency: every `await` of `process()`, of the reconciler, of a cleaner and of a
checkpoint request lets the others run, and what was read before it is used after it.
Failure: each await may throw before or after it took effect, a process may die at each,
leases run out under a stalled worker, stream entries are delivered again, keys reach
their TTL. Two stores: no transaction spans PostgreSQL and Redis. `PROJECT.json` lists the
places one by one under `hazards`.

### 1.4 What makes each component correct

- *Dispatch*: a provider is called at most once for an attempt; an attempt released to
  a fallback or cancelled has no call that ran or may run (unless the provider refused
  it); success is recorded only with an answer; doubt is never released; nothing is
  written to Redis after the tombstone; every attempt is settled in the end.
- *Run lifecycle*: the cleanup evidence matches the run; a verified run has nothing left
  that can be read; `deleted` is recorded only then; an ended run stays ended; every
  ended run is erased; a saved checkpoint stays readable while the run is open.
- *Stage client*: a profile is left only if its attempt is over or was not found in time;
  the text returned is the accepted one; at most one attempt is accepted. An attempt that was
  not found in time should never be sent, and can be (section 5).
- *Evidence check*: the gate accepts whatever went through check, merge and
  reconciliation; a score rests on assessed evidence that is found and bound; every
  downgrade is recorded; the exported verdict agrees with the log; a failed check never
  replaces a verified one.
- *Assessment*: the services that ask whether a criterion has evidence do not contradict
  each other; what could not be verified is neither scored nor acted on; doing better in
  one criterion never makes the organisation look worse.
- *Strategy*: an actionable report has every required tactic or a confirmed
  contraindication of it; each half of it was read by an accepted check; what was taken
  out stays out; a repair never makes the claims worse; the decision stays within the
  gate and the confidence.
- *Orchestrator and retrieval*: packets stay within their limit and keep the routed
  evidence; what a model was shown can be traced in an accepted run; a run ends.
- *Intake*: what reaches the models is all there is of a source that may leave, under the
  right heads, and nothing that may not; a secret anywhere stops the assessment; what was
  not read refuses it; a calculated fact rests on a complete table.
- *Report delivery*: a run is acknowledged (and erased) only once its report was on the
  screen; the last report can be opened again until the user discards it.
- *Knowledge base*: a healthy index is never replaced by another kind; a packet called
  ready is whole; in the end what is served is what is stored.

## 2. Modules

| Module | Models | Checked by |
|---|---|---|
| `AttemptLedger` | the abstract promise: one call per attempt, as ledger and provider see it | through `AttemptDispatch` and `StageClient` |
| `AttemptDispatch` | gateway reservation, publisher, workers, reconciler, PostgreSQL, Redis | `MCAttemptDispatch`, 3 runs |
| `AttemptDispatchProofs` | theorems about `AttemptDispatch`, and that it implements `AttemptLedger` | TLAPS |
| `RunContract` | the abstract promise of the server about one run | through `RunLifecycle` and `ReportDelivery` |
| `RunLifecycle` | run row, cleanup claims and evidence, checkpoints, packets | 1 run |
| `RunLifecycleProofs` | theorems about `RunLifecycle`, and that it implements `RunContract` | TLAPS |
| `StageClient` | the browser's fallback chain and the gateway over `AttemptLedger` | 2 runs |
| `CriterionEvidence` | scan, check, adjudication, rescans, merge, reconciliation, gate and score of one criterion | through `Assessment` |
| `Assessment` | `CriterionEvidence` continued: the log of all criteria, maturity, metrics, sufficiency, bracket, rows, snapshot, activated criteria, the gate's audit part | `MCAssessment`, 1 run |
| `AssessmentProofs` | theorems about `CriterionEvidence` and `Assessment` | TLAPS |
| `StrategySynthesis` | composing, grounding, fact-check and repairs, sanitation, gate, escalation and decision of one strategy | `MCStrategySynthesis`, 1 run |
| `StrategySynthesisProofs` | theorems about `StrategySynthesis` | TLAPS |
| `ReportDelivery` | the tab: pipeline ends, effects, recovery, confirmation, storage, crashes, over `RunContract` | 1 run |
| `BrowserProofs` | theorems about `StageClient` and `ReportDelivery`, and that the latter keeps `RunContract` | TLAPS |
| `KnowledgeBase` | blob store, index handler and refresh, pages and their packets | `MCKnowledgeBase`, 1 run |
| `EvidenceRetrieval` | packets of the domains, their expansions, attempts and passes, the effective packets | `MCEvidenceRetrieval`, 1 run |
| `ModelContextProofs` | theorems about `EvidenceRetrieval` and `KnowledgeBase` | TLAPS |
| `SourceDocuments` | operators: pages, workbooks, privacy, completeness | through `EvidenceIntake` |
| `DerivedEvidence` | operators: the analyzers of tables and the approval of their items | through `EvidenceIntake` |
| `EvidenceIntake` | the screen's files and selections, and an assessment up to its first model | `MCEvidenceIntake`, 1 run |
| `EvidenceIntakeProofs` | theorems about `EvidenceIntake`, `SourceDocuments` and `DerivedEvidence` | TLAPS |
| `LoopsAndSums` | lemmas on loops and sums, for `AssessmentProofs` and `ModelContextProofs` | TLAPS |

### 2.1 AttemptDispatch

One run with its attempts. The variables are the columns and keys, one function per
column (`state`, `token`, `outbox`, `body`, `accepted`, `redisLease`, `marker`, ...), the
locals of each worker (`job`, `held`, `snap`, `to`) and of the reconciler (`rjob`,
`rsnap`), and what the provider saw (`call`, `sends`). `leased` is the set of attempts
whose `lease_until` lies in the future.

- One SQL statement or transaction is one action, one Lua script is one action.
- `process()` is cut at every await. `pc[w]` names the await the worker is about to
  issue: `read`, `lease`, `intent`, `markRedis`, `authorize`, `send`, `await`, `store`,
  `settle`. The synchronous checks after an await belong to the action of that await.
- Every await can throw (`*Throws`), before or after its effect where that differs, and a
  worker can die at each (`Crash`); a restarted worker reads the stream from its start. A
  recovery of the reconciler that throws is swallowed, and the tick goes on with the send
  marker of the same candidate (`GoesOnWithout`).
- `owner` is left out: `claimAttempt` makes a new `lease_token` for every claim, so the
  token alone tells claims apart. The tokens are numbered by the order of the claims.
- What depends on a clock (leases, `expires_at`, TTLs, the queue wait, the run's expiry)
  may happen at any point. The one relation between two clocks that is kept: the Redis
  lease key outlives the PostgreSQL lease by five seconds, so it cannot expire first. The 30
  minutes in which an attempt in doubt is listed (`controlPlaneRepository.js:150`) are the
  lifetime of its result (`controlPlanePolicy.js:4`) and many ticks of the reconciler; `Candidate`
  has no such window.
- The packet binding and the destination policy are data checks: `ReadAttempt` may refuse
  a packet (`cancelled`) at any time.
- The run appears with what the dispatch reads of it: `runState` (the terminal states
  taken together), `expiry`, `tombstoned`, `body`. Its own rules are in `RunLifecycle`.

### 2.2 AttemptLedger

The abstract specification has two variables, `ledger` and `call`. `AttemptDispatch`
implements it under the mapping `ledger <- state`, `call <- clearedCall`, where a worker
that has been authorised and has not sent yet holds a *cleared* call.

### 2.3 RunLifecycle

One run with its packets, its checkpoints, any number of *cleaners* (a request that ends
the run, or a tick of the cleanup worker) and one request per checkpoint.

- `evidence[i]` is the status of the i-th row of `cleanup_attempts`; `aged` holds the
  rows older than the minute after which they count as abandoned.
- A cleaner has the awaits `claim`, `tombstone`, `record` and `retry`; a checkpoint
  request `check`, `store`, `commit`, `unlist`, `delete`. `removeCheckpoint` is two Redis
  commands (`SREM`, then `DEL`), and two actions.
- `recordCleanupEvidence('verified')` is one transaction over the evidence, the run, the
  packets, their bodies and the checkpoint rows, and one action.
- Each command that ends the run takes its state from the statement's `CASE`.

### 2.4 StageClient

One `runStage` over a chain of profiles. The browser, each gateway request and each
attempt are separate actors; what happens to a reserved attempt is any behaviour of
`AttemptLedger`, which `AttemptDispatch` implements. The request of a profile goes on
after the browser has given up on it, and may reserve its attempt at any later time: the
grace time after which the browser takes an attempt for absent (`TakeForAbsent`) says
nothing about the server. `absent` belongs to the properties: the profiles that were left
so. The check of a returned text against the packet
(`validOutput`) repeats on the same bytes what the server checked and is left out; the
caller's `validateOutput` is kept as a choice.

### 2.5 CriterionEvidence

One criterion of one stream, from `runSingleBatch` to `resolveCapability` or
`resolveAntipattern`. `scan` is the scanner's item in `batchResult`, `verdict` the item of
`evidenceCheck`, `entry` the item of `phase_1_audit_logs`, `adjustment` its adjustment,
`before` its `preRescanCounts`. Each call to a model is an action; what happens to its
answer is a chain of operators named for the function they translate (`Verdict`,
`Adjudicated`, `Applied`, `Reconciled`, `Resolution`).

- An answer is any record that passes the code's own checks (`ValidScanItem`,
  `ValidVerifierItem`); what it says beyond that is a choice.
- Texts appear by the questions the code asks of them: `support` is what the text search
  finds, `bound` and `stray` whether quotes are bound to their chunks, `Words` what
  `hasAntiPatternPresenceSignal` and the "not assessed" test find. Support and binding
  are independent: the packet shows XML-escaped text, the binding compares with the text
  as it was read, so a quote with `&`, `<`, `>` or `"` can satisfy only one of them.
- The nine other criteria of the batch appear by what they share: an adjudication fails,
  or a rescan is asked for, because of any of them.

### 2.6 Assessment

`Assessment` extends `CriterionEvidence`: its `Next` is the step `Batch`, and after the gate
four steps follow the criterion through the rest of Phases 1 and 2, `Accept` (the gate and
`validateItem`), `Assemble` (`mergeEvidenceCheckResults`, `validatePhase1Output`),
`Calculate` (`calculateMetrics`, the bracket, `autoEscalate`) and `Plan` (the tactic
selection, what `runQualityGate` finds in the audit).

- The other criteria are in the state that one of the `Companies` gives them; that each of
  their items is what the code leaves of some answer and verdict is the assumption
  `SamplesAssumption` of `MCAssessment`, which TLC evaluates. What the theorems need of them
  is less (`Consistent` in `AssessmentAssumption`): a direct quote is bound, an item that was
  not verified is unresolved, and a capability is silent when it was not assessed. The
  followed criterion has this from the code's own steps, which is proved.
- Five services ask of an item whether it has evidence, in different words:
  `Resolution` (maturity model), `Verified` (metrics), `RowAssessed` (domain rows), `Covered`
  (acquisition snapshot), `Findings` (tactic selection). `CoverageNests` relates them.
- Numbers: counts are thirds, credits halves, maturity units of 1/10000 with the square
  root taken in integers. Maturity and resolution are rounded to tenths of a percent, all
  other shares to whole ones. The code keeps three of `calculateMetrics` exact (burden, depth,
  share of zeroes): the thresholds on them, `heavy` and `mostlyZero`, compare exact values.
  Pair weights are all 1, as in the registry; `interaction_strength` is in percent.
- Left out: category scores and footprints, the texts of findings and gaps, the explanation
  of the gate, in the snapshot the diversity of sources and the provenance paths.

### 2.7 StrategySynthesis

Phase 3 of one run, from what Phase 2 hands over (`low`, `dense`) to the planning decision.
`draft` is the strategy inside `callPhase3Validated`, `strategy` the accepted one, `check`
the two halves of `acceptedFactChecks`, `unsupported` and `sanitized` the claims of
`factCheck`, `review` the disposition that `classifyFinalRequiredTactics` would find for
each required tactic, `notes` the grounding adjustments. Each call of `callPhase3`, of
`runFactCheck` and of the gate is an action, with what the code does to its answer.

- A summary (with the diagnosis) is the set of the statements it makes, a roadmap the set
  of its actions. A statement or an action is a model value of which the code asks three
  things: which tactic it cites (one at most), whether grounding withholds it, and whether
  a claim quotes it so that sanitation finds it. There is one claim per text and check.
- A rejected tactic ID is taken out of an action, which stays: all such actions become
  the one action `Bare`.
- The answers of the models are any that the contracts let through. The second answer
  that `withOneOutputRegeneration` asks for has no state of its own and is the same choice.
- Sanitation cleans every string of the strategy that quotes a claim
  (`strategySanitationService.ts:226`, 248, 257), `Cleaned` the half that the claim is about: by
  `StrategyAssumption` no text stands in both.
- The claims on the planning decision, the length checks of the summaries and the case
  studies are left out. MEDIUM and HIGH differ in their prompts only and are one bracket.
- `other` is what the gate finds in the audit itself. Nothing in Phase 3 changes it, so
  it is chosen when the gate reads it; a density below the floor blocks.
- `rewritten`, `fresh`, `rejected` and a strategy's `out` belong to the properties: which
  parts are new since an accepted check, whether a candidate was rejected, and what
  grounding withheld.
- Checkpoints of Phase 3 cannot fail the run (`analysisService.ts:280-289`) and are left out.

### 2.8 RunContract

What `api/run.js` and `api/checkpoint.js` promise a browser about one run: the states it
goes through, the checkpoints a reader gets back (`kept`), the deadline, and the erasure.
`RunLifecycle` implements it (`KeepsContract`) with `kept` the checkpoints whose row and
content are both there, `ReportDelivery` relies on it (`RunsKeepContract`): each step its
browser makes a server take is one of the contract's, for every run. So what a browser
sees of a run in `ReportDelivery` is what `RunLifecycle` can do, cleaners, failures and
checkpoint requests included.

### 2.9 ReportDelivery

One tab of `App`. The code between two awaits is one step, and so are the effects that it
causes: React runs the effects of a render before the next event, and every step states
after its own changes which effects run (`Recovering`, `Confirming`, `SavedByEffect`).

- `pipeline` is `runAnalyze` with `analyzeDocument` inside it; `recoveries` and
  `confirmations` are the runs of the two effects that talk to the server, each cut at
  its awaits. They outlive what started them, as in the code: a reset, a new analysis or
  a reload of the screen does not stop a function that waits.
- A reload or a closed tab drops the functions and leaves their requests on the way
  (`requests`). `localStorage` and `sessionStorage` survive a reload, `sessionStorage`
  does not survive the tab.
- A report is its run, whether it is complete, and whether the user has edited it or had
  names taken out (`EditReport`). `shown` and `last` belong to the properties.
- A session storage that is full refuses reports; the note of a crash, which is short, it
  may take or refuse. Checkpoints are the four the recovery reads; the others fill in a partial
  report.
- Left out: the deadline (`late = FALSE`; a run can expire at any time all the same), the
  run id inside an imported report, a second tab.

### 2.10 KnowledgeBase

The blob store, the one process with its cache, and pages. `refresh` is `buildRemoteIndex`
cut at the listings and downloads, with the store changing in between; handlers that wait
for it go on in the step that ends it (they read the cache after the same microtask).
A content is the front matter, the size and the flaws of its extraction, and the lengths
of its sections. `Shadow` and `Ready` are `buildShadowKnowledgePacket`. Ages of
caches are classes below, between and beyond the two TTLs. Whether the cache is healthy is
read when the refresh ends, and in the code before it is awaited (`kb-index.js:269`): only the
handlers that wait for one refresh write the cache, so the two are the same. The store holds
documents only; a listing of the code counts other blobs against its limit too. The batch a
packet is for and the sections on anti-patterns beside a criterion's own are left out
(`index.ts:320`, 365-368).

### 2.11 EvidenceRetrieval

`first`, `packet` and `effective` are the packet a domain starts with, the one its
analysis works on, and the one quotes are traced to. A chunk is its length, its tier for
each domain and what its text holds of gaps, missing items, criteria and search terms. The
expansion before the analysis, each scan, check, expansion and rescan, the failure of a
batch (in its first scan or in an expansion, before or after that has made its packet) and
its second attempt are actions; the domains interleave. The scores by which
candidates of one tier are ordered are the order of the corpus. The operators on packets
take the registry as a parameter, so that the lemmas about them speak of any registry.

### 2.12 SourceDocuments and DerivedEvidence

Operators only. A piece of a document is its tag (`plain`, `personal`, `secret`, or a
`name` that only a head such as "owner" reveals) at a place (page, head or cell), so that
what is redacted, projected, scanned, chunked and analysed can be compared place by place
although the code numbers rows and columns anew at each stage. `DerivedEvidence` has every
analyzer with the conditions under which it makes an item; statistics, bands and the
scores of matching heads are left out (the first match is taken). Cadences and named items
declared in cells are left out, and so are tab-separated files with ragged rows: a row is as
wide as the head. What is visible of a sheet is a set of positions and its order
(`InOrder`), which says for any sheet what a filter over it leaves.

### 2.13 EvidenceIntake

`files` are the files as last set, `shown` as last rendered: handlers close over `shown`,
updates by function see `files`. `uploads` are the selections being read, file by file.
`Examine` is `analyzeDocument` up to the first model: sanitation, secret scan, registry,
acquisition gate, derived evidence. A login takes time: the assessment it starts has the
files of the rendering in which the password was sent (`unlocking`), and an answer may come
to a dialog that was closed, or asked again. A click finds the screen rendered; the timer of the
relevance scan may be late. The relevance scan never refuses a text that is not empty.

## 3. Runs

| Run | Bounds | What it shows |
|---|---|---|
| `DispatchRace` | 1 attempt, 2 workers, 3 claims, 1 fault | at-most-once, no release of a sent attempt, nothing after the tombstone, and the dispatch implements `AttemptLedger` |
| `DispatchLiveness` | 1 attempt, 1 worker, 3 claims, 1 fault | every reserved attempt is settled; a stored result is recovered |
| `RunLifecycle` | 1 packet, 1 checkpoint, 2 cleaners, 3 claims, 2 faults | evidence, erasure, recoverable checkpoints, the contract, every ended run is erased, no run outlives its deadline |
| `StageClient` | chain of 3, 2 faults | no profile is left whose attempt was found and is not over, the answer is the accepted one |
| `Assessment` | 2 rescans, both streams, all answers, 6 pairs in 2 domains, 9 companies | earned score, downgrades and exported verdict agree, coverage nests, unverified is not actionable, better never harms, every criterion reaches the log |
| `StrategySynthesis` | 2 statements, 5 actions, 2 required tactics, 1 regeneration, 2 repairs, 1 claim per check | required tactics, decision, the summary is checked, the report can be traced (restored actions, notes), lineage, no repair makes it worse |
| `ReportDelivery` | 2 runs, 2 mishaps, 1 turn of the user | nothing is acknowledged unseen, the last report stays with the user's edits, requests keep the contract |
| `KnowledgeBase` | 3 blobs, listings of 2, 1 change, 2 faults, 1 page | healthy index kept, ready packets whole, served is stored |
| `EvidenceRetrieval` | 2 domains, 7 corpora of up to 5 chunks, 2 attempts, 2 passes | packets keep routed evidence and limit, shown is traceable, every run ends |
| `EvidenceIntake` | 12 selections of 1 to 3 documents, 2 at a time, 2 assessments, 2 to 4 files | withheld stays local, secrets stop, nothing missing, calculated facts whole, files kept |
| `DispatchStaleRead` | as `DispatchRace`, `PromptRead = FALSE` | finding 1 |
| `StageLateRequest` | chain of 2, no fault | finding 2 |

Why the bounds are enough. The attempts of a run share only the run row, the packet
checks and the stage execution; the rules about one attempt mention no other, and the
proofs cover any number. Two workers are the smallest number that race; a third adds no
new pair. A second claim needs the first lease to be lost, and a third claim lets a
worker come back after two others. One fault is enough to reach each of the places where
a step takes effect and its answer is lost; the theorems drop the bound. In
`RunLifecycle` each cleanup claim after the first needs a fault, so three claims go with
two faults. A chain has two profiles in the policy today; three shows what lies beyond.
`Assessment` has the bounds of the code for one criterion: counts from 0 to 3, two rescans,
every answer and verdict. Around it stand five pairs in its domain, so that one criterion of
them is exactly the tenth that makes a domain silent, and a pair in another, with three
interaction strengths; the nine companies range from all silent to all proven, each with
what makes one threshold decide (refused and declared items, an unchecked or undecided
one, harmful ones). Thresholds that count criteria are scaled from 30 to 6: 10, 15, 15 and
5 become 2, 3, 3 and 1; those in percent are the code's.
`StrategySynthesis` has the two repairs of the code and one regeneration instead of two: the
second is the first again. Its two required tactics let one be lost while the other
stays, with an action that grounding keeps and one that it withholds; a statement and an
action cite an unknown ID, so that either half can be invalid. One claim per check keeps
the claims on the two halves apart from those of one check: both halves can have one. The
theorems cover any texts, tactics, claims and repairs. `ReportDelivery` has two runs because
an old function can act on a newer run only if there are two, and two mishaps because a
first one creates what a second one disturbs (a lost acknowledgement, then a reload while
its recovery is under way). In `KnowledgeBase` a third blob exceeds a listing, an index
and the expected keys at once, and two of its names stand for one key. The limits of
`EvidenceRetrieval` are those of the code divided by about six thousand characters, with
chunks chosen so that each limit, tier and stop decides something; 5 points of gain become
25 because a domain has four chunks where the code has dozens. The documents of
`EvidenceIntake` have one hidden thing each (row, column, sheet, or the head that would
reveal a name), a page of every kind, one secret in each place, and tables on which every
analyzer has something to say; two selections at a time is what can overlap. Three
observations stand for six, three pages for a hundred.

Fairness (`DispatchLiveness`, `RunLifecycle`, `Assessment`, `KnowledgeBase`,
`EvidenceRetrieval`). Publisher, worker loop, reconciler and
cleanup worker are timed loops that run until the process stops: weak fairness of their
steps. A provider call has a timeout and a lease nobody renews runs out: weak fairness of
`ProviderReturns` and `LeaseExpires`. A reconciler tick visits every candidate it listed,
so an attempt that is a candidate again and again is picked: strong fairness of
`PickCandidate`. Nothing forces a browser, a request or a fault. In the cleanup, the loop
lists a candidate and goes on with it: weak fairness of listing, of each cleaner's steps
and of the minute that ages an abandoned claim. Every model call has a deadline, so a batch
always goes on: weak fairness of `Batch`, `Accept` and `Assemble` together in
`Assessment`, of each domain's analysis
and of the two ends in `EvidenceRetrieval`. In `KnowledgeBase` downloads end and time
passes (weak fairness), and a page is opened again and again (strong fairness of
`Reload`): without a reader nothing refreshes the cache. `RunLifecycle` has one run, so it does not
show that a run is reached behind twenty others that fail (`LIMIT 20`).

## 4. Proofs

Everything below holds for every value of the constants. The assumptions are the `ASSUME`s
of the modules: the constants have their types, bounds are numbers, and sets that are
counted are finite (`Pairs`, `Terms`, `Statements`, `Actions`), and no number is mistaken for the
absence of one (`None \notin Nat`). Three say more: the target of
a packet lies within its hard limit (`RetrievalAssumption`), the other criteria of a run are
what the code leaves of any answer (`AssessmentAssumption`, section 2.6), and the texts of
the two halves of a strategy differ (`StrategyAssumption`). Two theorems on the dispatch
have a hypothesis about time, which is named there.

The runs check some of the proved properties and leave others to the proofs: type
correctness (`TypeOK` of the modules below), `AcceptedAnswered`, `DoubtNeverReleased`,
`DeletedVerified`, `EndIsFinal`, `AcceptedOnce`, `GateHolds`, `CheckStays`, `RepairLocks` and
`ContextWhole` are stated and proved and no longer repeated in a run; TLC checked each of them
before it was proved.

### 4.1 AttemptDispatchProofs

- `TypeCorrect`: `Spec => []TypeOK`. `DispatchInvariant`: `Spec => []IInv`.
- `AtMostOnceSafe`, `AcceptedAnsweredSafe`, `TombstoneSafe`, `DoubtSafe`: the properties
  of the same names.
- `ReleasedUnsentSafe`: `ReleasedUnsent` under `PromptRead = TRUE` (a `getAttempt` answers
  within the lease it follows). `DispatchStaleRead` shows that this is needed.

None of the properties is inductive. The invariant joins `TypeOK`, the properties and:

- `Claims`: who knows what. A worker's token is at most the attempt's, and two workers
  never hold the same token of an attempt.
- `Sender`, `Calls`: a worker between `authorize` and `settle` is the only one that has been
  authorised for its attempt, because `dispatch_intent -> send_authorized` happens once
  and nothing returns to `dispatch_intent`; `call` and `sends` follow its position. This
  carries at-most-once.
- `Answers`: whoever is about to record a success has an answer to record.
- `Releases`: a pending `settle` to `fallback_allowed` or `cancelled` starts from a state
  in which nothing was sent. This is where `PromptRead` is needed: with a stale `snap` the
  pending transition starts from `send_authorized`.

One lemma per conjunct shows that each action preserves it; `NextCases` splits `Next`,
and `ElsewhereFrame` gathers the steps that leave a conjunct's variables alone.
`CompareAndSetEffect` and `NoReturn` say what `transitionAttempt` can do.

The last part of the module is the refinement, `DispatchImplementsLedger`:
`Spec => ImplementsLedger` under `PromptRead = TRUE`. Every
step of a worker or the reconciler is one step of `AttemptLedger` or leaves `state` and
`clearedCall` alone: `recordIntent` is `Prepare`, `authorizeAttempt` is `Authorize`, a crash
between authorisation and call is `Abandon`, a settle is `Accept`, `Lose`, `Release` or
`Doubt`. `Calls` says what the mapped call is, `Answers` and `Releases` that the step's
guard holds in the ledger.

### 4.2 RunLifecycleProofs

`LifecycleTypeCorrect`, `EvidenceSafe`, `ErasureSafe`, `DeletionSafe`, `SavedSafe` and
`EndSafe`: the type invariant and all five safety properties of `RunLifecycle`, with no
assumption about time. The invariant adds to the properties:

- `OneAttempt`: `EvidenceMatches` without counting, and the claims are numbered. A claim
  that is taken over closes the old attempt in the same statement.
- `Tombstones`: only an ended run is tombstoned, a tombstoned run lists no key, and a
  cleaner at `record` has tombstoned. This is what a verified cleanup rests on.
- `Kept`: the content of a checkpoint is in Redis before its row is committed.

`LifecycleKeepsContract`: `Spec => KeepsContract`, the refinement of `RunContract` under the
mapping of section 2.8. A request that moves the run, its clock and the sweep are the
contract's steps of the same name or repeat one (`ContractRunStep`); of a cleaner's other
steps the tombstone is `Forget` and the record of a verified cleanup `Erase`
(`ContractCleanerStep`); of a checkpoint request the commit is `Save`, because its content is
there (`Kept`), and nothing else shows (`ContractWriterStep`).

### 4.3 BrowserProofs: the stage client

`StageTypeCorrect`, `OneAtATimeSafe`, `AnswerSafe` and `AcceptedOnceSafe`, for a chain of any
length and with no assumption about time: a request may reserve its attempt at any moment
after the browser sent it. The invariant (`StageIInv`) says that the call follows the
ledger (`CallFollows`), that a response says what the ledger says (`ResponseFollows`), that a
profile is left only when its attempt can do nothing any more, or as absent (`InTurn`), that
the accepted attempt has succeeded, as has no other that was not left as absent
(`AcceptedFollows`), and that a returned text is that of an attempt that succeeded
(`TextFollows`). `EarlierIsAbsent` is where the exception enters: of two attempts that are
both engaged the browser has left the earlier, by `InTurn` as absent. What the exception
costs is not for the proofs to say: `StageLateRequest` shows it (section 5).

### 4.4 AssessmentProofs

Two specifications, one after the other. For the batch of one criterion
(`CriterionEvidence`): `EvidenceTypeCorrect`, `GateSafe`, `ScoreSafe`, `DowngradeSafe`,
`ExportSafe`, `RecordSafe` and `CheckSafe`, the type invariant and all its safety properties,
for any number of rescans (`RecordFollows` joins `DowngradeRecorded` and `ExportFollows`).
They are claims about the state after the reconciliation, which the invariant prepares:

- `AtHand`: until the reconciliation, the last verdict fits the scanner item it was given
  on (`Fits`): it never exceeds the item's count, owns up to a count it did not confirm,
  is assessed as the item is, and takes no credit while undecided. A rescan replaces item
  and verdict together, or neither; this is what keeps the two from drifting apart.
- `Rescanned`: a check that failed is not followed by a rescan, so a verdict that was
  never given was never compared with an earlier count.
- `MergeMatches`: what the merge leaves is what `Applied` and `Adjustment` say.

The lemmas `VerdictFits` to `AdjudicatedFits` show that each source of a verdict makes one
that fits, `AppliedMerged` what the merge makes of such a verdict, and `QuotedAccepted`,
`UnboundAccepted`, `ScoreFollows`, `AdjustmentFollows` and `ExportAgrees` that the
reconciliation turns that into what the properties claim.

For the assessment that continues it (`Assessment`): `AssessmentInvariant`, `CoverageSafe`,
`UnverifiedSafe`, `BetterSafe`, `AssessmentScoreSafe` and `AssessmentRecordSafe`, for any
set of criteria, any pairing into domains, strengths and thresholds, and whatever the other criteria are. The
invariant `AInv` follows the criterion on its way: `Collected` (the batch's invariant, and an
undecided verdict has failed the check), `Followed` (its sanitized item is `Consistent`),
`Logged` (so is every item of the log, and a doubt about any has failed the run's check),
`Computed` and `Planned` (metrics, bracket, activated criteria and the gate's audit part
are of this log). The other lemmas are about the operators: `Division` to `SharePercent` on
rounding, `Registry`, `DensityCounts` and `StreamCovers` on what the counts of two services
have in common, `ScoreTakes`, `ResolvedVerified` and `VerifiedCovered` on what they ask of one item,
and `LogNests` and `LogSafe`, which put them together for a whole log. The last conjunct of
`CoverageNests` is the one that decides something: a classification needs 30 percent of the
criteria resolved, rounded to tenths, and the gate a density of 30, rounded to whole
percents; that the one implies the other is shown for every number of criteria, not only
the registry's.

`BetterSafe` (`BetterNeverHarms`) compares two logs, one of which has the followed criterion
one step better. The comparison goes up with the numbers, one lemma for each of them:

- One item: `CapabilityNoWorse` and `AntipatternNoWorse` say that every service sees the better
  item as no worse (`NoWorse`) and resolves it if it resolved the other. This needs a
  conjunct of the invariant: the followed item has no quote that is not bound (`Followed`,
  `Logged`). A capability with none but such quotes is resolved and still insufficient.
- One log: `BetterRises` says so of all criteria (`Rises`), since the others stay.
- Arithmetic: quotients and percentages, rounded as the code rounds them, are monotone
  (`QuotientRises` to `PercentFalls`), and so is the square root, which the model takes digit by
  digit (`RootIs`: the largest number whose square is not above the given one). The code takes
  it in floating point.
- Aggregates: `PairRises` for the geometric mean of a pair, `AggregateRises` and `MaturityRises`
  for weighted means over the same resolved pairs, `BandRises` for the classification.
- The other readers: `TallyImproves` (burden, depth, findings), `RowImproves`, `SnapshotImproves`
  and `JudgementImproves`. An anti-pattern that was not eligible for the burden may become
  so, at no weight; `BurdenFalls` shows that the percentage falls then too.

### 4.5 StrategySynthesisProofs

`StrategyTypeCorrect`, `RequiredSettledSafe`, `DecisionSafe`, `RestoredSafe`,
`SummarySafe`, `NotesSafe`, `TracesSafe`, `LineageSafe`, `RepairLocksSafe` and
`NeverWorseSafe`: all properties of `StrategySynthesis`, for any finite sets of texts and any
tactics, claims and repairs
(`ReportTraces` joins `OnlyRepairRestores` and `NotesMatch`). The
properties speak of the end of a run; the invariant says what each stage has for it:

- `Stages`: from the first check on there is a strategy; the loop has passes left and a
  completed check; LOW is never repaired.
- `ClaimsKept`: the claims of each half are about that half, and until the sanitation the
  gate's claims are the accepted ones. Once it is done, no accepted claim on the summary
  can be found there again: this is why the repair, which sanitizes those claims once
  more, leaves the summary as it is.
- `RoadmapsFounded`: until the sanitation a roadmap is grounded and has the required
  tactics. A sanitation that took nothing out therefore never leads to a repair, which is
  why a GO never stands on a repaired roadmap (`TakenOut`).
- `SummaryRead`: a summary that is composed anew is in the scope of the check that follows.
  Its like for the roadmap does not hold (section 5).
- `GateFollows`, `NotesFollow`: what the gate's decision and the notes say of the strategy.

`ComposedFits` to `CleanFits` say what the operators return, `DraftStep`, `CheckStep` and
`CleanStep` what the actions that share them do, and one lemma per group of actions
(`DraftKeeps` to `FinishKeeps`) that it keeps each part of the invariant.

`NeverWorseSafe` rests on counting: there are finitely many claims (`ClaimsFinite`), claims
on the half that was not checked are on other texts and the same before and after
(`ScopeClaims`), and adding the same claims to both sides of a comparison does not change
it (`ImprovesBeside`). A candidate accepted because it improves on its scope therefore
improves on the whole (`ScopeImproves`).

### 4.6 BrowserProofs: the delivery of reports

`DeliveryTypeCorrect`, `DeliveryKeepsReport` (`LastReportKept`), `DeliverySafe`
(`AcknowledgedShown`) and `DeliveryKeepsContract` (`RunsKeepContract`), for any runs, mishaps and
turns of the user. The invariant is `TypeOK` and

- `Known`: whatever the tab holds is of a run that was created, and what is on the screen
  or saved has been on the screen.
- `Saved`: unless the storage refuses reports, the last report is the saved one, and the
  recovery view has no other. What an old function puts on the screen when it ends late
  is saved by the effects of the same step, which is why `LastReportKept` survives it.
- `Acknowledging`: whoever is about to acknowledge a run, be it the pipeline, a recovery, a
  confirmation or a request that outlived its tab, has shown a report of it; and a report
  in part was shown only when no final one was left to read.

`ShowEffects` and `QuietEffects` say what the effects after a step do. For the contract,
`ServerChanges` says that a step does nothing to the server, makes it serve one request, or
is the server's own; `ServeContract` and `OwnContract` that each is a step of `RunContract` or
repeats one; `OneRunAtATime` that the other runs do not notice.

### 4.7 EvidenceIntakeProofs

`IntakeTypeCorrect`, `WithheldSafe`, `SecretsSafe`, `MissingSafe`, `OfferedSafe` and
`RetainedSafe`: the types and all properties of `EvidenceIntake`, for any documents,
selections and limits. The invariant is
`TypeOK`, `Sound` (whatever is held, read or examined was kept by its reader) and `Examined`
(at the models, the verdict on the sources was to accept them). The weight is in the lemmas
on the operators of `SourceDocuments` and `DerivedEvidence`, which go place by place:

- `InOrderFits`, `SheetRead`, `TablesAre`: the rows and columns of a table are the visible ones
  of its sheet, in their order and each once.
- `FactsAre`, `FactsClear`: a fact of a chunk is at a place that is not hidden, says what is
  there, and is redacted where that is personal or under a head that reveals a name.
- `NothingLeftOut`, `PagesAreRead`: the other direction, every visible place of a source that
  was accepted has its fact; `PlacesTold` joins the two.
- `ViewFits`, `ItemsJustified`, `NothingHidden`, `ApprovedIsWhole`: an item of an analyzer that is
  approved is of a table in which nothing is hidden, cut off or withheld.

### 4.8 ModelContextProofs: the packets of evidence

`RetrievalTypeCorrect`, `EvidenceKept` (`DirectEvidenceKept`) and `ShownTraceable`
(`ShownIsTraceable`), for any registry, domains, terms, limits, attempts and passes. A
packet is filled by a loop, which the model writes as a recursive function; section 4.10
has the lemmas about those. `LengthAdds` says that the length of a packet is the sum of its
chunks; `GrowsHeld` that a sequence that grows by what fits stays in its limit, has no chunk
twice and keeps what it began with. That candidates come once each, although their order
mixes tier and position, is `Ranks` and `CandidatesFit`. `RoutedHeld`, `ExpandedHeld` and
`SearchHeld` say so of the three ways a packet is made. The invariant `RInv` is `TypeOK` and

- `Packed`: every packet is within the limit, of chunks of the registry, each once.
- `Kept`: the routed evidence is in front of the first packet and the first in front of
  the expanded one, which only grows; while domains are analysed the first are effective.
- `Traced`: what was shown, from the first packet or an expanded one, in this attempt or a
  failed one, is in the expanded packet, and an accepted run has made that effective.
- `Searching`: a search is only under way in a pass that is left.

### 4.9 ModelContextProofs: the knowledge base

`KnowledgeTypeCorrect`, `KnowledgeSound`, `ContextIsWhole` (`ContextWhole`), `HealthyIsKept`
(`HealthyKept`) and `ReadyIsWhole` (`ReadyWhole`), for any paths, contents, keys and limits,
and any number of changes, faults and pages. The invariant `KnowledgeInvariant` is the types
and three statements, which follow a document from the listing to a page:

- `RefreshSound`: the refresh has valid documents that fit the index; what it has and what
  it has still to fetch are apart and together all that was listed.
- `PayloadSound`, of the cache and of every page: valid documents that fit the index, and
  all that were listed unless the payload says that something failed.
- A document in the document cache is valid, so a refresh that takes it from there is as
  good as one that fetches it.

`IndexGrows` says what one more document adds to the size of an index, `ListedIs` what a
listing returns, and `ListBlobsSafe` to `ProcessRestartsSafe` that each action keeps the
invariant. `HealthyIsKept` is a claim about steps: a handler writes the cache only through
`Finish`, and that takes an unhealthy index only where no healthy one is.

`ReadyIsWhole` is about the packet that a stage makes of an index. `SlotsAre` says that the
slots go through every part of the stage; `WithPartIs` that one turn of the loop takes a part
that is there, or notes that it was left out; `ShadowIs` that what was taken and what was
noted are together all the parts there are, within the limit of the packet. `CoveredCounts` shows that
as many documents as keys, with every key covered, is one document for each key.

### 4.10 LoopsAndSums

A loop is written as a function on the turns, and a sum over a set with `SumFunction` of
the community modules, which takes the members in an order that `CHOOSE` gives. Neither
comes with the fact that such a function exists. `Recursion` and `StepsUpTo` show it for
loops, from the well-founded order of the numbers. For sums, `SumExists` adds one member with
each turn of a loop, `SumTakes` says that any member may be taken first, `SumsAgree` that two
sums agree on the members they share, and from these come the two lemmas that the other
proofs cite: `SumAdds` (what one more member adds) and `SumsCompare`
(a sum of larger terms is not smaller).

### 4.11 Only model-checked

- Liveness: `EverySettles`, `ResultRecovered`, `EndedErased`, `DeadlineEnds`, `Assembled`,
  `ServesCurrent`, `RunEnds`. Fairness and `ENABLED` are out of the proof system's reach.
- What a recursive definition computes for every input, beyond what 4.4, 4.8 and 4.9 say of
  packets, sums and the square root.
- The violations of section 5.

## 5. Findings

1. `ReleasedUnsent` (`DispatchStaleRead`). `process()` reads the attempt after it claimed
   it and later moves it with a compare-and-set from the state it read. If the read takes
   longer than the lease, another worker may claim, authorise and send; the late read
   then returns `send_authorized`, and a refusal (run inactive, packet expired, ...) moves
   the attempt from `send_authorized` to `fallback_allowed` or tries `cancelled`, while
   its call is in flight. `README.md:55` says uncertainty after a send never becomes
   fallback.
2. `AbsentIsPreSend` (`StageLateRequest`). The browser takes an attempt that is absent for
   ten seconds for never reserved (`modelRouter.ts:193`) and tries the next profile, but its
   request may still be on the way and reserve later: the stage execution is open until an
   attempt succeeds (`controlPlaneRepository.js:124`). Both calls are sent to a provider, at the
   same time. `scripts/test-internal-result-recovery.mjs:29` says a stably absent attempt is
   known to be pre-send. If both succeed, the later one becomes the accepted attempt
   (`controlPlaneRepository.js:139`), which may not be the one whose text was used;
   ADR-001 (line 48) says that there is at most one. `OneAtATime`, `AnswerIsAccepted` and
   `AcceptedOnce` show that this is the only way to two attempts.

Seen while modelling, and not checked by a run:

- `assessPdfParseQuality` counts a page as covered only if its text layer is not sparse
  (`parseQualityService.ts:65-67`), whether or not OCR has read it since. A PDF of scanned
  pages that OCR has read to the last one has quality `good` and a `text_coverage_ratio` of
  0, hence a completeness of 0; if that holds of all documents, the registry's extraction
  is `FAILED` (`sourceRegistryService.ts:249-253`) and `validateEvidenceAcquisition` refuses
  the assessment as `SOURCE_EXTRACTION_INCOMPLETE`. The screen calls each of the documents
  "Complete text/OCR acquisition" (`App.tsx:661`), and `README.md:105` says scanned pages are
  read with local OCR. One readable page in the set, of any document, makes the run go on.
  `EvidenceIntake` has the rule as it is: an assessment of scans alone ends with the verdict
  `incomplete`.
- `removeCheckpoint` first takes the key off the run's list and then deletes it. A tombstone
  between the two misses the key; if the second command fails, the content outlives the
  verified deletion, until its TTL (`redisExecutionPlane.js:31`, `api/checkpoint.js:27-28`).
  `RunLifecycle` has both commands, and its contract speaks of what can be read back.
- A text that `validateOutput` refuses is to be followed by the next profile
  (`modelRouter.ts:363-364`, `scripts/test-role-fallback.mjs:87-89`), but its attempt has
  succeeded and closed the stage execution (`controlPlaneRepository.js:124`): the next
  reservation is refused with 409 and the stage ends as exhausted.
- When `reconcileEvidenceProvenance` removes a score because no quote is bound, the log's
  item becomes `not_assessed` but the exported verdict keeps `assessment_status:
  'assessed'` (`evidenceCheckService.ts:851`); `scripts/test-evidence-provenance.mjs:109` says
  the two must match. `ExportFollows` says in what they do agree.
- A repair of the summary alone keeps the roadmap and its check, but an unknown ID in the
  new summary has the *roadmap* composed again (`analysisService.ts:1233`), and the check
  that follows has the scope of the summary: the new roadmap stands with the old one's
  verdicts. `architecture.html:1303` says all layers are fact-checked.
- The effect that recovers a run requires a complete report before it acknowledges
  (`App.tsx:606`); the effect that confirms a delivery does not (617-627): after a recovery
  from partial checkpoints it acknowledges a run that is ready, if the complete report
  could not be read at that moment. `AcknowledgedShown` says how far this can go: the
  final report is gone from the server as well.
- A recovery or a confirmation that started before a new analysis removes
  `ACTIVE_RUN_KEY` when it ends, which names the newer run by then (595, 608, 625): that run
  is not found again after a reload. A reload while a run is `active` removes the key at
  once (593-597). A recovery under way when the screen is reset, or a newer report is
  shown, puts the old report on the screen (602-603).
- `saveAssessmentToSession` swallows a refusal of the storage (`App.tsx:61-73`), and the run
  is acknowledged all the same; README.md:107 says the report is stored for crash recovery
  until the tab's data is cleared.
- Two recoveries in flight end one after the other: the second puts the report as it was
  recovered over the one the user has edited since, on the screen and in the storage
  (`App.tsx:602-604`).
- A verifier may answer `unsupported` with a positive `verified_count`; the count is zeroed
  by the status (`evidenceSupport.ts:63-92`). An assessed item that was refused so, with
  its quotes, is unresolved in the maturity model and yet has verified source coverage in
  the metrics: its gap is called confirmed, may activate a tactic, and counts as assessed
  in the row of its domain, so a domain that is silent can show a red tone although its
  note says not to infer maturity.
- A tested absence of an item that was never assessed counts for the density and the
  clearance (`metricsService.ts:22-29`) and not for the maturity model.
- A classification can be published on derived quotes alone while the density, which
  counts source quotes only, blocks the gate. `CoverageNests` says what does hold.
- A pair that becomes resolved with a low value can lower the adjusted maturity more than
  its resolution raises it; `BetterNeverHarms` is about criteria that are resolved already.
- A page keeps the index it got first for its life, a failed or unhealthy one included.
- The packets a verdict was given on are not always the effective ones: domains that end
  early keep theirs, and the effective packets are made when all have ended
  (`orchestrator.ts:317-386`; ADR-001, invariant 9). `ShownIsTraceable` shows that nothing
  shown is lost by it. `expandDomainPacket` takes the larger of two counts as the total, so
  a chunk that was not routed can hide an omitted candidate.
- The coverage analyzer counts heads of hidden sheets as found (`coverageAnalyzer.ts:63-66`).
  Its items are approved without reasons (`structuredDataAnalysisService.ts:64-73`), and kept
  apart as diagnostics (`evidenceStagePacketService.ts:178-187`): they steer the gap analysis and
  never stand in a model's context as calculated. `Approved` is what does.
- The limits of files and bytes are tested against the render a selection began in
  (`App.tsx:776-785`, 1847-1856): selections that overlap, or end while the login is open, exceed
  them together. `removeFile` filters the files as rendered (911) and so drops what was
  set after that render.
- A source of which no text is left, such as an HTML file of scripts, stops the whole
  assessment, and so does a workbook with a head of more than 243 characters or a column
  beyond the 200th, which the screen had accepted. The start of the OCR worker has no
  timeout (`ocrService.ts:88`). `INCOMPLETE_POPULATION` cannot be the reason of any table
  that gets this far.

- The roadmap of the required-tactic repair does not pass `sanitizeRoadmapTacticGrounding`
  (`analysisService.ts:1462`): an action for a silent domain or without a confirmed
  finding, which every other roadmap loses, can stand in an actionable report. The gate
  finds an unknown ID but not an unfounded one. `OnlyRepairRestores` names the exception;
  ADR-002 (line 96) says that a silent domain supports no remediation tactics.
- The sanitation updates `factCheck` and not `acceptedFactChecks`, beside which the
  required-tactic repair is checked (`analysisService.ts:1468`): the claims on the summary
  that were removed come back, cannot be found any more, survive, and block the gate if
  they block. ADR-003 (line 44) says only the repaired roadmap is checked and sanitized
  again; `RepairLocks` shows that at least the summary stays as it is.
- Sanitation counts a claim on a text that an earlier claim of the same check removed as
  not found: it survives, although its text is gone.
- A repair of the summary alone overwrites the grounding notes with none, and a candidate
  that is rejected leaves its own: the notes of the report can be another draft's
  (`NotesMatch` says how far they can be trusted).
- A tactic with a confirmed contraindication that a repair writes again all the same ends
  as `accepted`: `classifyFinalRequiredTactics` looks at the roadmap first.
- `getAttempt` joins the packet bodies, so an attempt whose body was pruned is "not found"
  and `process()` returns; the branch that falls back on a missing body, tested with
  `canonical_body: null`, cannot be reached with the real repository.
- `readyRunWithQuality` and `completeRunWithQuality` look at the run's state only: a run
  past its 24-hour deadline is still delivered if the sweep has not come by.
- A comment in `src/services/modelRouter.ts:145-147` says a stream without a `done` frame
  leads to the next model; the code polls for the result and never falls forward on
  uncertainty, as the README requires.
- A quote with an XML special character cannot be both found in the packet and bound to
  its chunk (`sourceRegistryService.ts:709`), so its criterion never gets a score.

## 6. Not modelled, and why

- Authentication, sessions, logging and the HTTP layer: request parsing without shared
  state beyond a cookie.
- The contents of packets, results and checkpoints, hashing and screening: data the
  properties do not tell apart. `lib/governance.js` decides by content and is a later
  module's subject where it decides control.
- `pruneMetadata` (90 days) and `trimAttempts`: housekeeping of rows nothing reads any more.
- The tombstone's own TTL of 24 hours: it outlasts the run's deadline, and a key that is
  written after the deadline gets a TTL of one millisecond (`ttl`).
- The formats of documents (PDF operators, OOXML, delimiters), the patterns of personal
  data and secrets, OCR itself: they decide what a piece *is*; what becomes of it is
  modelled. Rendering, export and diagnostics: layout.
- The statistics and bands of derived evidence, category scores and footprints: numbers no
  modelled decision depends on.
- Prompts, catalogues and the texts of case studies: data.
- Output contracts and the routing policy: a text is accepted or refused, a chain of
  profiles is given.
- The order in which `claimCleanupCandidates` serves several runs.

## 7. Plan

Done: the dispatch, the run and its contract, the stage client, the evidence, the
assessment, the strategy, the delivery, the knowledge base, the retrieval and the intake,
and the proofs of section 4. What is left, in order:

1. Several runs behind `LIMIT 20` of `claimCleanupCandidates`.
2. Pure algorithms against reference definitions over bounded inputs: the severity of
   claims, the statistics of the analyzers, routing policy, output contracts.
