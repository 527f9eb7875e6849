---------------------------- MODULE KnowledgeBase ----------------------------
(***************************************************************************)
(* The reference knowledge base: PDF documents in a blob store, the index   *)
(* one server process builds and caches from them, and the copy of the      *)
(* index a page of the browser works with.                                  *)
(*                                                                         *)
(* api/kb-index.js   the handler, the cache and the refresh: what runs      *)
(*                   between two awaits is one step.  All handlers that     *)
(*                   wait for a refresh go on in the step that ends it.     *)
(* lib/kbIndex.js    what makes a document valid, and the status of an      *)
(*                   index.                                                 *)
(* src/knowledge_base/index.ts   the page's copy, the context given to a    *)
(*                   model, and the shadow packets that are only measured.  *)
(*                                                                         *)
(* A document's text is a record of what these files ask about it.          *)
(***************************************************************************)
EXTENDS Naturals, Sequences, FiniteSets, SequencesExt

CONSTANTS
  Paths,         \* the pathnames of the PDF documents, in the order of a listing,
                 \* and of the index
  PathKey,       \* the stream and criterion a pathname stands for
  ExpectedKeys,  \* the keys of a complete knowledge base
  Contents,      \* what a PDF may hold
  MaxBlobs,      \* blobs a listing takes
  MaxIndex,      \* size of an index
  MaxSection,    \* size of a section of a shadow packet
  MaxPacket,     \* size of a shadow packet
  Pages,         \* pages of the browser
  MaxChanges,    \* bound: changes of the store
  MaxFaults      \* bound: failing listings, downloads and requests

PathSet == {Paths[i] : i \in DOMAIN Paths}

\* A content is valid front matter for one key, a size, the length of each of
\* its sections, and what is wrong with its extraction.
ASSUME KnowledgeAssumption ==
  /\ Paths \in Seq(STRING) /\ IsInjective(Paths)
  /\ PathKey \in [PathSet -> STRING]
  /\ {MaxBlobs, MaxIndex, MaxSection, MaxPacket, MaxChanges, MaxFaults} \subseteq Nat
  /\ \A c \in Contents :
       /\ c.size \in Nat /\ c.key \in STRING
       /\ c.valid \in BOOLEAN
       /\ DOMAIN c.sections \subseteq STRING
       /\ \A key \in DOMAIN c.sections : c.sections[key] \in Nat
       /\ c.flaws \subseteq {"page_limit", "section_order", "duplicate_heading", "lineage"}

VARIABLES
  store,         \* the blobs: a partial function from pathnames to contents
  configured,    \* BLOB_READ_WRITE_TOKEN is set
  \* the server process
  cache,         \* a set of at most one payload
  cacheAge,      \* 0 below CACHE_FAILURE_TTL_MS, 1 below CACHE_TTL_MS, 2 beyond
  attemptAge,    \* 0 below CACHE_FAILURE_TTL_MS since the last attempt, 1 beyond
  documentCache, \* pathnames to the contents they were last indexed with
  refresh,       \* the refresh under way
  \* the browser
  page,          \* what a page holds: "none", "waiting" or an index
  changes, faults

storeVars  == <<store, configured>>
serverVars == <<cache, cacheAge, attemptAge, documentCache, refresh>>
knowledgeVars == <<storeVars, serverVars, page, changes, faults>>

-----------------------------------------------------------------------------
(* Types *)

PartialFunctions == UNION {[S -> Contents] : S \in SUBSET PathSet}

\* listed is what the store held when it was listed, for the properties; docs is
\* the index.
Payloads ==
  [source : {"remote_blob", "fallback"}, failed : BOOLEAN,
   docs : PartialFunctions, listed : SUBSET PathSet]

NoDocs == <<>>
Fallback == [source |-> "fallback", failed |-> TRUE, docs |-> NoDocs, listed |-> {}]

Idle == [at |-> "idle", listed |-> {}, pending |-> {}, docs |-> NoDocs, failed |-> FALSE]

KnowledgeTypeOK ==
  /\ store \in PartialFunctions /\ configured \in BOOLEAN
  /\ cache \subseteq Payloads /\ Cardinality(cache) <= 1
  /\ cacheAge \in 0..2 /\ attemptAge \in 0..1
  /\ documentCache \in PartialFunctions
  /\ refresh \in [at : {"idle", "list", "fetch"}, listed : SUBSET PathSet,
                  pending : SUBSET PathSet, docs : PartialFunctions, failed : BOOLEAN]
  /\ page \in [Pages -> {<<"none">>, <<"waiting">>} \cup ({"index"} \X Payloads)]
  /\ changes \in 0..MaxChanges /\ faults \in 0..MaxFaults

KnowledgeInit ==
  /\ store \in PartialFunctions /\ configured \in BOOLEAN
  /\ cache = {} /\ cacheAge = 0 /\ attemptAge = 1
  /\ documentCache = NoDocs /\ refresh = Idle
  /\ page = [p \in Pages |-> <<"none">>]
  /\ changes = 0 /\ faults = 0

Fault == faults < MaxFaults /\ faults' = faults + 1

-----------------------------------------------------------------------------
(* lib/kbIndex.js *)

Put(f, path, content) ==
  [q \in DOMAIN f \cup {path} |-> IF q = path THEN content ELSE f[q]]

Without(f, gone) == [q \in DOMAIN f \ gone |-> f[q]]

\* sanitizeKbDocument throws unless the front matter is there, is that of the
\* criterion the pathname names, and forbids the uses it must.
ValidDocument(path, content) == content.valid /\ content.key = PathKey[path]

\* The keys of an index, and how often each occurs.
Occurrences(docs, k) == {path \in DOMAIN docs : docs[path].key = k}

\* coverageIssues, of the documents of one packet or index.
Covered(docs, keys) ==
  /\ \A k \in keys : Cardinality(Occurrences(docs, k)) = 1
  /\ \A path \in DOMAIN docs : docs[path].key \in keys

\* buildKbStatus: delivery.shadow_ready.
ShadowReady(index) ==
  /\ index.docs # NoDocs /\ ~index.failed
  /\ \A path \in DOMAIN index.docs :
       /\ index.docs[path].flaws \cap {"page_limit", "section_order", "duplicate_heading"} = {}
       /\ DOMAIN index.docs[path].sections # {}
  /\ Covered(index.docs, ExpectedKeys)

-----------------------------------------------------------------------------
(* The refresh: buildRemoteIndex *)

Healthy(index) == index.source = "remote_blob" /\ ~index.failed

CacheIsHealthy == \E index \in cache : Healthy(index)

IndexSize(docs) == SumFunction([path \in DOMAIN docs |-> docs[path].size])

\* A handler that takes what it awaited, healthy or not.
AnsweredAsAwaited(payload) == payload

\* What a handler answers, and keeps, when the refresh has produced a payload:
\* a healthy cache is not given up for an unhealthy index.
Answered(payload) ==
  IF ~Healthy(payload) /\ CacheIsHealthy THEN CHOOSE index \in cache : TRUE ELSE payload

\* The refresh ends; the handlers that wait for it answer, and write the cache.
Finish(payload) ==
  /\ refresh' = Idle
  /\ page' = [p \in Pages |-> IF page[p] = <<"waiting">>
                                THEN <<"index", Answered(payload)>> ELSE page[p]]
  /\ cache' = {Answered(payload)}
  /\ cacheAge' = IF ~Healthy(payload) /\ CacheIsHealthy THEN cacheAge ELSE 0

\* The handler's catch block.
RefreshThrows ==
  /\ refresh.at = "list" /\ configured
  /\ Fault
  /\ Finish(Fallback)
  /\ UNCHANGED <<storeVars, attemptAge, documentCache, changes>>

\* Without a token there is nothing to list.
NotConfigured ==
  /\ refresh.at = "list" /\ ~configured
  /\ Finish(Fallback)
  /\ UNCHANGED <<storeVars, attemptAge, documentCache, changes, faults>>

\* listBlobPdfs takes the first MaxBlobs blobs ...
Listed ==
  {Paths[i] : i \in {j \in DOMAIN Paths : Paths[j] \in DOMAIN store /\
     Cardinality({h \in 1..j : Paths[h] \in DOMAIN store}) <= MaxBlobs}}

\* ... and tells when there are more.
LimitReached == Cardinality(DOMAIN store) > MaxBlobs

\* The documents that are no longer listed leave the cache.
ListBlobs ==
  /\ refresh.at = "list" /\ configured
  /\ documentCache' = Without(documentCache, PathSet \ Listed)
  /\ refresh' = [at |-> "fetch", listed |-> DOMAIN store, pending |-> Listed, docs |-> NoDocs,
                 failed |-> LimitReached]
  /\ UNCHANGED <<storeVars, cache, cacheAge, attemptAge, page, changes, faults>>

\* A cache that only looks at the pathname.
CachedByPathname(path, content) == path \in DOMAIN documentCache

\* The bytes have the hash of those the cached document was made from.
Cached(path, content) ==
  path \in DOMAIN documentCache /\ documentCache[path] = content

Includes(path, content) ==
  IF IndexSize(refresh.docs) + content.size > MaxIndex
    THEN /\ refresh' = [refresh EXCEPT !.failed = TRUE, !.pending = {}]
         /\ UNCHANGED documentCache
    ELSE /\ refresh' = [refresh EXCEPT !.docs = Put(@, path, content), !.pending = @ \ {path}]
         /\ documentCache' = Put(documentCache, path, content)

Skips(path) ==
  /\ refresh' = [refresh EXCEPT !.failed = TRUE, !.pending = @ \ {path}]
  /\ UNCHANGED documentCache

\* The next document: downloaded, taken from the cache or extracted and validated.
IndexDocument(path) ==
  /\ refresh.at = "fetch" /\ path \in refresh.pending
  /\ path = SelectSeq(Paths, LAMBDA q : q \in refresh.pending)[1]
  /\ \/ path \in DOMAIN store /\ UNCHANGED faults
        /\ IF Cached(path, store[path]) THEN Includes(path, documentCache[path])
           ELSE IF ValidDocument(path, store[path]) THEN Includes(path, store[path])
           ELSE Skips(path)
     \/ path \notin DOMAIN store /\ UNCHANGED faults /\ Skips(path)
     \/ Fault /\ Skips(path)
  /\ UNCHANGED <<storeVars, cache, cacheAge, attemptAge, page, changes>>

IndexBuilt ==
  /\ refresh.at = "fetch" /\ refresh.pending = {}
  /\ Finish([source |-> IF refresh.docs = NoDocs THEN "fallback" ELSE "remote_blob",
             failed |-> refresh.failed, docs |-> refresh.docs, listed |-> refresh.listed])
  /\ UNCHANGED <<storeVars, attemptAge, documentCache, changes, faults>>

-----------------------------------------------------------------------------
(* The handler, asked by a page *)

\* The cached index is answered without a refresh.
ServesCached ==
  /\ cache # {}
  /\ IF CacheIsHealthy THEN cacheAge < 2 \/ attemptAge = 0 ELSE cacheAge < 1

FromCache(p) ==
  /\ page[p] = <<"none">>
  /\ ServesCached
  /\ \E index \in cache : page' = [page EXCEPT ![p] = <<"index", index>>]
  /\ UNCHANGED <<storeVars, serverVars, changes, faults>>

\* The first handler to wait starts the refresh.
AwaitRefresh(p) ==
  /\ page[p] = <<"none">>
  /\ ~ServesCached
  /\ page' = [page EXCEPT ![p] = <<"waiting">>]
  /\ IF refresh.at = "idle"
       THEN refresh' = [Idle EXCEPT !.at = "list"] /\ attemptAge' = 0
       ELSE UNCHANGED <<refresh, attemptAge>>
  /\ UNCHANGED <<storeVars, cache, cacheAge, documentCache, changes, faults>>

\* The request fails on the way: the page keeps an empty index for good.
RequestFails(p) ==
  /\ page[p] \in {<<"none">>, <<"waiting">>}
  /\ Fault
  /\ page' = [page EXCEPT ![p] = <<"index", Fallback>>]
  /\ UNCHANGED <<storeVars, serverVars, changes>>

\* remoteKbIndexPromise lasts as long as the page.
Reload(p) ==
  /\ page[p] # <<"none">>
  /\ page' = [page EXCEPT ![p] = <<"none">>]
  /\ UNCHANGED <<storeVars, serverVars, changes, faults>>

-----------------------------------------------------------------------------
(* The store, the clock, and a new process *)

StoreChanges ==
  /\ changes < MaxChanges /\ changes' = changes + 1
  /\ \E path \in PathSet :
       \/ \E c \in Contents : store' = Put(store, path, c)
       \/ path \in DOMAIN store /\ store' = Without(store, {path})
  /\ store' # store
  /\ UNCHANGED <<configured, serverVars, page, faults>>

\* The cache is younger than the attempt that filled it.
CacheAges ==
  /\ cache # {} /\ cacheAge < 2
  /\ cacheAge = 0 => attemptAge = 1
  /\ cacheAge' = cacheAge + 1
  /\ UNCHANGED <<storeVars, cache, attemptAge, documentCache, refresh, page, changes, faults>>

AttemptAges ==
  /\ attemptAge = 0
  /\ attemptAge' = 1
  /\ UNCHANGED <<storeVars, cache, cacheAge, documentCache, refresh, page, changes, faults>>

ProcessRestarts ==
  /\ Fault
  /\ cache' = {} /\ cacheAge' = 0 /\ attemptAge' = 1
  /\ documentCache' = NoDocs /\ refresh' = Idle
  /\ page' = [p \in Pages |-> IF page[p] = <<"waiting">> THEN <<"index", Fallback>> ELSE page[p]]
  /\ UNCHANGED <<storeVars, changes>>

-----------------------------------------------------------------------------
(* src/knowledge_base/index.ts: what a page makes of its index *)

\* STAGE_SECTION_KEYS, REQUIRED_STAGE_SECTIONS, of some of their sections.
StageSections == [
  forensic_audit    |-> <<"canonical_definition", "evidence_requirements",
                          "strong_evidence_examples", "scoring_guidance">>,
  roadmap_synthesis |-> <<"canonical_definition", "risk_notes">>]

RequiredSections == [
  forensic_audit    |-> {"canonical_definition", "evidence_requirements", "scoring_guidance"},
  roadmap_synthesis |-> {"canonical_definition", "risk_notes"}]

Stages == DOMAIN StageSections

\* sectionSatisfied.
Satisfied(content, key) ==
  \/ key \in DOMAIN content.sections
  \/ key = "evidence_requirements" /\ "strong_evidence_examples" \in DOMAIN content.sections

\* The places for a section in a packet, document by document.
Slots(stage) ==
  LET n == Len(StageSections[stage]) IN
  [k \in 1..Len(Paths) * n |->
    <<Paths[(k - 1) \div n + 1], StageSections[stage][((k - 1) % n) + 1]>>]

HasPart(docs, part) == part[1] \in DOMAIN docs /\ part[2] \in DOMAIN docs[part[1]].sections

EmptyShadow == [included |-> {}, omitted |-> {}, chars |-> 0]

\* What fits is taken; what does not is passed over, and noted.
WithPart(docs, shadow, part) ==
  LET length == docs[part[1]].sections[part[2]] IN
  IF ~HasPart(docs, part) THEN shadow
  ELSE IF length > MaxSection \/ shadow.chars + length > MaxPacket
         THEN [shadow EXCEPT !.omitted = @ \cup {part}]
         ELSE [shadow EXCEPT !.included = @ \cup {part}, !.chars = @ + length]

\* The loops over the documents and the sections of the stage.
Shadow(docs, stage) ==
  LET shadow[k \in 0..Len(Slots(stage))] ==
        IF k = 0 THEN EmptyShadow ELSE WithPart(docs, shadow[k - 1], Slots(stage)[k])
  IN shadow[Len(Slots(stage))]

\* A packet that is ready as long as something got into it.
ReadyAnyway(index, stage) ==
  index.source = "remote_blob" /\ Shadow(index.docs, stage).included # {}

\* buildShadowKnowledgePacket: readiness, for the whole knowledge base.
Ready(index, stage) ==
  /\ index.docs # NoDocs /\ index.source = "remote_blob"
  /\ Covered(index.docs, ExpectedKeys)
  /\ \A path \in DOMAIN index.docs :
       /\ index.docs[path].flaws = {}
       /\ \A key \in RequiredSections[stage] : Satisfied(index.docs[path], key)
  /\ Shadow(index.docs, stage).omitted = {}

\* fetchReferenceKnowledgeBaseContext: the documents a model is shown.
Context(index) ==
  IF index.source # "remote_blob" \/ index.failed \/ index.docs = NoDocs
    THEN {} ELSE DOMAIN index.docs

-----------------------------------------------------------------------------
ServerStep ==
  \/ NotConfigured \/ ListBlobs \/ IndexBuilt
  \/ \E path \in PathSet : IndexDocument(path)

PageStep(p) == FromCache(p) \/ AwaitRefresh(p)

KnowledgeNext ==
  \/ ServerStep \/ RefreshThrows \/ StoreChanges \/ CacheAges \/ AttemptAges
  \/ ProcessRestarts
  \/ \E p \in Pages : PageStep(p) \/ RequestFails(p) \/ Reload(p)

\* A refresh goes on, time passes, and pages keep being opened: a page is
\* asked for again and again, and asks for the index when it is.
KnowledgeFairness ==
  /\ WF_knowledgeVars(ServerStep) /\ WF_knowledgeVars(CacheAges) /\ WF_knowledgeVars(AttemptAges)
  /\ \A p \in Pages : WF_knowledgeVars(PageStep(p)) /\ SF_knowledgeVars(Reload(p))

KnowledgeSpec == KnowledgeInit /\ [][KnowledgeNext]_knowledgeVars /\ KnowledgeFairness

-----------------------------------------------------------------------------
(* What the knowledge base promises *)

\* A process that has a healthy index only ever replaces it by a healthy one:
\* a refresh that fails, finds nothing, or finds something invalid leaves the
\* old one in place, whichever handler it ends under (api/kb-index.js).
HealthyKept ==
  [][CacheIsHealthy => CacheIsHealthy' \/ cache' = {}]_knowledgeVars

\* A model is shown the whole knowledge base or nothing of it: each document that
\* the store had when it was listed, every one valid under its own name, within
\* the limits of a listing and of an index.
ContextWhole ==
  \A p \in Pages : page[p][1] = "index" /\ Context(page[p][2]) # {} =>
    LET index == page[p][2] IN
    /\ Context(index) = index.listed
    /\ Cardinality(index.listed) <= MaxBlobs /\ IndexSize(index.docs) <= MaxIndex
    /\ \A path \in index.listed : ValidDocument(path, index.docs[path])

\* A shadow packet that is called ready has every section its stage uses of
\* every document, one document for each expected criterion, and its required
\* sections, in the limit of a packet.
ReadyWhole ==
  \A p \in Pages, stage \in Stages :
    page[p][1] = "index" /\ Ready(page[p][2], stage) =>
      LET docs == page[p][2].docs
          packet == Shadow(docs, stage) IN
      /\ packet.included = {part \in PathSet \X Range(StageSections[stage]) :
           part[1] \in DOMAIN docs /\ part[2] \in DOMAIN docs[part[1]].sections}
      /\ packet.chars <= MaxPacket
      /\ Cardinality(DOMAIN docs) = Cardinality(ExpectedKeys)
      /\ \A path \in DOMAIN docs :
           \E part \in packet.included : part[1] = path

\* A store that can be served: what every document must be for the index to
\* be healthy.
Servable ==
  /\ configured /\ DOMAIN store # {}
  /\ Cardinality(DOMAIN store) <= MaxBlobs /\ IndexSize(store) <= MaxIndex
  /\ \A path \in DOMAIN store : ValidDocument(path, store[path])

\* Once the store no longer changes and the network no longer fails, the
\* server comes to serve exactly what the store holds: no cached index, cached
\* document or pending refresh keeps an old or an empty index in place.
ServesCurrent ==
  Servable ~> \/ ~Servable
              \/ \E index \in cache : Healthy(index) /\ index.docs = store
=============================================================================
