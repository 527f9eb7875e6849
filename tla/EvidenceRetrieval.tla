------------------------- MODULE EvidenceRetrieval -------------------------
(***************************************************************************)
(* Which chunks of the customer's sources reach the models of Phase 1.     *)
(*                                                                         *)
(* Before the analysis every domain gets a packet of the chunks routed to  *)
(* it, and a packet with gaps is expanded once, without a model.  Then the *)
(* domains are analysed side by side: scan, evidence check, and, while     *)
(* something is weak, up to two passes of expansion by search terms,       *)
(* rescan and check.  A domain whose scan fails is analysed once more from *)
(* its first packet.  When all have settled the expanded packets become    *)
(* the effective ones, to which every quote must be traced.                *)
(*                                                                         *)
(* src/services/sourceRegistryService.ts       packets                      *)
(* src/services/gapAnalyzerService.ts, boundedRetrievalService.ts           *)
(*                                             the expansion before         *)
(* src/services/evidenceGapAnalysisService.ts, semanticGapRetrievalService.ts *)
(*                                             the expansion of a pass      *)
(* src/services/pipelineIntegrityService.ts, evidenceStagePacketService.ts  *)
(*                                             the checks of packets        *)
(* src/orchestrator.ts, src/services/analysisService.ts   the control       *)
(*                                                                         *)
(* A chunk is its length, its relevance and what its text holds; lengths   *)
(* and limits are in units of a few thousand characters, the 260 of a      *)
(* chunk's frame included.  CriterionEvidence models what is made of the   *)
(* answers.                                                                *)
(***************************************************************************)
EXTENDS Naturals, Sequences, FiniteSets, SequencesExt, FiniteSetsExt

CONSTANTS
  Domains,
  Corpora,        \* registries of sources a run may start from (see Corpus)
  Terms,          \* search terms, the routing terms of the domains aside
  TargetChars,    \* length of a packet: 35 000 characters in the code
  HardChars,      \* its limit: 45 000
  FirstChunks,    \* chunks that may pass the target: 3
  MaxSelections,  \* chunks added in one pass: 8
  MinimumGain,    \* points of coverage a pass must gain: 5
  Attempts,       \* analyses of a domain: 2
  Passes          \* passes of one analysis: 2

Tiers == {"high", "medium", "low"}

\* A chunk of a domain's interest is routed to it (tier), tells of a gap or a
\* contradiction (signal), holds a neutral term of the domain or one of its
\* missing items (found), or supports one of its criteria (located).
Chunk == [size : Nat, tier : [Domains -> Tiers], signal : BOOLEAN,
          found : SUBSET Domains, located : SUBSET Domains, terms : SUBSET Terms]

\* The chunks in the order of their score and id, the domains with a criterion
\* of low coverage or no usable population (gaps), whether the sources were
\* read with warnings, and whether the checks that do not concern the choice of
\* chunks pass.
Corpus == [chunks : Seq(Chunk), gaps : SUBSET Domains, warned : BOOLEAN, sound : BOOLEAN]

ASSUME RetrievalAssumption ==
  /\ Corpora \subseteq Corpus
  /\ TargetChars \in Nat /\ HardChars \in Nat /\ TargetChars <= HardChars
  /\ {FirstChunks, MaxSelections, MinimumGain, Passes} \subseteq Nat
  /\ Attempts \in Nat \ {0} /\ IsFiniteSet(Terms)

VARIABLES
  corpus,     \* the registry, as read
  run,        \* "acquisition", "analysis", "accepted" or "stopped"
  \* by domain
  at,         \* the step of its analysis
  attempt, pass,
  first,      \* evidenceStagePackets: the packet an analysis starts from
  packet,     \* semanticPackets: the packet as expanded
  seen,       \* terms searched for
  judged,     \* the chunks before the check whose verdict is kept
  shown,      \* every chunk a model has been shown
  \* of the run
  effective,  \* sourcePackets: the packets quotes are traced to
  warnings,   \* the warnings about packets: domain, chunks, candidates
  readiness   \* acquisition_readiness

domainVars == <<at, attempt, pass, first, packet, seen, judged, shown>>
runVars    == <<effective, warnings, readiness>>
vars       == <<corpus, run, domainVars, runVars>>

-----------------------------------------------------------------------------
(* Packets *)

\* The chunks of a registry r, by their places in it
Chunks(r) == DOMAIN r.chunks

Routed(r, d, c) == r.chunks[c].tier[d] \in {"high", "medium"}

\* The chunks of a set, or the places in a sequence, as they come
InOrder(S) == [k \in 1..Cardinality(S) |-> CHOOSE c \in S : Cardinality({e \in S : e <= c}) = k]

\* rankedDomainCandidates
Candidates(r, d) ==
  LET Wanted(tier) == InOrder({c \in Chunks(r) : /\ r.chunks[c].tier[d] = tier
                                                 /\ Routed(r, d, c) \/ r.chunks[c].signal})
  IN Wanted("high") \o Wanted("medium") \o Wanted("low")

Length(r, chunks) ==
  LET sum[i \in 0..Len(chunks)] == IF i = 0 THEN 0 ELSE sum[i - 1] + r.chunks[chunks[i]].size
  IN sum[Len(chunks)]

Fits(r, chunks, c, limit) == Length(r, chunks) + r.chunks[c].size <= limit

\* The new chunk takes the place of the last one.
TakenInstead(chunks, c) == Append(Front(chunks), c)

Taken(chunks, c) == Append(chunks, c)

\* Chunks offered to a packet one by one, each taken if it is wanted.  The one
\* value of each step is bound by a set, for TLC would evaluate a LET again.
Filled(chunks, offered, Wanted(_, _)) ==
  LET taken[i \in 0..Len(offered)] ==
        IF i = 0 THEN {chunks}
        ELSE {IF Wanted(before, offered[i]) THEN Taken(before, offered[i]) ELSE before :
                before \in taken[i - 1]}
  IN CHOOSE t \in taken[Len(offered)] : TRUE

\* buildDomainPacket: the loop over the candidates
RoutedChunks(r, d) ==
  Filled(<<>>, Candidates(r, d),
         LAMBDA chunks, c :
           /\ Length(r, chunks) < TargetChars
           /\ Fits(r, chunks, c, IF Len(chunks) < FirstChunks THEN HardChars ELSE TargetChars))

Packet(chunks, total) == [chunks |-> chunks, total |-> total]

BaselinePacket(d) == Packet(RoutedChunks(corpus, d), Len(Candidates(corpus, d)))

\* assembleDomainPacket: the candidates a packet says it omits, and whether it
\* says that its coverage is weak
Omitted(p) == IF p.total > Len(p.chunks) THEN p.total - Len(p.chunks) ELSE 0

Weak(d, p) ==
  \/ Len(p.chunks) < 2
  \/ \A c \in ToSet(p.chunks) : corpus.chunks[c].tier[d] # "high"
  \/ Omitted(p) > 0

\* expandDomainPacket: the requested chunks that fit, in their order
Expanded(r, p, requested) ==
  LET chunks == Filled(p.chunks, requested,
                       LAMBDA taken, c : c \notin ToSet(taken) /\ Fits(r, taken, c, HardChars))
  IN Packet(chunks, Max({p.total, Len(chunks)}))

Added(p, q) == ToSet(q.chunks) \ ToSet(p.chunks)

FirstOf(chunks, n) == SubSeq(chunks, 1, Min({n, Len(chunks)}))

-----------------------------------------------------------------------------
(* The expansion before the analysis *)

\* planGapRetrieval: trigger_domains
Triggered(d, p) ==
  \/ Weak(d, p)
  \/ d \in corpus.gaps
  \/ \E c \in Chunks(corpus) \ ToSet(p.chunks) : d \in corpus.chunks[c].located

\* Chunks that were not routed to the domain but may fill a gap
Neutral(d) == InOrder({c \in Chunks(corpus) \ ToSet(Candidates(corpus, d)) :
                         d \in corpus.chunks[c].found \cup corpus.chunks[c].located})

\* The share of the eligible chunks a packet holds, in points
Coverage(d, p) ==
  LET eligible == ToSet(Candidates(corpus, d)) \cup ToSet(Neutral(d))
      n        == Cardinality(eligible)
  IN IF n = 0 THEN 0 ELSE (200 * Cardinality(ToSet(p.chunks) \cap eligible) + n) \div (2 * n)

Gains(d, p, q) == Coverage(d, q) >= Coverage(d, p) + MinimumGain

\* The chunks of a sequence that a packet does not hold yet
Missing(p, chunks) ==
  LET rest == InOrder({i \in DOMAIN chunks : chunks[i] \notin ToSet(p.chunks)})
  IN [k \in DOMAIN rest |-> chunks[rest[k]]]

\* One pass: the first of them
RetrievalPass(p, chunks) == Expanded(corpus, p, FirstOf(Missing(p, chunks), MaxSelections))

\* applyBoundedRetrieval
Retrieved(d, p) ==
  IF ~Triggered(d, p) THEN p
  ELSE CHOOSE q \in {IF Added(p, routed) # {} /\ ~Gains(d, p, routed) THEN routed
                     ELSE RetrievalPass(routed, Neutral(d)) :
                       routed \in {RetrievalPass(p, Candidates(corpus, d))}} : TRUE

-----------------------------------------------------------------------------
(* The expansion of a pass *)

\* expandWeakEvidencePacket: the chunks that hold a term, the best match first
Matching(p, terms) ==
  LET Score(c)     == Cardinality(corpus.chunks[c].terms \cap terms)
      found        == {c \in Chunks(corpus) \ ToSet(p.chunks) : Score(c) > 0}
      Before(e, c) == Score(e) > Score(c) \/ (Score(e) = Score(c) /\ e <= c)
  IN [k \in 1..Cardinality(found) |->
        CHOOSE c \in found : Cardinality({e \in found : Before(e, c)}) = k]

SearchExpanded(p, terms) == Expanded(corpus, p, FirstOf(Matching(p, terms), MaxSelections))

-----------------------------------------------------------------------------
(* Checks and warnings *)

\* buildEvidenceLaneStagePackets refuses a packet without any of the candidates it
\* counts; its other conditions are part of what makes a registry sound.
Staged(p) == p.total > 0 => p.chunks # <<>>

\* validateEvidenceAcquisition, and the stage packets made of it
Approved(packets) ==
  /\ corpus.sound /\ Chunks(corpus) # {}
  /\ \A d \in Domains : Staged(packets[d])

\* packetCoverageWarnings
CoverageWarnings(packets) ==
  {<<d, Len(packets[d].chunks), packets[d].total>> : d \in {e \in Domains : Weak(e, packets[e])}}

\* sourceRegistryRuntimeStatus
Readiness(packets) ==
  IF corpus.warned \/ \E d \in Domains : Weak(d, packets[d])
  THEN "READY_WITH_WARNINGS" ELSE "READY"

-----------------------------------------------------------------------------
(* Types *)

Packets == [chunks : Seq(Nat), total : Nat]

TypeOK ==
  /\ corpus \in Corpora
  /\ run \in {"acquisition", "analysis", "accepted", "stopped"}
  /\ at \in [Domains -> {"scan", "check", "decide", "search", "rescan", "recheck",
                         "settled", "failed"}]
  /\ attempt \in [Domains -> 1..Attempts] /\ pass \in [Domains -> 0..Passes]
  /\ \A p \in {first, packet, effective} :
       /\ DOMAIN p = Domains
       /\ \A d \in Domains : p[d].chunks \in Seq(Chunks(corpus)) /\ p[d].total \in 0..Len(corpus.chunks)
  /\ seen \in [Domains -> SUBSET Terms]
  /\ judged \in [Domains -> SUBSET Chunks(corpus)] /\ shown \in [Domains -> SUBSET Chunks(corpus)]
  /\ warnings \subseteq Domains \X Nat \X Nat
  /\ readiness \in {"READY", "READY_WITH_WARNINGS"}

NoPackets == [d \in Domains |-> Packet(<<>>, 0)]

Init ==
  /\ corpus \in Corpora /\ run = "acquisition"
  /\ at = [d \in Domains |-> "scan"]
  /\ attempt = [d \in Domains |-> 1] /\ pass = [d \in Domains |-> 0]
  /\ first = NoPackets /\ packet = NoPackets /\ effective = NoPackets
  /\ seen = [d \in Domains |-> {}]
  /\ judged = [d \in Domains |-> {}] /\ shown = [d \in Domains |-> {}]
  /\ warnings = {} /\ readiness = "READY"

-----------------------------------------------------------------------------
(* The run *)

\* Routing, the expansion before the analysis and the checks, in one go
Acquire ==
  /\ run = "acquisition"
  /\ \E packets \in {[d \in Domains |-> Retrieved(d, BaselinePacket(d))]} :
       \/ /\ Approved(packets)
          /\ run' = "analysis"
          /\ first' = packets /\ packet' = packets /\ effective' = packets
          /\ warnings' = CoverageWarnings(packets)
          /\ readiness' = Readiness(packets)
       \/ /\ ~Approved(packets)
          /\ run' = "stopped"
          /\ UNCHANGED <<first, packet, runVars>>
  /\ UNCHANGED <<corpus, at, attempt, pass, seen, judged, shown>>

\* The packets of the first scans stay the effective ones.
EffectiveAtFirst == first

Effective == packet

WarningsReplaced(packets) == CoverageWarnings(packets)

\* Every domain has settled: the expanded packets take effect, are checked
\* again, and the run goes on unless a domain has failed.
Accept ==
  /\ run = "analysis" /\ \A d \in Domains : at[d] \in {"settled", "failed"}
  /\ effective' = Effective
  /\ IF Approved(effective')
     THEN /\ warnings' = WarningsReplaced(effective')
          /\ readiness' = Readiness(effective')
          /\ run' = IF \E d \in Domains : at[d] = "failed" THEN "stopped" ELSE "accepted"
     ELSE run' = "stopped" /\ UNCHANGED <<warnings, readiness>>
  /\ UNCHANGED <<corpus, domainVars>>

-----------------------------------------------------------------------------
(* The analysis of a domain *)

Go(d, from, to) == run = "analysis" /\ at[d] = from /\ at' = [at EXCEPT ![d] = to]

\* A model is shown a packet.
Show(d, p) == shown' = [shown EXCEPT ![d] = @ \cup ToSet(p.chunks)]

\* The packet of the analysis: the first one until a pass has expanded it
Current(d) == IF pass[d] = 0 THEN first[d] ELSE packet[d]

Scan(d) ==
  /\ Go(d, "scan", "check") /\ Show(d, first[d])
  /\ UNCHANGED <<corpus, run, attempt, pass, first, packet, seen, judged, runVars>>

\* After the last attempt the count begins anew.
RetryForever(d) ==
  /\ at' = [at EXCEPT ![d] = "scan"]
  /\ attempt' = [attempt EXCEPT ![d] = IF @ < Attempts THEN @ + 1 ELSE 1]

Retry(d) ==
  IF attempt[d] < Attempts
  THEN /\ at' = [at EXCEPT ![d] = "scan"]
       /\ attempt' = [attempt EXCEPT ![d] = @ + 1]
  ELSE /\ at' = [at EXCEPT ![d] = "failed"]
       /\ UNCHANGED attempt

\* No model gave a valid scan: the domain is analysed from the beginning, or is
\* a failed one.
ScanFails(d) ==
  /\ run = "analysis" /\ at[d] = "scan" /\ Show(d, first[d])
  /\ Retry(d)
  /\ UNCHANGED <<corpus, run, pass, first, packet, seen, judged, runVars>>

\* The check finds something weak that a rescan may settle, or nothing, or is
\* unavailable; without a verdict there are no passes.
Check(d) ==
  /\ \E to \in {"decide", "settled"} : Go(d, "check", to)
  /\ Show(d, Current(d))
  /\ judged' = [judged EXCEPT ![d] = ToSet(Current(d).chunks)]
  /\ UNCHANGED <<corpus, run, attempt, pass, first, packet, seen, runVars>>

\* Another pass is due, and a model is asked for terms.
StartPass(d) ==
  /\ pass[d] < Passes /\ Go(d, "decide", "search")
  /\ UNCHANGED <<corpus, run, attempt, pass, first, packet, seen, judged, shown, runVars>>

NoPassLeft(d) ==
  /\ pass[d] = Passes /\ Go(d, "decide", "settled")
  /\ UNCHANGED <<corpus, run, attempt, pass, first, packet, seen, judged, shown, runVars>>

\* The terms, the model's or those taken from the criteria when it gave no valid
\* answer, are searched for in the registry.  Without a new chunk the passes end.
Search(d) ==
  /\ run = "analysis" /\ at[d] = "search"
  /\ \E terms \in SUBSET (Terms \ seen[d]) :
       LET expanded == SearchExpanded(packet[d], terms)
       IN /\ seen' = [seen EXCEPT ![d] = @ \cup terms]
          /\ packet' = [packet EXCEPT ![d] = expanded]
          /\ IF Added(packet[d], expanded) # {}
             THEN /\ at' = [at EXCEPT ![d] = "rescan"]
                  /\ pass' = [pass EXCEPT ![d] = @ + 1]
             ELSE at' = [at EXCEPT ![d] = "settled"] /\ UNCHANGED pass
  /\ UNCHANGED <<corpus, run, attempt, first, judged, shown, runVars>>

\* The expansion throws, before the packet is expanded or at the checks of the
\* expanded one, which stays: the attempt has failed, and the next one begins
\* with the first packet and with all terms.
SearchFails(d) ==
  /\ run = "analysis" /\ at[d] = "search"
  /\ \/ UNCHANGED packet
     \/ \E terms \in SUBSET (Terms \ seen[d]) :
          packet' = [packet EXCEPT ![d] = SearchExpanded(packet[d], terms)]
  /\ Retry(d)
  /\ pass' = [pass EXCEPT ![d] = 0] /\ seen' = [seen EXCEPT ![d] = {}]
  /\ UNCHANGED <<corpus, run, first, judged, shown, runVars>>

Rescan(d) ==
  /\ Go(d, "rescan", "recheck") /\ Show(d, packet[d])
  /\ UNCHANGED <<corpus, run, attempt, pass, first, packet, seen, judged, runVars>>

\* No valid rescan in two tries, or no check of it: the verdict stays that of
\* the packet before.
RescanFails(d) ==
  /\ \E from \in {"rescan", "recheck"} : Go(d, from, "settled")
  /\ Show(d, packet[d])
  /\ UNCHANGED <<corpus, run, attempt, pass, first, packet, seen, judged, runVars>>

Recheck(d) ==
  /\ \E to \in {"decide", "settled"} : Go(d, "recheck", to)
  /\ Show(d, packet[d])
  /\ judged' = [judged EXCEPT ![d] = ToSet(packet[d].chunks)]
  /\ UNCHANGED <<corpus, run, attempt, pass, first, packet, seen, runVars>>

-----------------------------------------------------------------------------

Over == run \in {"accepted", "stopped"}

Analyse(d) ==
  \/ Scan(d) \/ ScanFails(d) \/ Check(d) \/ StartPass(d) \/ NoPassLeft(d)
  \/ Search(d) \/ SearchFails(d) \/ Rescan(d) \/ RescanFails(d) \/ Recheck(d)

Next == Acquire \/ Accept \/ \E d \in Domains : Analyse(d)

\* A call of a model ends, at its timeout if need be (StageClient).
Fairness == WF_vars(Acquire) /\ WF_vars(Accept) /\ \A d \in Domains : WF_vars(Analyse(d))

Spec == Init /\ [][Next]_vars /\ Fairness

-----------------------------------------------------------------------------
(* Properties *)

\* No expansion breaks a packet: within the limit, no chunk twice, and the routed
\* evidence it began with still in front, whole and in its order (ADR-001,
\* invariant 9).
DirectEvidenceKept ==
  \A d \in Domains : \A p \in {first[d], packet[d], effective[d]} :
    /\ Length(corpus, p.chunks) <= HardChars
    /\ Cardinality(ToSet(p.chunks)) = Len(p.chunks)
    /\ run \in {"analysis", "accepted"} => IsPrefix(RoutedChunks(corpus, d), p.chunks)

\* Whatever a model was shown in any attempt or pass can be found in the
\* effective packet when the run is accepted, so no verified quote loses its
\* source because packets changed while domains were analysed.
ShownIsTraceable ==
  run = "accepted" => \A d \in Domains : shown[d] \subseteq ToSet(effective[d].chunks)

\* Failing scans, weak verdicts and empty searches do not keep a run going.
RunEnds == <>Over
=============================================================================
