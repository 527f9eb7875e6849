------------------------- MODULE ModelContextProofs -------------------------
(***************************************************************************)
(* Proofs about what a model is given to read: EvidenceRetrieval, for every *)
(* registry, every set of domains and of search terms, and every limit, and *)
(* KnowledgeBase, for every store, every content and every limit.           *)
(*                                                                         *)
(* Both fill packets in loops, to which LoopsAndSums gives functions of     *)
(* their turns.                                                             *)
(*                                                                         *)
(* EvidenceRetrieval.  The first parts add up lengths (LengthAdds) and show *)
(* what every turn keeps (GrowsHeld): the limit, no chunk twice, and all    *)
(* that was there before.  The routed evidence needs that candidates come   *)
(* once each, which their order by tiers gives; the expansions test it.     *)
(* The invariant RInv then follows the packets through a run: routed        *)
(* evidence, first packet, expanded packet, each in front of the next, and  *)
(* what was shown inside of the last.                                       *)
(*                                                                         *)
(* KnowledgeBase.  A size is a sum over a set of documents, and IndexGrows  *)
(* what a document adds.  KnowledgeInvariant then follows the documents     *)
(* from the listing to the cache and to a page, and ShadowIs a packet       *)
(* through its places.                                             *)
(***************************************************************************)
EXTENDS EvidenceRetrieval, KnowledgeBase, LoopsAndSums

-----------------------------------------------------------------------------
(* The length of a packet *)

\* The sums of a sequence of chunks, from the front
Sums(r, s) == CHOOSE sum : sum = [i \in 0..Len(s) |-> IF i = 0 THEN 0
                                                      ELSE sum[i - 1] + r.chunks[s[i]].size]

\* A chunk has a length.
LEMMA SizeOf ==
  ASSUME NEW r \in Corpus, NEW c \in Chunks(r)
  PROVE  r.chunks[c].size \in Nat
<1>1. r.chunks \in Seq(Chunk) /\ c \in DOMAIN r.chunks
  BY DEF Chunks, Corpus
<1>2. r.chunks[c] \in Chunk
  BY <1>1
<1> QED  BY <1>2 DEF Chunk

\* Every sum is the one before and the size of one more chunk.
LEMMA SumsAdd ==
  ASSUME NEW r \in Corpus, NEW s \in Seq(Chunks(r))
  PROVE  /\ Length(r, s) = Sums(r, s)[Len(s)]
         /\ Sums(r, s) \in [0..Len(s) -> Nat]
         /\ Sums(r, s)[0] = 0
         /\ \A i \in 1..Len(s) : Sums(r, s)[i] = Sums(r, s)[i - 1] + r.chunks[s[i]].size
<1>1. Length(r, s) = Sums(r, s)[Len(s)]
  BY DEF Length, Sums
<1>2. ASSUME NEW i \in 1..Len(s) PROVE r.chunks[s[i]].size \in Nat
  BY SizeOf
<1> DEFINE G == [i \in 1..Len(s) |-> [k \in Nat |-> k + r.chunks[s[i]].size]]
<1>3. G \in [1..Len(s) -> [Nat -> Nat]]
  <2>1. \A i \in 1..Len(s) : [k \in Nat |-> k + r.chunks[s[i]].size] \in [Nat -> Nat]
    BY <1>2
  <2> QED  BY <2>1
<1>4. PICK sum \in [0..Len(s) -> Nat] : Unfolds(sum, Len(s), 0, G)
  <2>1. Len(s) \in Nat /\ 0 \in Nat
    OBVIOUS
  <2> HIDE DEF G
  <2> QED  BY <1>3, <2>1, Recursion
<1>5. ASSUME NEW i \in 1..Len(s) PROVE G[i][sum[i - 1]] = sum[i - 1] + r.chunks[s[i]].size
  <2>1. sum[i - 1] \in Nat
    <3>1. i - 1 \in 0..Len(s)
      OBVIOUS
    <3> QED  BY <3>1
  <2> QED  BY <2>1
<1>6. sum = [i \in 0..Len(s) |-> IF i = 0 THEN 0 ELSE sum[i - 1] + r.chunks[s[i]].size]
  <2> HIDE DEF G
  <2>1. \A i \in 0..Len(s) : sum[i] = IF i = 0 THEN 0 ELSE sum[i - 1] + r.chunks[s[i]].size
    BY <1>4, <1>5 DEF Unfolds
  <2> QED  BY <2>1
<1>7. Sums(r, s) = [i \in 0..Len(s) |-> IF i = 0 THEN 0
                                         ELSE Sums(r, s)[i - 1] + r.chunks[s[i]].size]
  BY <1>6 DEF Sums
<1>8. /\ DOMAIN Sums(r, s) = 0..Len(s) /\ Sums(r, s)[0] = 0
      /\ \A i \in 1..Len(s) : Sums(r, s)[i] = Sums(r, s)[i - 1] + r.chunks[s[i]].size
  BY <1>7
<1>9. \A i \in 0..Len(s) : Sums(r, s)[i] \in Nat
  <2> DEFINE T == {i \in 0..Len(s) : Sums(r, s)[i] \in Nat}
  <2>1. 0 \in T /\ \A i \in T : i < Len(s) => i + 1 \in T
    <3>1. 0 \in T
      BY <1>8
    <3>2. ASSUME NEW i \in T, i < Len(s) PROVE i + 1 \in T
      <4>1. i + 1 \in 1..Len(s) /\ (i + 1) - 1 = i /\ Sums(r, s)[i] \in Nat
        BY <3>2
      <4>2. Sums(r, s)[i + 1] = Sums(r, s)[i] + r.chunks[s[i + 1]].size
        BY <1>8, <4>1
      <4> QED  BY <1>2, <4>1, <4>2
    <3> QED  BY <3>1, <3>2
  <2>2. T = 0..Len(s)
    <3>1. Len(s) \in Nat /\ T \in SUBSET (0..Len(s))
      OBVIOUS
    <3> HIDE DEF T
    <3> QED  BY <2>1, <3>1, StepsUpTo
  <2> QED  BY <2>2
<1>10. Sums(r, s) \in [0..Len(s) -> Nat]
  BY <1>7, <1>9
<1> QED  BY <1>1, <1>8, <1>10

\* Length of a packet: nothing for no chunk, and a chunk more adds its size.
LEMMA LengthAdds ==
  ASSUME NEW r \in Corpus, NEW s \in Seq(Chunks(r))
  PROVE  /\ Length(r, s) \in Nat
         /\ s = <<>> => Length(r, s) = 0
         /\ \A c \in Chunks(r) : Length(r, Append(s, c)) = Length(r, s) + r.chunks[c].size
<1>1. Length(r, s) \in Nat /\ (s = <<>> => Length(r, s) = 0)
  BY SumsAdd
<1>2. ASSUME NEW c \in Chunks(r)
      PROVE  Length(r, Append(s, c)) = Length(r, s) + r.chunks[c].size
  <2> DEFINE t == Append(s, c)
             T == {i \in 0..Len(s) : Sums(r, t)[i] = Sums(r, s)[i]}
  <2>1. /\ t \in Seq(Chunks(r)) /\ Len(t) = Len(s) + 1 /\ t[Len(t)] = c
        /\ \A i \in 1..Len(s) : t[i] = s[i]
    OBVIOUS
  <2> HIDE DEF t
  <2>2. /\ Sums(r, t)[0] = 0 /\ Length(r, t) = Sums(r, t)[Len(t)]
        /\ \A i \in 1..Len(t) : Sums(r, t)[i] = Sums(r, t)[i - 1] + r.chunks[t[i]].size
    BY <2>1, SumsAdd
  <2>3. /\ Sums(r, s)[0] = 0 /\ Length(r, s) = Sums(r, s)[Len(s)]
        /\ \A i \in 1..Len(s) : Sums(r, s)[i] = Sums(r, s)[i - 1] + r.chunks[s[i]].size
    BY SumsAdd
  <2>4. 0 \in T /\ \A i \in T : i < Len(s) => i + 1 \in T
    <3>1. 0 \in T
      BY <2>2, <2>3
    <3>2. ASSUME NEW i \in T, i < Len(s) PROVE i + 1 \in T
      <4>1. /\ i + 1 \in 1..Len(s) /\ i + 1 \in 1..Len(t) /\ (i + 1) - 1 = i
            /\ i + 1 \in 0..Len(s)
        BY <2>1, <3>2
      <4>2. t[i + 1] = s[i + 1]
        BY <2>1, <4>1
      <4>3. Sums(r, t)[i + 1] = Sums(r, t)[i] + r.chunks[t[i + 1]].size
        BY <2>2, <4>1
      <4>4. Sums(r, s)[i + 1] = Sums(r, s)[i] + r.chunks[s[i + 1]].size
        BY <2>3, <4>1
      <4>5. Sums(r, t)[i] = Sums(r, s)[i]
        OBVIOUS
      <4> QED  BY <4>1, <4>2, <4>3, <4>4, <4>5
    <3> QED  BY <3>1, <3>2
  <2>5. T = 0..Len(s)
    <3>1. Len(s) \in Nat /\ T \in SUBSET (0..Len(s))
      OBVIOUS
    <3> HIDE DEF T
    <3> QED  BY <2>4, <3>1, StepsUpTo
  <2>6. Len(s) \in T /\ Len(s) \in Nat
    BY <2>5
  <2> QED  BY <2>1, <2>2, <2>3, <2>6 DEF t
<1> QED  BY <1>1, <1>2

-----------------------------------------------------------------------------
(* Packets that are filled *)

\* No chunk comes twice, and what a sequence holds stays where it is.
Distinct(s) == \A i \in DOMAIN s : \A j \in DOMAIN s : s[i] = s[j] => i = j

Extends(s, t) == Len(s) <= Len(t) /\ \A k \in 1..Len(s) : t[k] = s[k]

\* What is kept twice is kept, and so are its chunks.
LEMMA ExtendsFurther ==
  ASSUME NEW S, NEW s \in Seq(S), NEW t \in Seq(S), NEW u \in Seq(S)
  PROVE  /\ Extends(s, s)
         /\ Extends(s, t) /\ Extends(t, u) => Extends(s, u)
         /\ Extends(s, t) => ToSet(s) \in SUBSET ToSet(t) /\ IsPrefix(s, t)
<1>1. Extends(s, s) /\ (Extends(s, t) /\ Extends(t, u) => Extends(s, u))
  BY DEF Extends
<1>2. ASSUME Extends(s, t) PROVE ToSet(s) \in SUBSET ToSet(t) /\ IsPrefix(s, t)
  <2>1. /\ Len(s) \in Nat /\ Len(t) \in Nat /\ DOMAIN s = 1..Len(s) /\ DOMAIN t = 1..Len(t)
        /\ Len(s) <= Len(t) /\ \A k \in 1..Len(s) : t[k] = s[k]
    BY <1>2 DEF Extends
  <2>2. \A k \in DOMAIN s : k \in DOMAIN t /\ t[k] = s[k]
    BY <2>1
  <2>3. ToSet(s) \in SUBSET ToSet(t)
    BY <2>2 DEF ToSet
  <2>4. SubSeq(s, 1, Len(s)) = SubSeq(t, 1, Len(s))
    BY <2>1
  <2> QED  BY <2>1, <2>3, <2>4 DEF IsPrefix
<1> QED  BY <1>1, <1>2

\* What a packet of the registry r holds
Held(r, s) == s \in Seq(Chunks(r)) /\ Length(r, s) <= HardChars /\ Distinct(s)

\* g is how a sequence grows while the n first of the chunks offered are offered.
Grows(r, g, offered, n) ==
  \A i \in 1..n : \/ g[i] = g[i - 1]
                  \/ /\ g[i] = Append(g[i - 1], offered[i])
                     /\ offered[i] \notin ToSet(g[i - 1])
                     /\ Fits(r, g[i - 1], offered[i], HardChars)

\* What grows this way stays a packet and keeps what it began with.
LEMMA GrowsHeld ==
  ASSUME NEW r \in Corpus, NEW n \in Nat, NEW offered, \A i \in 1..n : offered[i] \in Chunks(r),
         NEW g, Held(r, g[0]), Grows(r, g, offered, n)
  PROVE  Held(r, g[n]) /\ Extends(g[0], g[n])
<1> DEFINE T == {i \in 0..n : Held(r, g[i]) /\ Extends(g[0], g[i])}
<1>1. 0 \in T
  BY DEF Extends, Held
<1>2. ASSUME NEW i \in T, i < n PROVE i + 1 \in T
  <2> DEFINE s == g[i]
             c == offered[i + 1]
  <2>1. Held(r, s) /\ Extends(g[0], s) /\ i + 1 \in 1..n /\ (i + 1) - 1 = i
    BY <1>2
  <2>2. c \in Chunks(r)
    BY <2>1
  <2>3. CASE g[i + 1] = s
    BY <2>1, <2>3
  <2>4. CASE /\ g[i + 1] = Append(s, c) /\ c \notin ToSet(s)
             /\ Fits(r, s, c, HardChars)
    <3> DEFINE t == Append(s, c)
    <3>1. s \in Seq(Chunks(r)) /\ g[0] \in Seq(Chunks(r))
      BY <2>1 DEF Held
    <3>2. t \in Seq(Chunks(r)) /\ Len(t) = Len(s) + 1 /\ t[Len(t)] = c
      BY <2>2, <3>1
    <3>3. DOMAIN s = 1..Len(s) /\ DOMAIN t = 1..Len(s) + 1 /\ Len(s) \in Nat
          /\ \A k \in 1..Len(s) : t[k] = s[k]
      BY <2>2, <3>1
    <3>4. \A k \in 1..Len(s) : s[k] # c
      BY <2>4, <3>3 DEF ToSet
    <3> HIDE DEF s, c, t
    <3>5. Distinct(t)
      BY <2>1, <3>2, <3>3, <3>4 DEF Distinct, Held
    <3>6. Length(r, t) <= HardChars
      BY <2>2, <2>4, <3>1, LengthAdds DEF Fits, t
    <3>7. Extends(g[0], t)
      BY <2>1, <3>1, <3>2, <3>3 DEF Extends
    <3>8. g[i + 1] = t /\ Held(r, t)
      BY <2>4, <3>2, <3>5, <3>6 DEF Held, t
    <3> HIDE DEF t
    <3> QED  BY <2>1, <3>7, <3>8
  <2> QED  BY <2>1, <2>3, <2>4 DEF Grows
<1>3. T = 0..n
  <2>1. T \in SUBSET (0..n)
    OBVIOUS
  <2> HIDE DEF T
  <2> QED  BY <1>1, <1>2, <2>1, StepsUpTo
<1>4. n \in T
  BY <1>3
<1> QED  BY <1>4

-----------------------------------------------------------------------------
(* Chunks in an order *)

\* The pairs of an order that is total on S, and the members of S up to c
Total(S, order) ==
  /\ order \in SUBSET (S \X S)
  /\ \A c \in S, e \in S : \/ <<c, e>> \in order /\ (<<e, c>> \in order <=> c = e)
                           \/ <<e, c>> \in order /\ <<c, e>> \notin order
  /\ \A b \in S, c \in S, e \in S :
       <<b, c>> \in order /\ <<c, e>> \in order => <<b, e>> \in order

UpTo(S, order, c) == {e \in S : <<e, c>> \in order}

\* In a finite set with a total order every place has a member: as many are at it
\* or before it as its number says.
LEMMA Ranks ==
  ASSUME NEW S, IsFiniteSet(S), NEW order, Total(S, order)
  PROVE  /\ Cardinality(S) \in Nat
         /\ \A k \in 1..Cardinality(S) : \E c \in S : Cardinality(UpTo(S, order, c)) = k
<1> USE DEF Total, UpTo
<1> DEFINE upTo(c) == UpTo(S, order, c)
           rank == [c \in S |-> Cardinality(upTo(c))]
           N == Cardinality(S)
<1>1. N \in Nat
  BY FS_CardinalityType
<1>2. ASSUME NEW c \in S PROVE Cardinality(upTo(c)) \in 1..N /\ IsFiniteSet(upTo(c))
  <2>1. IsFiniteSet(upTo(c)) /\ Cardinality(upTo(c)) <= N
    BY FS_Subset
  <2>2. c \in upTo(c)
    OBVIOUS
  <2>3. Cardinality(upTo(c)) \in Nat /\ Cardinality(upTo(c)) # 0
    BY <2>1, <2>2, FS_CardinalityType, FS_EmptySet
  <2> QED  BY <1>1, <2>1, <2>3
<1>3. ASSUME NEW c \in S, NEW e \in S, <<c, e>> \in order, c # e
      PROVE  Cardinality(upTo(c)) < Cardinality(upTo(e))
  <2>1. upTo(c) \in SUBSET upTo(e) /\ upTo(c) # upTo(e)
    <3>1. e \in upTo(e) /\ e \notin upTo(c)
      BY <1>3
    <3>2. \A b \in upTo(c) : b \in upTo(e)
      BY <1>3
    <3> QED  BY <3>1, <3>2
  <2>2. Cardinality(upTo(c)) <= Cardinality(upTo(e)) /\ Cardinality(upTo(c)) # Cardinality(upTo(e))
    BY <1>2, <2>1, FS_Subset
  <2> QED  BY <1>1, <1>2, <2>2
<1>4. rank \in Injection(S, 1..N)
  <2>1. rank \in [S -> 1..N]
    BY <1>2
  <2>2. ASSUME NEW c \in S, NEW e \in S, rank[c] = rank[e] PROVE c = e
    <3>1. rank[c] \in Nat /\ ~(rank[c] < rank[e]) /\ ~(rank[e] < rank[c])
      BY <1>1, <1>2, <2>2
    <3>2. rank[c] = Cardinality(upTo(c)) /\ rank[e] = Cardinality(upTo(e))
      OBVIOUS
    <3>3. <<c, e>> \in order \/ <<e, c>> \in order
      OBVIOUS
    <3> HIDE DEF rank, upTo
    <3>4. <<c, e>> \in order /\ c # e => rank[c] < rank[e]
      BY <1>3, <3>2
    <3>5. <<e, c>> \in order /\ e # c => rank[e] < rank[c]
      BY <1>3, <3>2
    <3> QED  BY <3>1, <3>3, <3>4, <3>5
  <2> QED  BY <2>1, <2>2 DEF Injection, IsInjective
<1>5. rank \in Surjection(S, 1..N)
  <2>1. IsFiniteSet(1..N) /\ Cardinality(1..N) = N
    BY <1>1, FS_Interval
  <2> QED  BY <1>4, <2>1, FS_Injection
<1>6. ASSUME NEW k \in 1..N PROVE \E c \in S : Cardinality(upTo(c)) = k
  BY <1>5 DEF Surjection
<1> QED  BY <1>1, <1>6

\* A finite set of numbers in order is a sequence of its members, each once.
LEMMA InOrderFits ==
  ASSUME NEW S \in SUBSET Nat, IsFiniteSet(S)
  PROVE  InOrder(S) \in Seq(S) /\ Distinct(InOrder(S))
<1> DEFINE order == {pair \in S \X S : pair[1] <= pair[2]}
           N == Cardinality(S)
<1>1. N \in Nat /\ \A k \in 1..N : \E c \in S : Cardinality(UpTo(S, order, c)) = k
  <2>1. order \in SUBSET (S \X S)
    OBVIOUS
  <2>2. \A c \in S, e \in S : <<c, e>> \in order <=> c <= e
    OBVIOUS
  <2>3. \A c \in S, e \in S : \/ <<c, e>> \in order /\ (<<e, c>> \in order <=> c = e)
                              \/ <<e, c>> \in order /\ <<c, e>> \notin order
    <3> HIDE DEF order
    <3>1. \A c \in Nat, e \in Nat : (c <= e /\ (e <= c <=> c = e)) \/ (e <= c /\ ~(c <= e))
      OBVIOUS
    <3> QED  BY <2>2, <3>1
  <2>4. \A b \in S, c \in S, e \in S :
          <<b, c>> \in order /\ <<c, e>> \in order => <<b, e>> \in order
    <3> HIDE DEF order
    <3>1. \A b \in Nat, c \in Nat, e \in Nat : b <= c /\ c <= e => b <= e
      OBVIOUS
    <3> QED  BY <2>2, <3>1
  <2> HIDE DEF order
  <2>5. Total(S, order)
    BY <2>1, <2>3, <2>4 DEF Total
  <2> QED  BY <2>5, Ranks
<1>2. ASSUME NEW c \in S PROVE UpTo(S, order, c) = {e \in S : e <= c}
  BY DEF UpTo
<1> HIDE DEF order
<1>3. ASSUME NEW k \in 1..N
      PROVE  /\ InOrder(S)[k] \in S
             /\ Cardinality({e \in S : e <= InOrder(S)[k]}) = k
  <2>1. \E c \in S : Cardinality({e \in S : e <= c}) = k
    BY <1>1, <1>2
  <2> QED  BY <2>1 DEF InOrder
<1>4. InOrder(S) \in [1..N -> S]
  BY <1>3 DEF InOrder
<1>5. InOrder(S) \in Seq(S) /\ DOMAIN InOrder(S) = 1..N
  BY <1>1, <1>4
<1>6. Distinct(InOrder(S))
  <2> SUFFICES ASSUME NEW k \in 1..N, NEW l \in 1..N, InOrder(S)[k] = InOrder(S)[l]
               PROVE  k = l
    BY <1>5 DEF Distinct
  <2> QED  BY <1>3
<1> QED  BY <1>5, <1>6

\* Two sequences without a common member one after the other
LEMMA ConcatDistinct ==
  ASSUME NEW S, NEW s \in Seq(S), NEW t \in Seq(S), Distinct(s), Distinct(t),
         \A i \in DOMAIN s, j \in DOMAIN t : s[i] # t[j]
  PROVE  /\ s \o t \in Seq(S) /\ Distinct(s \o t)
         /\ \A k \in DOMAIN (s \o t) : \/ \E i \in DOMAIN s : (s \o t)[k] = s[i]
                                       \/ \E j \in DOMAIN t : (s \o t)[k] = t[j]
<1> DEFINE u == s \o t
<1>1. /\ u \in Seq(S) /\ Len(u) = Len(s) + Len(t) /\ Len(s) \in Nat /\ Len(t) \in Nat
      /\ DOMAIN s = 1..Len(s) /\ DOMAIN t = 1..Len(t) /\ DOMAIN u = 1..Len(s) + Len(t)
      /\ \A k \in DOMAIN u : u[k] = IF k <= Len(s) THEN s[k] ELSE t[k - Len(s)]
  OBVIOUS
<1> HIDE DEF u
<1>2. ASSUME NEW k \in DOMAIN u
      PROVE  \/ k \in DOMAIN s /\ u[k] = s[k]
             \/ k - Len(s) \in DOMAIN t /\ k > Len(s) /\ u[k] = t[k - Len(s)]
  BY <1>1
<1>3. Distinct(u)
  <2> SUFFICES ASSUME NEW k \in DOMAIN u, NEW l \in DOMAIN u, u[k] = u[l] PROVE k = l
    BY DEF Distinct
  <2>1. CASE k \in DOMAIN s /\ u[k] = s[k]
    BY <1>1, <1>2, <2>1 DEF Distinct
  <2>2. CASE k - Len(s) \in DOMAIN t /\ k > Len(s) /\ u[k] = t[k - Len(s)]
    <3>1. l - Len(s) \in DOMAIN t /\ l > Len(s) /\ u[l] = t[l - Len(s)]
      BY <1>2, <2>2
    <3>2. k - Len(s) = l - Len(s)
      BY <2>2, <3>1 DEF Distinct
    <3> QED  BY <1>1, <3>2
  <2> QED  BY <1>2, <2>1, <2>2
<1> QED  BY <1>1, <1>2, <1>3 DEF u

\* The candidates of a domain are chunks of the registry, each once.
LEMMA CandidatesFit ==
  ASSUME NEW r \in Corpus, NEW d
  PROVE  Candidates(r, d) \in Seq(Chunks(r)) /\ Distinct(Candidates(r, d))
<1> DEFINE OfTier(tier) == {c \in Chunks(r) : /\ r.chunks[c].tier[d] = tier
                                              /\ Routed(r, d, c) \/ r.chunks[c].signal}
           high == InOrder(OfTier("high"))
           medium == InOrder(OfTier("medium"))
           low == InOrder(OfTier("low"))
<1>1. Candidates(r, d) = high \o medium \o low
  BY DEF Candidates
<1>2. ASSUME NEW tier
      PROVE  /\ InOrder(OfTier(tier)) \in Seq(Chunks(r)) /\ Distinct(InOrder(OfTier(tier)))
             /\ \A i \in DOMAIN InOrder(OfTier(tier)) :
                  r.chunks[InOrder(OfTier(tier))[i]].tier[d] = tier
  <2>1. Chunks(r) = 1..Len(r.chunks) /\ Len(r.chunks) \in Nat
    BY DEF Chunks, Corpus
  <2>2. IsFiniteSet(Chunks(r))
    BY <2>1, FS_Interval
  <2>3. OfTier(tier) \in SUBSET Chunks(r) /\ OfTier(tier) \in SUBSET Nat
    BY <2>1
  <2>4. IsFiniteSet(OfTier(tier))
    BY <2>2, <2>3, FS_Subset
  <2>5. \A c \in OfTier(tier) : r.chunks[c].tier[d] = tier
    OBVIOUS
  <2> HIDE DEF OfTier
  <2>6. InOrder(OfTier(tier)) \in Seq(OfTier(tier)) /\ Distinct(InOrder(OfTier(tier)))
    BY <2>3, <2>4, InOrderFits
  <2>7. \A i \in DOMAIN InOrder(OfTier(tier)) : InOrder(OfTier(tier))[i] \in OfTier(tier)
    BY <2>6
  <2>8. InOrder(OfTier(tier)) \in Seq(Chunks(r))
    BY <2>3, <2>6
  <2> QED  BY <2>5, <2>6, <2>7, <2>8
<1>3. /\ high \in Seq(Chunks(r)) /\ medium \in Seq(Chunks(r)) /\ low \in Seq(Chunks(r))
      /\ Distinct(high) /\ Distinct(medium) /\ Distinct(low)
      /\ \A i \in DOMAIN high : r.chunks[high[i]].tier[d] = "high"
      /\ \A i \in DOMAIN medium : r.chunks[medium[i]].tier[d] = "medium"
      /\ \A i \in DOMAIN low : r.chunks[low[i]].tier[d] = "low"
  <2> HIDE DEF OfTier
  <2> QED  BY <1>2
<1> HIDE DEF high, medium, low
<1>4. /\ high \o medium \in Seq(Chunks(r)) /\ Distinct(high \o medium)
      /\ \A k \in DOMAIN (high \o medium) :
           \/ \E i \in DOMAIN high : (high \o medium)[k] = high[i]
           \/ \E j \in DOMAIN medium : (high \o medium)[k] = medium[j]
  <2>1. \A i \in DOMAIN high, j \in DOMAIN medium : high[i] # medium[j]
    BY <1>3
  <2> QED  BY <1>3, <2>1, ConcatDistinct
<1>5. \A k \in DOMAIN (high \o medium), j \in DOMAIN low : (high \o medium)[k] # low[j]
  BY <1>3, <1>4
<1>6. (high \o medium) \o low \in Seq(Chunks(r)) /\ Distinct((high \o medium) \o low)
  <2> DEFINE both == high \o medium
  <2> HIDE DEF both
  <2> QED  BY <1>3, <1>4, <1>5, ConcatDistinct DEF both
<1> QED  BY <1>1, <1>6

-----------------------------------------------------------------------------
(* How packets are filled *)

\* Sets, the first of them with the one value x, and each made of the one before
Singly(taken, n, S, x, G) ==
  /\ taken[0] = {x}
  /\ \A i \in 1..n : \A b \in S : taken[i - 1] = {b} => taken[i] = {G[i][b]}

Only(T) == CHOOSE t \in T : TRUE

\* Each of them holds what the steps make of x.
LEMMA OneByOne ==
  ASSUME NEW n \in Nat, NEW S, NEW x \in S, NEW G \in [1..n -> [S -> S]],
         NEW g \in [0..n -> S], Unfolds(g, n, x, G), NEW taken, Singly(taken, n, S, x, G)
  PROVE  Only(taken[n]) = g[n]
<1>1. g[0] = x /\ \A i \in 1..n : g[i] = G[i][g[i - 1]]
  BY DEF Unfolds
<1>2. taken[0] = {x} /\ \A i \in 1..n : \A b \in S : taken[i - 1] = {b} => taken[i] = {G[i][b]}
  BY DEF Singly
<1> DEFINE T == {i \in 0..n : taken[i] = {g[i]}}
<1>4. 0 \in T
  BY <1>1, <1>2
<1>5. ASSUME NEW i \in T, i < n PROVE i + 1 \in T
  <2>1. i \in 0..n /\ taken[i] = {g[i]} /\ i + 1 \in 1..n /\ (i + 1) - 1 = i
    BY <1>5
  <2>2. taken[i + 1] = {G[i + 1][g[i]]} /\ g[i + 1] = G[i + 1][g[i]]
    <3>1. g[i] \in S /\ taken[(i + 1) - 1] = {g[i]}
      BY <2>1
    <3> QED  BY <1>1, <1>2, <2>1, <3>1
  <2> QED  BY <2>1, <2>2
<1>6. T = 0..n
  <2>1. T \in SUBSET (0..n)
    OBVIOUS
  <2> HIDE DEF T
  <2> QED  BY <1>4, <1>5, <2>1, StepsUpTo
<1>7. taken[n] = {g[n]}
  <2>1. n \in T
    BY <1>6
  <2> QED  BY <2>1
<1> QED  BY <1>7 DEF Only

\* The routed evidence of a domain is a packet.
LEMMA RoutedHeld ==
  ASSUME NEW r \in Corpus, NEW d
  PROVE  Held(r, RoutedChunks(r, d))
<1> DEFINE offered == Candidates(r, d)
           n == Len(offered)
           S == Seq(Chunks(r))
           Wanted(b, c) ==
             /\ Length(r, b) < TargetChars
             /\ Fits(r, b, c, IF Len(b) < FirstChunks THEN HardChars ELSE TargetChars)
           After(i, b) == IF Wanted(b, offered[i]) THEN Taken(b, offered[i]) ELSE b
           G == [i \in 1..n |-> [b \in S |-> After(i, b)]]
           taken == CHOOSE taken : taken = [i \in 0..n |-> IF i = 0 THEN {<<>>}
                                                    ELSE {After(i, b) : b \in taken[i - 1]}]
<1>1. RoutedChunks(r, d) = CHOOSE t \in taken[n] : TRUE
  BY DEF RoutedChunks, Filled
<1>2. /\ offered \in S /\ Distinct(offered) /\ n \in Nat /\ DOMAIN offered = 1..n
      /\ \A i \in 1..n : offered[i] \in Chunks(r)
  <2>1. offered \in S /\ Distinct(offered)
    BY CandidatesFit
  <2> HIDE DEF offered
  <2> QED  BY <2>1
<1> HIDE DEF offered
<1>3. \A i \in 1..n : \A b \in S : After(i, b) \in S
  BY <1>2 DEF Taken
<1>4. G \in [1..n -> [S -> S]] /\ \A i \in 1..n : \A b \in S : G[i][b] = After(i, b)
  <2> HIDE DEF After
  <2> QED  BY <1>3
<1>5. PICK g \in [0..n -> S] : Unfolds(g, n, <<>>, G)
  <2>1. <<>> \in S /\ n \in Nat
    BY <1>2
  <2>2. G \in [1..n -> [S -> S]]
    BY <1>4
  <2> HIDE DEF G, S, n
  <2> QED  BY <2>1, <2>2, Recursion
<1>6. g[0] = <<>> /\ \A i \in 1..n : g[i] = After(i, g[i - 1]) /\ g[i - 1] \in S
  <2>1. g[0] = <<>> /\ \A i \in 1..n : g[i] = G[i][g[i - 1]]
    BY <1>5 DEF Unfolds
  <2>2. \A i \in 1..n : i - 1 \in 0..n
    BY <1>2
  <2> HIDE DEF G, After, S, n
  <2> QED  BY <1>4, <2>1, <2>2
<1>7. taken = [i \in 0..n |-> IF i = 0 THEN {<<>>} ELSE {After(i, b) : b \in taken[i - 1]}]
  <2> DEFINE ones == [i \in 0..n |-> {g[i]}]
  <2>1. ASSUME NEW i \in 0..n
        PROVE  ones[i] = IF i = 0 THEN {<<>>} ELSE {After(i, b) : b \in ones[i - 1]}
    <3> HIDE DEF After, n
    <3>1. CASE i = 0
      BY <1>6, <3>1
    <3>2. CASE i # 0
      <4>1. i \in 1..n /\ i - 1 \in 0..n
        BY <1>2, <3>2
      <4>2. ones[i - 1] = {g[i - 1]} /\ ones[i] = {g[i]} /\ g[i] = After(i, g[i - 1])
        BY <1>6, <4>1
      <4> HIDE DEF ones
      <4> QED  BY <3>2, <4>2
    <3> QED  BY <3>1, <3>2
  <2>2. ones = [i \in 0..n |-> IF i = 0 THEN {<<>>} ELSE {After(i, b) : b \in ones[i - 1]}]
    <3> HIDE DEF After
    <3> QED  BY <2>1
  <2> HIDE DEF ones, After, n
  <2> QED  BY <2>2
<1>8. RoutedChunks(r, d) = g[n]
  <2>1. taken[0] = {<<>>} /\ \A i \in 1..n : taken[i] = {After(i, b) : b \in taken[i - 1]}
    <3>1. n \in Nat
      BY <1>2
    <3> DEFINE Rule(f, i) == IF i = 0 THEN {<<>>} ELSE {After(i, b) : b \in f[i - 1]}
    <3>2. taken = [i \in 0..n |-> Rule(taken, i)]
      <4> HIDE DEF taken, After, n
      <4> QED  BY <1>7
    <3>3. Rule(taken, 0) = {<<>>}
      OBVIOUS
    <3>4. \A i \in 1..n : Rule(taken, i) = {After(i, b) : b \in taken[i - 1]}
      <4> HIDE DEF taken, After, n
      <4> QED  OBVIOUS
    <3>5. 0 \in 0..n /\ \A i \in 1..n : i \in 0..n
      BY <3>1
    <3> HIDE DEF taken, Rule, After, n
    <3>6. taken[0] = Rule(taken, 0) /\ \A i \in 1..n : taken[i] = Rule(taken, i)
      BY <3>2, <3>5
    <3>7. \A i \in 1..n : taken[i] = {After(i, b) : b \in taken[i - 1]}
      BY <3>4, <3>6
    <3> QED  BY <3>3, <3>6, <3>7
  <2> HIDE DEF taken, After
  <2>2. \A i \in 1..n : \A b \in S : taken[i - 1] = {b} => taken[i] = {G[i][b]}
    <3> HIDE DEF G, S, n
    <3> SUFFICES ASSUME NEW i \in 1..n, NEW b \in S, taken[i - 1] = {b}
                 PROVE  taken[i] = {G[i][b]}
      OBVIOUS
    <3>1. taken[i] = {After(i, a) : a \in {b}} /\ G[i][b] = After(i, b)
      BY <1>4, <2>1
    <3> QED  BY <3>1
  <2>3. <<>> \in S /\ n \in Nat
    BY <1>2
  <2>4. G \in [1..n -> [S -> S]]
    BY <1>4
  <2> HIDE DEF G, S, n
  <2>5. Singly(taken, n, S, <<>>, G)
    BY <2>1, <2>2 DEF Singly
  <2>6. Only(taken[n]) = g[n]
    BY <1>5, <2>3, <2>4, <2>5, OneByOne
  <2> QED  BY <1>1, <2>6 DEF Only
<1> HIDE DEF taken, G
\* What is taken is one of the candidates offered so far.
<1>9. \A i \in 0..n : \A k \in DOMAIN g[i] : \E j \in 1..i : g[i][k] = offered[j]
  <2> DEFINE T == {i \in 0..n : \A k \in DOMAIN g[i] : \E j \in 1..i : g[i][k] = offered[j]}
  <2>1. 0 \in T
    BY <1>2, <1>6
  <2>2. ASSUME NEW i \in T, i < n PROVE i + 1 \in T
    <3>1. i + 1 \in 1..n /\ (i + 1) - 1 = i /\ i \in Nat
      BY <1>2, <2>2
    <3>2. g[i] \in S /\ offered[i + 1] \in Chunks(r)
      BY <1>2, <3>1
    <3>3. g[i + 1] = g[i] \/ g[i + 1] = Append(g[i], offered[i + 1])
      BY <1>6, <3>1 DEF Taken
    <3>4. \A k \in DOMAIN g[i] : \E j \in 1..i : g[i][k] = offered[j]
      OBVIOUS
    <3>5. \A k \in DOMAIN g[i + 1] : \/ k \in DOMAIN g[i] /\ g[i + 1][k] = g[i][k]
                                     \/ g[i + 1][k] = offered[i + 1]
      <4> HIDE DEF S, G, n, T
      <4>1. g[i] \in Seq(Chunks(r))
        BY <3>2 DEF S
      <4>2. CASE g[i + 1] = g[i]
        BY <4>2
      <4>3. CASE g[i + 1] = Append(g[i], offered[i + 1])
        BY <4>1, <4>3
      <4> QED  BY <3>3, <4>2, <4>3
    <3>6. \A k \in DOMAIN g[i + 1] : \E j \in 1..i + 1 : g[i + 1][k] = offered[j]
      BY <3>1, <3>4, <3>5
    <3> QED  BY <3>1, <3>6
  <2>3. T = 0..n
    <3>1. T \in SUBSET (0..n)
      OBVIOUS
    <3> HIDE DEF T, n
    <3> QED  BY <1>2, <2>1, <2>2, <3>1, StepsUpTo
  <2> QED  BY <2>3
<1>10. Grows(r, g, offered, n)
  <2> SUFFICES ASSUME NEW i \in 1..n, g[i] # g[i - 1]
               PROVE  /\ g[i] = Append(g[i - 1], offered[i])
                      /\ offered[i] \notin ToSet(g[i - 1])
                      /\ Fits(r, g[i - 1], offered[i], HardChars)
    BY DEF Grows
  <2> DEFINE b == g[i - 1]
             c == offered[i]
             limit == IF Len(b) < FirstChunks THEN HardChars ELSE TargetChars
  <2>1. i \in Nat /\ i - 1 \in 0..n /\ i \in 1..n /\ i - 1 < i
    BY <1>2
  <2>2. b \in S /\ c \in Chunks(r) /\ g[i] = Append(b, c) /\ Fits(r, b, c, limit)
    BY <1>2, <1>6 DEF Taken
  <2>3. \A k \in DOMAIN b : \E j \in 1..i - 1 : b[k] = offered[j]
    BY <1>9, <2>1
  <2>4. \A j \in 1..i - 1 : offered[j] # offered[i]
    BY <1>2, <2>1 DEF Distinct
  <2>5. c \notin ToSet(b)
    <3> HIDE DEF b
    <3> QED  BY <2>3, <2>4 DEF ToSet
  <2>6. Fits(r, b, c, HardChars)
    <3>1. Length(r, b) \in Nat /\ r.chunks[c].size \in Nat
      BY <2>2, LengthAdds, SizeOf
    <3>2. limit <= HardChars /\ limit \in Nat /\ HardChars \in Nat
      BY RetrievalAssumption
    <3> HIDE DEF limit, b, c
    <3> QED  BY <2>2, <3>1, <3>2 DEF Fits
  <2> QED  BY <2>2, <2>5, <2>6
<1>11. Held(r, g[0])
  <2>1. <<>> \in Seq(Chunks(r)) /\ DOMAIN <<>> = {}
    OBVIOUS
  <2>2. Length(r, <<>>) = 0
    BY <2>1, LengthAdds
  <2> QED  BY <1>6, <2>1, <2>2, RetrievalAssumption DEF Held, Distinct
<1> QED  BY <1>2, <1>8, <1>10, <1>11, GrowsHeld

\* A packet that is expanded is a packet and keeps what it held.
LEMMA ExpandedHeld ==
  ASSUME NEW r \in Corpus, NEW p, Held(r, p.chunks), NEW requested \in Seq(Chunks(r))
  PROVE  /\ Held(r, Expanded(r, p, requested).chunks)
         /\ Extends(p.chunks, Expanded(r, p, requested).chunks)
         /\ Expanded(r, p, requested).total
              = Max({p.total, Len(Expanded(r, p, requested).chunks)})
<1> DEFINE n == Len(requested)
           S == Seq(Chunks(r))
           x == p.chunks
           Wanted(b, c) == c \notin ToSet(b) /\ Fits(r, b, c, HardChars)
           After(i, b) == IF Wanted(b, requested[i]) THEN Taken(b, requested[i]) ELSE b
           G == [i \in 1..n |-> [b \in S |-> After(i, b)]]
           taken == CHOOSE taken : taken = [i \in 0..n |-> IF i = 0 THEN {x}
                                                    ELSE {After(i, b) : b \in taken[i - 1]}]
<1>1. /\ Expanded(r, p, requested).chunks = CHOOSE t \in taken[n] : TRUE
      /\ Expanded(r, p, requested).total = Max({p.total, Len(Expanded(r, p, requested).chunks)})
  <2> DEFINE chunks == CHOOSE t \in taken[n] : TRUE
  <2>1. Expanded(r, p, requested) = [chunks |-> chunks, total |-> Max({p.total, Len(chunks)})]
    BY DEF Expanded, Filled, Packet
  <2> HIDE DEF chunks
  <2>2. /\ Expanded(r, p, requested).chunks = chunks
        /\ Expanded(r, p, requested).total = Max({p.total, Len(chunks)})
    BY <2>1
  <2> QED  BY <2>2 DEF chunks
<1>2. /\ x \in S /\ n \in Nat /\ DOMAIN requested = 1..n
      /\ \A i \in 1..n : requested[i] \in Chunks(r)
  BY DEF Held
<1> HIDE DEF x
<1>3. \A i \in 1..n : \A b \in S : After(i, b) \in S
  BY <1>2 DEF Taken
<1>4. G \in [1..n -> [S -> S]] /\ \A i \in 1..n : \A b \in S : G[i][b] = After(i, b)
  <2> HIDE DEF After
  <2> QED  BY <1>3
<1>5. PICK g \in [0..n -> S] : Unfolds(g, n, x, G)
  <2>1. x \in S /\ n \in Nat
    BY <1>2
  <2>2. G \in [1..n -> [S -> S]]
    BY <1>4
  <2> HIDE DEF G, S, n
  <2> QED  BY <2>1, <2>2, Recursion
<1>6. g[0] = x /\ \A i \in 1..n : g[i] = After(i, g[i - 1]) /\ g[i - 1] \in S
  <2>1. g[0] = x /\ \A i \in 1..n : g[i] = G[i][g[i - 1]]
    BY <1>5 DEF Unfolds
  <2>2. \A i \in 1..n : i - 1 \in 0..n
    BY <1>2
  <2> HIDE DEF G, After, S, n
  <2> QED  BY <1>4, <2>1, <2>2
<1>7. taken = [i \in 0..n |-> IF i = 0 THEN {x} ELSE {After(i, b) : b \in taken[i - 1]}]
  <2> DEFINE ones == [i \in 0..n |-> {g[i]}]
  <2>1. ASSUME NEW i \in 0..n
        PROVE  ones[i] = IF i = 0 THEN {x} ELSE {After(i, b) : b \in ones[i - 1]}
    <3> HIDE DEF After, n
    <3>1. CASE i = 0
      BY <1>6, <3>1
    <3>2. CASE i # 0
      <4>1. i \in 1..n /\ i - 1 \in 0..n
        BY <1>2, <3>2
      <4>2. ones[i - 1] = {g[i - 1]} /\ ones[i] = {g[i]} /\ g[i] = After(i, g[i - 1])
        BY <1>6, <4>1
      <4> HIDE DEF ones
      <4> QED  BY <3>2, <4>2
    <3> QED  BY <3>1, <3>2
  <2>2. ones = [i \in 0..n |-> IF i = 0 THEN {x} ELSE {After(i, b) : b \in ones[i - 1]}]
    <3> HIDE DEF After
    <3> QED  BY <2>1
  <2> HIDE DEF ones, After, n
  <2> QED  BY <2>2
<1>8. Expanded(r, p, requested).chunks = g[n]
  <2>1. taken[0] = {x} /\ \A i \in 1..n : taken[i] = {After(i, b) : b \in taken[i - 1]}
    <3>1. n \in Nat
      BY <1>2
    <3> DEFINE Rule(f, i) == IF i = 0 THEN {x} ELSE {After(i, b) : b \in f[i - 1]}
    <3>2. taken = [i \in 0..n |-> Rule(taken, i)]
      <4> HIDE DEF taken, After, n
      <4> QED  BY <1>7
    <3>3. Rule(taken, 0) = {x}
      OBVIOUS
    <3>4. \A i \in 1..n : Rule(taken, i) = {After(i, b) : b \in taken[i - 1]}
      <4> HIDE DEF taken, After, n
      <4> QED  OBVIOUS
    <3>5. 0 \in 0..n /\ \A i \in 1..n : i \in 0..n
      BY <3>1
    <3> HIDE DEF taken, Rule, After, n
    <3>6. taken[0] = Rule(taken, 0) /\ \A i \in 1..n : taken[i] = Rule(taken, i)
      BY <3>2, <3>5
    <3>7. \A i \in 1..n : taken[i] = {After(i, b) : b \in taken[i - 1]}
      BY <3>4, <3>6
    <3> QED  BY <3>3, <3>6, <3>7
  <2> HIDE DEF taken, After
  <2>2. \A i \in 1..n : \A b \in S : taken[i - 1] = {b} => taken[i] = {G[i][b]}
    <3> HIDE DEF G, S, n
    <3> SUFFICES ASSUME NEW i \in 1..n, NEW b \in S, taken[i - 1] = {b}
                 PROVE  taken[i] = {G[i][b]}
      OBVIOUS
    <3>1. taken[i] = {After(i, a) : a \in {b}} /\ G[i][b] = After(i, b)
      BY <1>4, <2>1
    <3> QED  BY <3>1
  <2>3. x \in S /\ n \in Nat
    BY <1>2
  <2>4. G \in [1..n -> [S -> S]]
    BY <1>4
  <2> HIDE DEF G, S, n
  <2>5. Singly(taken, n, S, x, G)
    BY <2>1, <2>2 DEF Singly
  <2>6. Only(taken[n]) = g[n]
    BY <1>5, <2>3, <2>4, <2>5, OneByOne
  <2> QED  BY <1>1, <2>6 DEF Only
<1>9. Grows(r, g, requested, n) /\ Held(r, g[0])
  <2>1. Grows(r, g, requested, n)
    BY <1>6 DEF Grows, Taken
  <2> QED  BY <1>6, <2>1 DEF x
<1>10. Held(r, g[n]) /\ Extends(g[0], g[n])
  BY <1>2, <1>9, GrowsHeld
<1> QED  BY <1>1, <1>6, <1>8, <1>10 DEF x

\* The first of a sequence of chunks are chunks too.
LEMMA FirstOfFits ==
  ASSUME NEW S, NEW s \in Seq(S), NEW n \in Nat
  PROVE  FirstOf(s, n) \in Seq(S)
<1>1. Min({n, Len(s)}) = IF n <= Len(s) THEN n ELSE Len(s)
  <2>1. n \in Nat /\ Len(s) \in Nat
    OBVIOUS
  <2> QED  BY <2>1 DEF Min
<1>2. Min({n, Len(s)}) \in 0..Len(s)
  BY <1>1
<1>3. \A m \in 0..Len(s) : SubSeq(s, 1, m) \in Seq(S)
  OBVIOUS
<1> QED  BY <1>2, <1>3 DEF FirstOf

\* The chunks of a sequence that are missing in a packet are chunks of it.
LEMMA MissingFits ==
  ASSUME NEW S, NEW p, NEW chunks \in Seq(S)
  PROVE  Missing(p, chunks) \in Seq(S)
<1> DEFINE open == {i \in DOMAIN chunks : chunks[i] \notin ToSet(p.chunks)}
<1>1. DOMAIN chunks = 1..Len(chunks) /\ Len(chunks) \in Nat /\ IsFiniteSet(1..Len(chunks))
  BY FS_Interval
<1>2. open \in SUBSET Nat /\ IsFiniteSet(open) /\ open \in SUBSET DOMAIN chunks
  BY <1>1, FS_Subset
<1>3. Missing(p, chunks) = [k \in DOMAIN InOrder(open) |-> chunks[InOrder(open)[k]]]
  BY DEF Missing
<1> HIDE DEF open
<1>4. InOrder(open) \in Seq(open)
  BY <1>2, InOrderFits
<1>5. \A k \in DOMAIN InOrder(open) : chunks[InOrder(open)[k]] \in S
  <2>1. \A k \in DOMAIN InOrder(open) : InOrder(open)[k] \in open
    BY <1>4
  <2>2. \A i \in DOMAIN chunks : chunks[i] \in S
    OBVIOUS
  <2> QED  BY <1>2, <2>1, <2>2
<1>6. DOMAIN InOrder(open) = 1..Len(InOrder(open)) /\ Len(InOrder(open)) \in Nat
  BY <1>4
<1> QED  BY <1>3, <1>5, <1>6

\* The chunks that may fill a gap are chunks of the registry.
LEMMA NeutralFits ==
  ASSUME corpus \in Corpus, NEW d
  PROVE  Neutral(d) \in Seq(Chunks(corpus))
<1> DEFINE neutral == {c \in Chunks(corpus) \ ToSet(Candidates(corpus, d)) :
                         d \in corpus.chunks[c].found \cup corpus.chunks[c].located}
<1>1. Chunks(corpus) = 1..Len(corpus.chunks) /\ Len(corpus.chunks) \in Nat
  BY DEF Chunks, Corpus
<1>2. IsFiniteSet(Chunks(corpus))
  BY <1>1, FS_Interval
<1>3. neutral \in SUBSET Nat /\ IsFiniteSet(neutral) /\ neutral \in SUBSET Chunks(corpus)
  BY <1>1, <1>2, FS_Subset
<1>4. Neutral(d) = InOrder(neutral)
  BY DEF Neutral
<1> HIDE DEF neutral
<1>5. InOrder(neutral) \in Seq(neutral)
  BY <1>3, InOrderFits
<1>6. \A k \in DOMAIN InOrder(neutral) : InOrder(neutral)[k] \in Chunks(corpus)
  <2>1. \A k \in DOMAIN InOrder(neutral) : InOrder(neutral)[k] \in neutral
    BY <1>5
  <2> QED  BY <1>3, <2>1
<1> QED  BY <1>4, <1>5, <1>6

\* The chunks that hold a term, by how many they hold, are chunks of the registry.
LEMMA MatchingFits ==
  ASSUME corpus \in Corpus, NEW p, NEW terms, terms \in SUBSET Terms
  PROVE  Matching(p, terms) \in Seq(Chunks(corpus))
<1> DEFINE Score(c) == Cardinality(corpus.chunks[c].terms \cap terms)
           found == {c \in Chunks(corpus) \ ToSet(p.chunks) : Score(c) > 0}
           Before(e, c) == Score(e) > Score(c) \/ (Score(e) = Score(c) /\ e <= c)
           order == {pair \in found \X found : Before(pair[1], pair[2])}
           N == Cardinality(found)
<1>1. Matching(p, terms) =
        [k \in 1..N |-> CHOOSE c \in found : Cardinality({e \in found : Before(e, c)}) = k]
  BY DEF Matching
<1>2. Chunks(corpus) = 1..Len(corpus.chunks) /\ Len(corpus.chunks) \in Nat
  BY DEF Chunks, Corpus
<1>3. found \in SUBSET Nat /\ IsFiniteSet(found) /\ found \in SUBSET Chunks(corpus)
  <2>1. IsFiniteSet(Chunks(corpus))
    BY <1>2, FS_Interval
  <2>2. found \in SUBSET Chunks(corpus)
    OBVIOUS
  <2> HIDE DEF found
  <2> QED  BY <1>2, <2>1, <2>2, FS_Subset
<1>4. ASSUME NEW c PROVE Score(c) \in Nat
  <2>1. corpus.chunks[c].terms \cap terms \in SUBSET Terms /\ IsFiniteSet(Terms)
    BY RetrievalAssumption
  <2>2. IsFiniteSet(corpus.chunks[c].terms \cap terms)
    BY <2>1, FS_Subset
  <2> QED  BY <2>2, FS_CardinalityType
<1>5. \A c \in found, e \in found : <<c, e>> \in order <=> Before(c, e)
  <2> HIDE DEF found, Before
  <2> QED  OBVIOUS
<1>6. order \in SUBSET (found \X found)
  <2> HIDE DEF found, Before
  <2> QED  OBVIOUS
<1> HIDE DEF found, Score, order
<1>7. Total(found, order)
  <2>1. ASSUME NEW c \in found, NEW e \in found
        PROVE  \/ <<c, e>> \in order /\ (<<e, c>> \in order <=> c = e)
               \/ <<e, c>> \in order /\ <<c, e>> \notin order
    <3>1. c \in Nat /\ e \in Nat /\ Score(c) \in Nat /\ Score(e) \in Nat
      BY <1>3, <1>4
    <3>2. (<<c, e>> \in order <=> Before(c, e)) /\ (<<e, c>> \in order <=> Before(e, c))
      BY <1>5
    <3> QED  BY <3>1, <3>2
  <2>2. ASSUME NEW b \in found, NEW c \in found, NEW e \in found,
               <<b, c>> \in order, <<c, e>> \in order
        PROVE  <<b, e>> \in order
    <3>1. /\ b \in Nat /\ c \in Nat /\ e \in Nat
          /\ Score(b) \in Nat /\ Score(c) \in Nat /\ Score(e) \in Nat
      BY <1>3, <1>4
    <3>2. Before(b, c) /\ Before(c, e)
      BY <1>5, <2>2
    <3>3. Before(b, e)
      BY <3>1, <3>2
    <3> QED  BY <1>5, <3>3
  <2> QED  BY <1>6, <2>1, <2>2 DEF Total
<1>8. N \in Nat /\ \A k \in 1..N : \E c \in found : Cardinality(UpTo(found, order, c)) = k
  BY <1>3, <1>7, Ranks
<1>9. ASSUME NEW c \in found PROVE UpTo(found, order, c) = {e \in found : Before(e, c)}
  <2> HIDE DEF Before
  <2> QED  BY <1>5 DEF UpTo
<1> HIDE DEF Before
<1>10. ASSUME NEW k \in 1..N PROVE Matching(p, terms)[k] \in found
  <2>1. \E c \in found : Cardinality({e \in found : Before(e, c)}) = k
    BY <1>8, <1>9
  <2> HIDE DEF N
  <2>2. Matching(p, terms)[k] = CHOOSE c \in found : Cardinality({e \in found : Before(e, c)}) = k
    BY <1>1
  <2> QED  BY <2>1, <2>2
<1>11. Matching(p, terms) \in [1..N -> Chunks(corpus)]
  <2>1. \A k \in 1..N : Matching(p, terms)[k] \in Chunks(corpus)
    BY <1>3, <1>10
  <2> HIDE DEF N
  <2> QED  BY <1>1, <2>1
<1> QED  BY <1>8, <1>11

\* A packet without a chunk twice is as long as its set of chunks, and never
\* longer than the registry.
LEMMA DistinctCounted ==
  ASSUME NEW r \in Corpus, NEW s \in Seq(Chunks(r)), Distinct(s)
  PROVE  /\ Cardinality(ToSet(s)) = Len(s) /\ Len(s) \in 0..Len(r.chunks)
         /\ Len(r.chunks) \in Nat
<1>1. DOMAIN s = 1..Len(s) /\ Len(s) \in Nat
  OBVIOUS
<1>2. IsFiniteSet(1..Len(s)) /\ Cardinality(1..Len(s)) = Len(s)
  BY <1>1, FS_Interval
<1>3. s \in Bijection(1..Len(s), ToSet(s))
  <2>1. s \in [1..Len(s) -> ToSet(s)] /\ \A c \in ToSet(s) : \E i \in 1..Len(s) : s[i] = c
    BY <1>1 DEF ToSet
  <2> QED  BY <1>1, <2>1 DEF Bijection, Injection, Surjection, IsInjective, Distinct
<1>4. IsFiniteSet(ToSet(s)) /\ Cardinality(ToSet(s)) = Len(s)
  BY <1>2, <1>3, FS_Bijection DEF ExistsBijection
<1>5. Chunks(r) = 1..Len(r.chunks) /\ Len(r.chunks) \in Nat
  BY DEF Chunks, Corpus
<1>6. IsFiniteSet(Chunks(r)) /\ Cardinality(Chunks(r)) = Len(r.chunks)
  BY <1>5, FS_Interval
<1>7. ToSet(s) \in SUBSET Chunks(r)
  BY DEF ToSet
<1>8. Cardinality(ToSet(s)) <= Cardinality(Chunks(r))
  BY <1>6, <1>7, FS_Subset
<1> QED  BY <1>1, <1>4, <1>5, <1>6, <1>8

\* What a packet is
Sound(r, p) == Held(r, p.chunks) /\ p.total \in 0..Len(r.chunks)

\* A pass makes a packet of a packet and keeps what it held.
LEMMA PassKeeps ==
  ASSUME NEW r \in Corpus, NEW p, Sound(r, p), NEW requested \in Seq(Chunks(r))
  PROVE  LET q == Expanded(r, p, requested) IN Sound(r, q) /\ Extends(p.chunks, q.chunks)
<1> DEFINE q == Expanded(r, p, requested)
<1>1. Held(r, q.chunks) /\ Extends(p.chunks, q.chunks) /\ q.total = Max({p.total, Len(q.chunks)})
  BY ExpandedHeld DEF Sound
<1> HIDE DEF q
<1>2. Len(q.chunks) \in 0..Len(r.chunks) /\ p.total \in 0..Len(r.chunks)
  BY <1>1, DistinctCounted DEF Held, Sound
<1>3. Max({p.total, Len(q.chunks)}) \in {p.total, Len(q.chunks)}
  <2>1. p.total \in Int /\ Len(q.chunks) \in Int
    BY <1>2
  <2>2. \A a \in Int, b \in Int : Max({a, b}) \in {a, b}
    BY DEF Max
  <2> QED  BY <2>1, <2>2
<1>4. Sound(r, q)
  BY <1>1, <1>2, <1>3 DEF Sound
<1> QED  BY <1>1, <1>4 DEF q

\* The packet a domain is analysed with holds its routed evidence.
LEMMA RetrievedHeld ==
  ASSUME corpus \in Corpus, NEW d
  PROVE  LET q == Retrieved(d, BaselinePacket(d))
         IN  Sound(corpus, q) /\ Extends(RoutedChunks(corpus, d), q.chunks)
<1> DEFINE p == BaselinePacket(d)
           routed == RetrievalPass(p, Candidates(corpus, d))
           whole == RetrievalPass(routed, Neutral(d))
           q == Retrieved(d, p)
<1>1. p.chunks = RoutedChunks(corpus, d) /\ p.total = Len(Candidates(corpus, d))
  BY DEF BaselinePacket, Packet
<1>2. Sound(corpus, p)
  <2>1. Held(corpus, RoutedChunks(corpus, d))
    BY RoutedHeld
  <2>2. Len(Candidates(corpus, d)) \in 0..Len(corpus.chunks)
    BY CandidatesFit, DistinctCounted
  <2> QED  BY <1>1, <2>1, <2>2 DEF Sound
<1>3. q \in {p, routed, whole}
  <2> HIDE DEF p
  <2> QED  BY DEF Retrieved
<1>4. MaxSelections \in Nat
  BY RetrievalAssumption
<1> HIDE DEF p
<1>5. Sound(corpus, routed) /\ Extends(p.chunks, routed.chunks)
  <2>1. FirstOf(Missing(p, Candidates(corpus, d)), MaxSelections) \in Seq(Chunks(corpus))
    BY <1>4, CandidatesFit, MissingFits, FirstOfFits
  <2> QED  BY <1>2, <2>1, PassKeeps DEF RetrievalPass
<1> HIDE DEF routed
<1>6. Sound(corpus, whole) /\ Extends(routed.chunks, whole.chunks)
  <2>1. FirstOf(Missing(routed, Neutral(d)), MaxSelections) \in Seq(Chunks(corpus))
    BY <1>4, NeutralFits, MissingFits, FirstOfFits
  <2> QED  BY <1>5, <2>1, PassKeeps DEF RetrievalPass
<1> HIDE DEF whole
<1>7. Extends(p.chunks, p.chunks) /\ Extends(p.chunks, whole.chunks)
  BY <1>2, <1>5, <1>6, ExtendsFurther DEF Sound, Held
<1>8. Sound(corpus, q) /\ Extends(p.chunks, q.chunks)
  <2> HIDE DEF q
  <2> QED  BY <1>2, <1>3, <1>5, <1>6, <1>7
<1> QED  BY <1>1, <1>8 DEF p, q

\* So is a packet that a search expands.
LEMMA SearchHeld ==
  ASSUME corpus \in Corpus, NEW p, Sound(corpus, p), NEW terms, terms \in SUBSET Terms
  PROVE  LET q == SearchExpanded(p, terms) IN Sound(corpus, q) /\ Extends(p.chunks, q.chunks)
<1>1. MaxSelections \in Nat
  BY RetrievalAssumption
<1>2. FirstOf(Matching(p, terms), MaxSelections) \in Seq(Chunks(corpus))
  BY <1>1, MatchingFits, FirstOfFits
<1> QED  BY <1>2, PassKeeps DEF SearchExpanded

-----------------------------------------------------------------------------
(* The invariant of a run *)

\* Every packet is within the limit and holds no chunk twice.
Packed == \A d \in Domains : /\ Sound(corpus, first[d]) /\ Sound(corpus, packet[d])
                             /\ Sound(corpus, effective[d])

\* The routed evidence is in front of the first packet of a domain, the first in
\* front of the expanded one.  The first ones are effective while domains are
\* analysed.
Kept ==
  run \in {"analysis", "accepted"} =>
    \A d \in Domains : /\ Extends(RoutedChunks(corpus, d), first[d].chunks)
                       /\ Extends(first[d].chunks, packet[d].chunks)
                       /\ run = "analysis" => effective[d] = first[d]

\* What was shown is in the expanded packet, which an accepted run makes effective.
Traced ==
  /\ run = "acquisition" => \A d \in Domains : shown[d] = {}
  /\ run # "acquisition" => \A d \in Domains : shown[d] \subseteq ToSet(packet[d].chunks)
  /\ run = "accepted" => effective = packet

\* Terms are asked for while a pass is left.
Searching == \A d \in Domains : at[d] = "search" => pass[d] < Passes

RInv == TypeOK /\ Packed /\ Kept /\ Traced /\ Searching

\* The invariant says what the runs check.
LEMMA RInvSuffices ==
  ASSUME RInv
  PROVE  DirectEvidenceKept /\ ShownIsTraceable
<1>1. corpus \in Corpus
  BY RetrievalAssumption DEF RInv, TypeOK
<1>2. ASSUME NEW d \in Domains, NEW p \in {first[d], packet[d], effective[d]}
      PROVE  /\ Length(corpus, p.chunks) <= HardChars
             /\ Cardinality(ToSet(p.chunks)) = Len(p.chunks)
             /\ run \in {"analysis", "accepted"} => IsPrefix(RoutedChunks(corpus, d), p.chunks)
  <2>1. Held(corpus, p.chunks)
    BY DEF RInv, Packed, Sound
  <2>2. /\ Length(corpus, p.chunks) <= HardChars
        /\ Cardinality(ToSet(p.chunks)) = Len(p.chunks)
    BY <1>1, <2>1, DistinctCounted DEF Held
  <2>3. ASSUME run \in {"analysis", "accepted"} PROVE IsPrefix(RoutedChunks(corpus, d), p.chunks)
    <3>1. /\ Extends(RoutedChunks(corpus, d), first[d].chunks)
          /\ Extends(first[d].chunks, packet[d].chunks)
          /\ p \in {first[d], packet[d]}
      BY <2>3 DEF RInv, Kept, Traced
    <3>2. /\ RoutedChunks(corpus, d) \in Seq(Chunks(corpus))
          /\ first[d].chunks \in Seq(Chunks(corpus)) /\ packet[d].chunks \in Seq(Chunks(corpus))
      BY <1>1, RoutedHeld DEF RInv, Packed, Sound, Held
    <3>3. Extends(RoutedChunks(corpus, d), p.chunks) /\ p.chunks \in Seq(Chunks(corpus))
      BY <3>1, <3>2, ExtendsFurther
    <3> QED  BY <3>2, <3>3, ExtendsFurther
  <2> QED  BY <2>2, <2>3
<1>3. DirectEvidenceKept
  BY <1>2 DEF DirectEvidenceKept
<1>4. ShownIsTraceable
  BY DEF RInv, Traced, ShownIsTraceable
<1> QED  BY <1>3, <1>4

\* Nothing has been read or shown.
LEMMA RInvInit ==
  ASSUME Init
  PROVE  RInv
<1>1. corpus \in Corpora /\ corpus \in Corpus
  BY RetrievalAssumption DEF Init
<1>2. \A d \in Domains : NoPackets[d] = [chunks |-> <<>>, total |-> 0]
  BY DEF NoPackets, Packet
<1>3. DOMAIN NoPackets = Domains
  BY DEF NoPackets
<1>4. <<>> \in Seq(Chunks(corpus)) /\ Length(corpus, <<>>) = 0 /\ Len(corpus.chunks) \in Nat
  <2>1. <<>> \in Seq(Chunks(corpus))
    OBVIOUS
  <2>2. Length(corpus, <<>>) = 0
    BY <1>1, <2>1, LengthAdds
  <2>3. Len(corpus.chunks) \in Nat
    BY <1>1 DEF Corpus
  <2> QED  BY <2>1, <2>2, <2>3
<1>5. Sound(corpus, [chunks |-> <<>>, total |-> 0])
  <2>1. Held(corpus, <<>>)
    BY <1>4, RetrievalAssumption DEF Held, Distinct
  <2> QED  BY <1>4, <2>1 DEF Sound
<1>6. Packed /\ Kept /\ Traced /\ Searching
  BY <1>2, <1>5 DEF Init, Packed, Kept, Traced, Searching
<1>7. TypeOK
  <2>1. \A d \in Domains : /\ NoPackets[d].chunks \in Seq(Chunks(corpus))
                           /\ NoPackets[d].total \in 0..Len(corpus.chunks)
    <3>1. 0 \in 0..Len(corpus.chunks)
      BY <1>4
    <3>2. \A d \in Domains : NoPackets[d].chunks = <<>> /\ NoPackets[d].total = 0
      BY <1>2
    <3> QED  BY <1>4, <3>1, <3>2
  <2>2. 1 \in 1..Attempts /\ 0 \in 0..Passes
    BY RetrievalAssumption
  <2> QED  BY <1>1, <1>3, <2>1, <2>2 DEF Init, TypeOK
<1> QED  BY <1>6, <1>7 DEF RInv

\* The warnings name domains and counts.
LEMMA WarningsFit ==
  ASSUME NEW packets, \A d \in Domains : /\ packets[d].chunks \in Seq(Chunks(corpus))
                                         /\ packets[d].total \in Nat
  PROVE  CoverageWarnings(packets) \subseteq Domains \X Nat \X Nat
<1>1. \A d \in Domains : Len(packets[d].chunks) \in Nat
  OBVIOUS
<1> QED  BY <1>1 DEF CoverageWarnings

\* The packets a run begins with, or none when they are not approved
LEMMA AcquireKeeps ==
  ASSUME RInv, Acquire
  PROVE  RInv'
<1> DEFINE packets == [d \in Domains |-> Retrieved(d, BaselinePacket(d))]
<1>1. corpus \in Corpora /\ corpus \in Corpus
  BY RetrievalAssumption DEF RInv, TypeOK
<1>2. ASSUME NEW d \in Domains
      PROVE  /\ Sound(corpus, packets[d])
             /\ Extends(RoutedChunks(corpus, d), packets[d].chunks)
             /\ Extends(packets[d].chunks, packets[d].chunks)
  <2>1. packets[d] = Retrieved(d, BaselinePacket(d))
    OBVIOUS
  <2>2. Sound(corpus, packets[d]) /\ Extends(RoutedChunks(corpus, d), packets[d].chunks)
    <3> HIDE DEF packets
    <3> QED  BY <1>1, <2>1, RetrievedHeld
  <2> HIDE DEF packets
  <2> QED  BY <2>2, ExtendsFurther DEF Sound, Held
<1>3. DOMAIN packets = Domains
  OBVIOUS
<1>4. /\ run = "acquisition"
      /\ \/ /\ run' = "analysis" /\ first' = packets /\ packet' = packets
            /\ effective' = packets /\ warnings' = CoverageWarnings(packets)
            /\ readiness' = Readiness(packets)
         \/ run' = "stopped" /\ UNCHANGED <<first, packet, runVars>>
      /\ UNCHANGED <<corpus, at, attempt, pass, seen, judged, shown>>
  <2> HIDE DEF packets
  <2> QED  BY DEF Acquire, packets
<1> HIDE DEF packets
<1>5. \A d \in Domains : shown[d] = {}
  BY <1>4 DEF RInv, Traced
<1>6. CASE run' = "stopped" /\ UNCHANGED <<first, packet, runVars>>
  <2>1. TypeOK'
    BY <1>4, <1>6 DEF RInv, TypeOK, runVars
  <2>2. Packed' /\ Searching'
    BY <1>4, <1>6 DEF RInv, Packed, Searching, runVars
  <2>3. Kept' /\ Traced'
    BY <1>4, <1>5, <1>6 DEF Kept, Traced
  <2> QED  BY <2>1, <2>2, <2>3 DEF RInv
<1>7. CASE /\ run' = "analysis" /\ first' = packets /\ packet' = packets
           /\ effective' = packets /\ warnings' = CoverageWarnings(packets)
           /\ readiness' = Readiness(packets)
  <2>1. \A d \in Domains : /\ packets[d].chunks \in Seq(Chunks(corpus))
                           /\ packets[d].total \in 0..Len(corpus.chunks)
                           /\ packets[d].total \in Nat
    BY <1>2 DEF Sound, Held
  <2>2. CoverageWarnings(packets) \subseteq Domains \X Nat \X Nat
    BY <2>1, WarningsFit
  <2>3. Readiness(packets) \in {"READY", "READY_WITH_WARNINGS"}
    BY DEF Readiness
  <2>4. TypeOK'
    BY <1>3, <1>4, <1>7, <2>1, <2>2, <2>3 DEF RInv, TypeOK
  <2>5. Packed' /\ Searching'
    BY <1>2, <1>4, <1>7 DEF RInv, Packed, Searching
  <2>6. Kept'
    BY <1>2, <1>4, <1>7 DEF Kept
  <2>7. Traced'
    BY <1>4, <1>5, <1>7 DEF Traced
  <2> QED  BY <2>4, <2>5, <2>6, <2>7 DEF RInv
<1> QED  BY <1>4, <1>6, <1>7

\* The expanded packets become the effective ones.
LEMMA AcceptKeeps ==
  ASSUME RInv, Accept
  PROVE  RInv'
<1>1. /\ run = "analysis" /\ effective' = packet
      /\ \/ /\ warnings' = CoverageWarnings(packet) /\ readiness' = Readiness(packet)
            /\ run' \in {"stopped", "accepted"}
         \/ run' = "stopped" /\ UNCHANGED <<warnings, readiness>>
      /\ UNCHANGED <<corpus, domainVars>>
  BY DEF Accept, Effective, WarningsReplaced
<1>2. UNCHANGED <<corpus, at, attempt, pass, first, packet, seen, judged, shown>>
  BY <1>1 DEF domainVars
<1>3. TypeOK'
  <2>1. \A d \in Domains : packet[d].chunks \in Seq(Chunks(corpus)) /\ packet[d].total \in Nat
    BY DEF RInv, TypeOK
  <2>2. CoverageWarnings(packet) \subseteq Domains \X Nat \X Nat
    BY <2>1, WarningsFit
  <2>3. Readiness(packet) \in {"READY", "READY_WITH_WARNINGS"}
    BY DEF Readiness
  <2>4. warnings' \subseteq Domains \X Nat \X Nat /\ readiness' \in {"READY", "READY_WITH_WARNINGS"}
    BY <1>1, <2>2, <2>3 DEF RInv, TypeOK
  <2> QED  BY <1>1, <1>2, <2>4 DEF RInv, TypeOK
<1>4. Packed' /\ Searching'
  BY <1>1, <1>2 DEF RInv, Packed, Searching
<1>5. Kept'
  BY <1>1, <1>2 DEF RInv, Kept
<1>6. Traced'
  BY <1>1, <1>2 DEF RInv, Traced
<1> QED  BY <1>3, <1>4, <1>5, <1>6 DEF RInv

\* A search adds to the packet it expands, and leaves it whole when it fails.
LEMMA SearchKeeps ==
  ASSUME RInv, NEW d \in Domains, Search(d) \/ SearchFails(d)
  PROVE  RInv'
<1>1. PICK q :
        /\ q = packet[d] \/ \E terms \in SUBSET Terms : q = SearchExpanded(packet[d], terms)
        /\ DOMAIN packet' = Domains /\ packet'[d] = q
        /\ \A e \in Domains : e # d => packet'[e] = packet[e]
        /\ seen' \in [Domains -> SUBSET Terms]
        /\ \/ at' = [at EXCEPT ![d] = "rescan"] /\ pass' = [pass EXCEPT ![d] = @ + 1]
           \/ at' = [at EXCEPT ![d] = "settled"] /\ UNCHANGED pass
           \/ \E to \in {"scan", "failed"} :
                at' = [at EXCEPT ![d] = to] /\ pass' = [pass EXCEPT ![d] = 0]
        /\ attempt' \in [Domains -> 1..Attempts]
  <2>1. /\ Attempts \in Nat /\ attempt \in [Domains -> 1..Attempts]
        /\ DOMAIN packet = Domains /\ seen \in [Domains -> SUBSET Terms]
    BY RetrievalAssumption DEF RInv, TypeOK
  <2>2. CASE Search(d)
    <3>1. PICK terms \in SUBSET (Terms \ seen[d]) :
            /\ seen' = [seen EXCEPT ![d] = @ \cup terms]
            /\ packet' = [packet EXCEPT ![d] = SearchExpanded(packet[d], terms)]
            /\ \/ at' = [at EXCEPT ![d] = "rescan"] /\ pass' = [pass EXCEPT ![d] = @ + 1]
               \/ at' = [at EXCEPT ![d] = "settled"] /\ UNCHANGED pass
      BY <2>2 DEF Search
    <3>2. seen' \in [Domains -> SUBSET Terms]
      BY <2>1, <3>1
    <3>3. attempt' = attempt
      BY <2>2 DEF Search
    <3>4. attempt' \in [Domains -> 1..Attempts]
      BY <2>1, <3>3
    <3> WITNESS SearchExpanded(packet[d], terms)
    <3>5. \E some \in SUBSET Terms :
            SearchExpanded(packet[d], terms) = SearchExpanded(packet[d], some)
      OBVIOUS
    <3>6. /\ DOMAIN packet' = Domains /\ packet'[d] = SearchExpanded(packet[d], terms)
          /\ \A e \in Domains : e # d => packet'[e] = packet[e]
      BY <2>1, <3>1
    <3> QED  BY <3>1, <3>2, <3>4, <3>5, <3>6
  <2>3. CASE SearchFails(d)
    <3>1. attempt' \in [Domains -> 1..Attempts] /\ \E to \in {"scan", "failed"} :
                                                      at' = [at EXCEPT ![d] = to]
      BY <2>1, <2>3 DEF SearchFails, Retry
    <3>2. seen' \in [Domains -> SUBSET Terms] /\ pass' = [pass EXCEPT ![d] = 0]
      BY <2>1, <2>3 DEF SearchFails
    <3>3. CASE UNCHANGED packet
      BY <2>1, <3>1, <3>2, <3>3
    <3>4. CASE \E terms \in SUBSET (Terms \ seen[d]) :
                 packet' = [packet EXCEPT ![d] = SearchExpanded(packet[d], terms)]
      BY <2>1, <3>1, <3>2, <3>4
    <3> QED  BY <2>3, <3>3, <3>4 DEF SearchFails
  <2> QED  BY <2>2, <2>3
<1>2. run = "analysis" /\ at[d] = "search"
      /\ UNCHANGED <<corpus, run, first, judged, shown, effective, warnings, readiness>>
  BY DEF Search, SearchFails, runVars
<1>3. corpus \in Corpora /\ corpus \in Corpus
  BY RetrievalAssumption DEF RInv, TypeOK
<1>4. Sound(corpus, q) /\ Extends(packet[d].chunks, q.chunks)
  <2>1. Sound(corpus, packet[d])
    BY DEF RInv, Packed
  <2>2. Extends(packet[d].chunks, packet[d].chunks)
    BY <2>1, ExtendsFurther DEF Sound, Held
  <2> QED  BY <1>1, <1>3, <2>1, <2>2, SearchHeld
<1>5. /\ DOMAIN packet = Domains /\ DOMAIN packet' = Domains /\ packet'[d] = q
      /\ \A e \in Domains : e # d => packet'[e] = packet[e]
  BY <1>1 DEF RInv, TypeOK
<1>6. TypeOK'
  <2>1. \A e \in Domains : /\ packet'[e].chunks \in Seq(Chunks(corpus))
                           /\ packet'[e].total \in 0..Len(corpus.chunks)
    BY <1>4, <1>5 DEF RInv, TypeOK, Sound, Held
  <2>2. pass' \in [Domains -> 0..Passes]
    <3>1. pass \in [Domains -> 0..Passes] /\ pass[d] < Passes /\ Passes \in Nat
      BY <1>2, RetrievalAssumption DEF RInv, TypeOK, Searching
    <3>2. pass[d] + 1 \in 0..Passes /\ 0 \in 0..Passes
      BY <3>1
    <3> QED  BY <1>1, <3>1, <3>2
  <2>3. /\ seen' \in [Domains -> SUBSET Terms]
        /\ at' \in [Domains -> {"scan", "check", "decide", "search", "rescan", "recheck",
                                "settled", "failed"}]
    BY <1>1 DEF RInv, TypeOK
  <2>4. attempt' \in [Domains -> 1..Attempts]
    BY <1>1
  <2> QED  BY <1>2, <1>5, <2>1, <2>2, <2>3, <2>4 DEF RInv, TypeOK
<1>7. Packed'
  BY <1>2, <1>4, <1>5 DEF RInv, Packed
<1>8. Searching'
  <2>1. \A e \in Domains : /\ e # d => at'[e] = at[e] /\ pass'[e] = pass[e]
                           /\ at'[d] # "search"
    BY <1>1 DEF RInv, TypeOK
  <2> QED  BY <2>1 DEF RInv, Searching
<1>9. ASSUME NEW e \in Domains
      PROVE  Extends(packet[e].chunks, packet'[e].chunks)
  <2>1. packet[e].chunks \in Seq(Chunks(corpus))
    BY DEF RInv, TypeOK
  <2> QED  BY <1>4, <1>5, <2>1, ExtendsFurther
<1>10. ASSUME NEW e \in Domains
       PROVE  /\ Extends(first[e].chunks, packet'[e].chunks)
              /\ ToSet(packet[e].chunks) \in SUBSET ToSet(packet'[e].chunks)
  <2>1. /\ first[e].chunks \in Seq(Chunks(corpus)) /\ packet[e].chunks \in Seq(Chunks(corpus))
        /\ packet'[e].chunks \in Seq(Chunks(corpus))
    BY <1>2, <1>6 DEF RInv, TypeOK
  <2>2. Extends(first[e].chunks, packet[e].chunks)
    BY <1>2 DEF RInv, Kept
  <2> QED  BY <1>9, <2>1, <2>2, ExtendsFurther
<1>11. Kept'
  BY <1>2, <1>5, <1>10 DEF RInv, Kept
<1>12. Traced'
  BY <1>2, <1>10 DEF RInv, Traced
<1> QED  BY <1>6, <1>7, <1>8, <1>11, <1>12 DEF RInv

\* The other steps of an analysis leave the packets as they are, and show no other
\* chunks than those of the first or of the expanded packet.
LEMMA ShowKeeps ==
  ASSUME RInv, TypeOK', Searching', run = "analysis",
         UNCHANGED <<corpus, run, first, packet, effective>>,
         NEW d \in Domains, NEW p \in {first[d], packet[d]}, UNCHANGED shown \/ Show(d, p)
  PROVE  RInv'
<1>1. Packed' /\ Kept'
  BY DEF RInv, Packed, Kept
<1>2. shown \in [Domains -> SUBSET Chunks(corpus)]
  BY DEF RInv, TypeOK
<1>3. ToSet(p.chunks) \in SUBSET ToSet(packet[d].chunks)
  <2>1. first[d].chunks \in Seq(Chunks(corpus)) /\ packet[d].chunks \in Seq(Chunks(corpus))
    BY DEF RInv, TypeOK
  <2>2. Extends(first[d].chunks, packet[d].chunks)
    BY DEF RInv, Kept
  <2> QED  BY <2>1, <2>2, ExtendsFurther
<1>4. \A e \in Domains : shown'[e] \subseteq ToSet(packet[e].chunks)
  <2>1. \A e \in Domains : shown[e] \subseteq ToSet(packet[e].chunks)
    BY DEF RInv, Traced
  <2>2. \A e \in Domains : \/ shown'[e] \subseteq shown[e]
                           \/ e = d /\ shown'[e] \subseteq shown[e] \cup ToSet(p.chunks)
    BY <1>2 DEF Show
  <2> QED  BY <1>3, <2>1, <2>2
<1>5. Traced'
  BY <1>4 DEF Traced
<1> QED  BY <1>1, <1>5 DEF RInv

\* What a model may be shown are chunks of the registry.
LEMMA ShowFits ==
  ASSUME RInv, NEW d \in Domains, NEW p \in {first[d], packet[d]},
         UNCHANGED shown \/ Show(d, p)
  PROVE  /\ shown' \in [Domains -> SUBSET Chunks(corpus)]
         /\ ToSet(p.chunks) \in SUBSET Chunks(corpus)
<1>1. shown \in [Domains -> SUBSET Chunks(corpus)] /\ p.chunks \in Seq(Chunks(corpus))
  BY DEF RInv, TypeOK
<1>2. ToSet(p.chunks) \in SUBSET Chunks(corpus)
  BY <1>1 DEF ToSet
<1> QED  BY <1>1, <1>2 DEF Show

\* A step of the analysis of a domain keeps the invariant.
LEMMA AnalyseKeeps ==
  ASSUME RInv, NEW d \in Domains, Analyse(d)
  PROVE  RInv'
<1> DEFINE Steps == {"scan", "check", "decide", "search", "rescan", "recheck",
                     "settled", "failed"}
<1>1. /\ TypeOK /\ Searching /\ at \in [Domains -> Steps]
      /\ attempt \in [Domains -> 1..Attempts] /\ pass \in [Domains -> 0..Passes]
      /\ judged \in [Domains -> SUBSET Chunks(corpus)]
      /\ Attempts \in Nat /\ Passes \in Nat
  BY RetrievalAssumption DEF RInv, TypeOK
\* What the steps but the search have in common
<1>2. ASSUME run = "analysis",
             UNCHANGED <<corpus, run, pass, first, packet, seen, effective, warnings, readiness>>,
             NEW to \in Steps, at' = [at EXCEPT ![d] = to], to = "search" => pass[d] < Passes,
             attempt' \in [Domains -> 1..Attempts],
             NEW p \in {first[d], packet[d]}, UNCHANGED shown \/ Show(d, p),
             UNCHANGED judged \/ judged' = [judged EXCEPT ![d] = ToSet(p.chunks)]
      PROVE  RInv'
  <2>1. shown' \in [Domains -> SUBSET Chunks(corpus)] /\ ToSet(p.chunks) \in SUBSET Chunks(corpus)
    BY <1>2, ShowFits
  <2>2. at' \in [Domains -> Steps] /\ judged' \in [Domains -> SUBSET Chunks(corpus)]
    BY <1>1, <1>2, <2>1
  <2>3. TypeOK'
    BY <1>1, <1>2, <2>1, <2>2 DEF TypeOK
  <2>4. Searching'
    BY <1>1, <1>2 DEF Searching
  <2> QED  BY <1>2, <2>3, <2>4, ShowKeeps
<1>3. CASE Scan(d)
  BY <1>1, <1>2, <1>3 DEF Scan, Go, runVars
<1>4. CASE ScanFails(d)
  <2>1. attempt' \in [Domains -> 1..Attempts] /\ \E to \in {"scan", "failed"} :
                                                    at' = [at EXCEPT ![d] = to]
    BY <1>1, <1>4 DEF ScanFails, Retry
  <2> QED  BY <1>2, <1>4, <2>1 DEF ScanFails, runVars
<1>5. CASE Check(d)
  BY <1>1, <1>2, <1>5 DEF Check, Go, Current, runVars
<1>6. CASE StartPass(d)
  BY <1>1, <1>2, <1>6 DEF StartPass, Go, runVars
<1>7. CASE NoPassLeft(d)
  BY <1>1, <1>2, <1>7 DEF NoPassLeft, Go, runVars
<1>8. CASE Search(d) \/ SearchFails(d)
  BY <1>8, SearchKeeps
<1>9. CASE Rescan(d)
  BY <1>1, <1>2, <1>9 DEF Rescan, Go, runVars
<1>10. CASE RescanFails(d)
  BY <1>1, <1>2, <1>10 DEF RescanFails, Go, runVars
<1>11. CASE Recheck(d)
  BY <1>1, <1>2, <1>11 DEF Recheck, Go, runVars
<1> QED  BY <1>3, <1>4, <1>5, <1>6, <1>7, <1>8, <1>9, <1>10, <1>11 DEF Analyse

\* The packets of every domain keep their routed evidence and their limits, and
\* what was shown stays in them, over every run.
THEOREM RetrievalInvariant == Spec => []RInv
<1>1. Init => RInv
  BY RInvInit
<1>2. RInv /\ [Next]_vars => RInv'
  <2> SUFFICES ASSUME RInv, [Next]_vars PROVE RInv'
    OBVIOUS
  <2>1. CASE Acquire
    BY <2>1, AcquireKeeps
  <2>2. CASE Accept
    BY <2>2, AcceptKeeps
  <2>3. ASSUME NEW d \in Domains, Analyse(d) PROVE RInv'
    BY <2>3, AnalyseKeeps
  <2>4. CASE UNCHANGED vars
    BY <2>4 DEF vars, domainVars, runVars, RInv, TypeOK, Packed, Kept, Traced, Searching
  <2> QED  BY <2>1, <2>2, <2>3, <2>4 DEF Next
<1> QED  BY <1>1, <1>2, PTL DEF Spec

\* Every value of the model has its type (TypeOK).
THEOREM RetrievalTypeCorrect == Spec => []TypeOK
<1>1. RInv => TypeOK
  BY DEF RInv
<1> QED  BY <1>1, RetrievalInvariant, PTL

\* No expansion of a packet, before the analysis or in one of its passes, breaks
\* the limit, adds a chunk twice or moves the routed evidence (DirectEvidenceKept).
THEOREM EvidenceKept == Spec => []DirectEvidenceKept
<1>1. RInv => DirectEvidenceKept
  BY RInvSuffices
<1> QED  BY <1>1, RetrievalInvariant, PTL

\* Whatever a model was shown in any attempt or pass is in the effective packet
\* of an accepted run (ShownIsTraceable).
THEOREM ShownTraceable == Spec => []ShownIsTraceable
<1>1. RInv => ShownIsTraceable
  BY RInvSuffices
<1> QED  BY <1>1, RetrievalInvariant, PTL

-----------------------------------------------------------------------------
(* The documents of an index *)

\* There are as many pathnames as there are places for them.
LEMMA PathsFinite ==
  /\ IsFiniteSet(PathSet) /\ PathSet \in SUBSET STRING
  /\ Len(Paths) \in Nat /\ DOMAIN Paths = 1..Len(Paths)
  /\ \A i, j \in DOMAIN Paths : Paths[i] = Paths[j] => i = j
<1>1. Len(Paths) \in Nat /\ DOMAIN Paths = 1..Len(Paths) /\ Paths \in [1..Len(Paths) -> STRING]
  BY KnowledgeAssumption
<1>2. Paths \in Surjection(1..Len(Paths), PathSet)
  BY <1>1 DEF Surjection, PathSet
<1>3. IsFiniteSet(1..Len(Paths))
  BY <1>1, FS_Interval
<1>4. IsFiniteSet(PathSet)
  BY <1>2, <1>3, FS_Surjection
<1>5. \A i, j \in DOMAIN Paths : Paths[i] = Paths[j] => i = j
  BY KnowledgeAssumption DEF IsInjective
<1> QED  BY <1>1, <1>4, <1>5 DEF PathSet

\* The documents of an index are finitely many, and each is one of the contents.
LEMMA DocsFinite ==
  ASSUME NEW docs \in PartialFunctions
  PROVE  /\ DOMAIN docs \in SUBSET PathSet /\ IsFiniteSet(DOMAIN docs)
         /\ docs \in [DOMAIN docs -> Contents]
<1>1. PICK S \in SUBSET PathSet : docs \in [S -> Contents]
  BY DEF PartialFunctions
<1>2. IsFiniteSet(S)
  BY PathsFinite, FS_Subset
<1> QED  BY <1>1, <1>2

\* Every function from pathnames to contents can be an index.
LEMMA DocsAre ==
  ASSUME NEW S \in SUBSET PathSet, NEW f \in [S -> Contents]
  PROVE  f \in PartialFunctions
BY DEF PartialFunctions

\* An index without documents
LEMMA NoDocsAre ==
  /\ NoDocs \in PartialFunctions /\ DOMAIN NoDocs = {}
  /\ \A docs \in PartialFunctions : docs = NoDocs <=> DOMAIN docs = {}
<1>1. NoDocs \in [{} -> Contents] /\ DOMAIN NoDocs = {}
  BY DEF NoDocs
<1>2. NoDocs \in PartialFunctions
  BY <1>1, DocsAre
<1>3. ASSUME NEW docs \in PartialFunctions PROVE docs = NoDocs <=> DOMAIN docs = {}
  <2>1. docs \in [DOMAIN docs -> Contents]
    BY DocsFinite
  <2> QED  BY <1>1, <2>1
<1> QED  BY <1>1, <1>2, <1>3

\* An index with one document more, or another one
LEMMA PutIs ==
  ASSUME NEW docs \in PartialFunctions, NEW path \in PathSet, NEW c \in Contents
  PROVE  /\ Put(docs, path, c) \in PartialFunctions
         /\ DOMAIN Put(docs, path, c) = DOMAIN docs \cup {path}
         /\ Put(docs, path, c)[path] = c
         /\ \A q \in DOMAIN docs \ {path} : Put(docs, path, c)[q] = docs[q]
<1>1. docs \in [DOMAIN docs -> Contents] /\ DOMAIN docs \cup {path} \in SUBSET PathSet
  BY DocsFinite
<1>2. Put(docs, path, c) \in [DOMAIN docs \cup {path} -> Contents]
  BY <1>1 DEF Put
<1>3. Put(docs, path, c) \in PartialFunctions
  BY <1>1, <1>2, DocsAre
<1> QED  BY <1>3 DEF Put

\* An index without some of its documents
LEMMA WithoutIs ==
  ASSUME NEW docs \in PartialFunctions, NEW gone
  PROVE  /\ Without(docs, gone) \in PartialFunctions
         /\ DOMAIN Without(docs, gone) = DOMAIN docs \ gone
         /\ \A q \in DOMAIN docs \ gone : Without(docs, gone)[q] = docs[q]
<1>1. docs \in [DOMAIN docs -> Contents] /\ DOMAIN docs \ gone \in SUBSET PathSet
  BY DocsFinite
<1>2. Without(docs, gone) \in [DOMAIN docs \ gone -> Contents]
  BY <1>1 DEF Without
<1>3. Without(docs, gone) \in PartialFunctions
  BY <1>1, <1>2, DocsAre
<1> QED  BY <1>3 DEF Without

\* The size of an index is nothing without documents, and grows by that of a
\* document that was not in it.
LEMMA IndexGrows ==
  ASSUME NEW docs \in PartialFunctions
  PROVE  /\ IndexSize(docs) \in Nat
         /\ docs = NoDocs => IndexSize(docs) = 0
         /\ \A path \in PathSet \ DOMAIN docs : \A c \in Contents :
              IndexSize(Put(docs, path, c)) = IndexSize(docs) + c.size
<1> DEFINE Sizes(f) == [path \in DOMAIN f |-> f[path].size]
<1>1. ASSUME NEW f \in PartialFunctions
      PROVE  /\ IsFiniteSet(DOMAIN f) /\ Sizes(f) \in [DOMAIN f -> Nat]
             /\ IndexSize(f) = SumFunction(Sizes(f))
  <2>1. IsFiniteSet(DOMAIN f) /\ f \in [DOMAIN f -> Contents]
    BY DocsFinite
  <2>2. Sizes(f) \in [DOMAIN f -> Nat]
    BY <2>1, KnowledgeAssumption
  <2> QED  BY <2>1, <2>2 DEF IndexSize
<1>2. IndexSize(docs) \in Nat /\ (docs = NoDocs => IndexSize(docs) = 0)
  <2> HIDE DEF Sizes
  <2> QED  BY <1>1, NoDocsAre, SumAdds
<1>3. ASSUME NEW path \in PathSet \ DOMAIN docs, NEW c \in Contents
      PROVE  IndexSize(Put(docs, path, c)) = IndexSize(docs) + c.size
  <2> DEFINE more == Put(docs, path, c)
  <2>1. /\ more \in PartialFunctions /\ DOMAIN more = DOMAIN docs \cup {path}
        /\ more[path] = c /\ \A q \in DOMAIN docs : more[q] = docs[q]
    BY PutIs
  <2> HIDE DEF more
  <2>2. /\ path \in DOMAIN more /\ DOMAIN more \ {path} = DOMAIN docs
        /\ Sizes(more)[path] = c.size
        /\ [q \in DOMAIN docs |-> Sizes(more)[q]] = Sizes(docs)
    BY <2>1
  <2> HIDE DEF Sizes
  <2>3. SumFunction(Sizes(more)) = Sizes(more)[path]
          + SumFunction([q \in DOMAIN more \ {path} |-> Sizes(more)[q]])
    <3> DEFINE S == DOMAIN more
               f == Sizes(more)
    <3>1. IsFiniteSet(S) /\ f \in [S -> Nat] /\ path \in S
      BY <1>1, <2>1, <2>2
    <3> HIDE DEF S, f
    <3>2. \A x \in S : SumFunction(f) = f[x] + SumFunction([q \in S \ {x} |-> f[q]])
      BY <3>1, SumAdds, Zenon
    <3> QED  BY <3>1, <3>2 DEF S, f
  <2>4. SumFunction(Sizes(more)) = c.size + SumFunction(Sizes(docs))
    BY <2>2, <2>3
  <2>5. IndexSize(more) = c.size + IndexSize(docs) /\ IndexSize(docs) \in Nat /\ c.size \in Nat
    BY <1>1, <1>2, <2>1, <2>4, KnowledgeAssumption
  <2> QED  BY <2>5 DEF more
<1> QED  BY <1>2, <1>3

-----------------------------------------------------------------------------
(* What a refresh, a cached payload and a page hold *)

\* What a refresh can be
Refreshes ==
  [at : {"idle", "list", "fetch"}, listed : SUBSET PathSet,
   pending : SUBSET PathSet, docs : PartialFunctions, failed : BOOLEAN]

\* What a page can hold
PageValues == {<<"none">>, <<"waiting">>} \cup ({"index"} \X Payloads)

\* A payload holds valid documents, within the limit of an index, and unless it says
\* that something failed, all that the listing had, within the limit of a listing.
PayloadSound(index) ==
  /\ \A path \in DOMAIN index.docs : ValidDocument(path, index.docs[path])
  /\ IndexSize(index.docs) <= MaxIndex
  /\ ~index.failed => DOMAIN index.docs = index.listed /\ Cardinality(index.listed) <= MaxBlobs

\* A refresh on its way: what is to come is not there yet, and what is there and to
\* come is all that was listed.
RefreshSound(r) ==
  /\ \A path \in DOMAIN r.docs : ValidDocument(path, r.docs[path])
  /\ IndexSize(r.docs) <= MaxIndex
  /\ r.pending \cap DOMAIN r.docs = {}
  /\ r.at = "fetch" /\ ~r.failed =>
       r.listed = DOMAIN r.docs \cup r.pending /\ Cardinality(r.listed) <= MaxBlobs

\* A page that has an index has a sound one.
PageSound(value) == value[1] = "index" => PayloadSound(value[2])

\* The inductive invariant: what is cached, fetched and shown is valid and whole.
KnowledgeInvariant ==
  /\ KnowledgeTypeOK
  /\ \A path \in DOMAIN documentCache : ValidDocument(path, documentCache[path])
  /\ RefreshSound(refresh)
  /\ \A index \in cache : PayloadSound(index) /\ cache = {index}
  /\ \A p \in Pages : PageSound(page[p])

\* The payload, and the refresh, without documents
LEMMA EmptyIs ==
  /\ Fallback \in Payloads /\ PayloadSound(Fallback)
  /\ Idle \in Refreshes /\ RefreshSound(Idle)
<1>1. NoDocs \in PartialFunctions /\ DOMAIN NoDocs = {} /\ IndexSize(NoDocs) = 0
  BY NoDocsAre, IndexGrows
<1>2. 0 <= MaxIndex
  BY KnowledgeAssumption
<1> QED  BY <1>1, <1>2 DEF Fallback, Payloads, PayloadSound, Idle, Refreshes, RefreshSound

\* What a page holds is nothing yet, or an index.
LEMMA PageIs ==
  ASSUME NEW value \in PageValues
  PROVE  \/ value[1] # "index" /\ value \in {<<"none">>, <<"waiting">>}
         \/ value[1] = "index" /\ value[2] \in Payloads
BY DEF PageValues

\* An index on a page
LEMMA ShownIs ==
  ASSUME NEW index \in Payloads
  PROVE  <<"index", index>> \in PageValues /\ (PayloadSound(index) => PageSound(<<"index", index>>))
<1>1. <<"index", index>>[2] = index
  OBVIOUS
<1> QED  BY <1>1 DEF PageValues, PageSound

\* A page that waits, or has nothing, holds nothing unsound.
LEMMA BlankIs ==
  /\ <<"none">> \in PageValues /\ PageSound(<<"none">>)
  /\ <<"waiting">> \in PageValues /\ PageSound(<<"waiting">>)
BY DEF PageValues, PageSound

\* What a handler answers is what the refresh has produced, or a healthy cache.
LEMMA AnsweredIs ==
  ASSUME NEW payload \in Payloads
  PROVE  \/ Answered(payload) = payload
         \/ CacheIsHealthy /\ Answered(payload) \in cache
BY DEF Answered, CacheIsHealthy

\* When a refresh ends, what is cached and shown is the payload it has produced or what
\* was cached, and the refresh is over.
LEMMA FinishKeeps ==
  ASSUME KnowledgeInvariant, NEW payload \in Payloads, PayloadSound(payload), Finish(payload)
  PROVE  /\ cache' \subseteq Payloads /\ Cardinality(cache') <= 1 /\ cacheAge' \in 0..2
         /\ refresh' \in Refreshes /\ RefreshSound(refresh')
         /\ page' \in [Pages -> PageValues]
         /\ \A index \in cache' : PayloadSound(index) /\ cache' = {index}
         /\ \A p \in Pages : PageSound(page'[p])
<1>1. Answered(payload) \in Payloads /\ PayloadSound(Answered(payload))
  BY AnsweredIs DEF KnowledgeInvariant, KnowledgeTypeOK
<1>2. cache' = {Answered(payload)} /\ refresh' = Idle
  BY DEF Finish
<1>3. Cardinality(cache') <= 1
  BY <1>2, FS_Singleton
<1>4. cacheAge' \in 0..2
  BY DEF Finish, KnowledgeInvariant, KnowledgeTypeOK
<1>5. refresh' \in Refreshes /\ RefreshSound(refresh')
  BY <1>2, EmptyIs
<1>6. /\ page' = [p \in Pages |-> IF page[p] = <<"waiting">>
                                   THEN <<"index", Answered(payload)>> ELSE page[p]]
      /\ page \in [Pages -> PageValues] /\ \A p \in Pages : PageSound(page[p])
  BY DEF Finish, KnowledgeInvariant, KnowledgeTypeOK, PageValues
<1>7. <<"index", Answered(payload)>> \in PageValues /\ PageSound(<<"index", Answered(payload)>>)
  BY <1>1, ShownIs
<1> QED  BY <1>1, <1>2, <1>3, <1>4, <1>5, <1>6, <1>7

\* A listing has at most as many blobs as it may, and all of them when it says so.
LEMMA ListedIs ==
  ASSUME store \in PartialFunctions
  PROVE  /\ Listed \subseteq DOMAIN store /\ Listed \in SUBSET PathSet
         /\ ~LimitReached => Listed = DOMAIN store /\ Cardinality(DOMAIN store) <= MaxBlobs
<1>1. DOMAIN store \in SUBSET PathSet /\ IsFiniteSet(DOMAIN store)
  BY DocsFinite
<1>2. Cardinality(DOMAIN store) \in Nat /\ MaxBlobs \in Nat
  BY <1>1, FS_CardinalityType, KnowledgeAssumption
<1>3. ASSUME ~LimitReached, NEW j \in DOMAIN Paths
      PROVE  Cardinality({h \in 1..j : Paths[h] \in DOMAIN store}) <= MaxBlobs
  <2> DEFINE H == {h \in 1..j : Paths[h] \in DOMAIN store}
             f == [h \in H |-> Paths[h]]
  <2>1. \A h \in H : h \in DOMAIN Paths
    BY PathsFinite
  <2>2. f \in Injection(H, DOMAIN store)
    <3>1. f \in [H -> DOMAIN store]
      OBVIOUS
    <3>2. \A g, h \in H : f[g] = f[h] => g = h
      BY <2>1, PathsFinite
    <3> HIDE DEF f, H
    <3> QED  BY <3>1, <3>2 DEF Injection, IsInjective
  <2>3. Cardinality(H) <= Cardinality(DOMAIN store) /\ IsFiniteSet(H)
    <3> HIDE DEF f, H
    <3> QED  BY <1>1, <2>2, FS_Injection
  <2>4. Cardinality(H) \in Nat
    BY <2>3, FS_CardinalityType
  <2>5. Cardinality(DOMAIN store) <= MaxBlobs
    BY <1>2, <1>3 DEF LimitReached
  <2> HIDE DEF H
  <2>6. Cardinality(H) <= MaxBlobs
    BY <1>2, <2>3, <2>4, <2>5
  <2> QED  BY <2>6 DEF H
<1>4. Listed \subseteq DOMAIN store
  BY DEF Listed
<1>5. ASSUME ~LimitReached, NEW path \in DOMAIN store PROVE path \in Listed
  <2>1. PICK j \in DOMAIN Paths : path = Paths[j]
    BY <1>1 DEF PathSet
  <2> QED  BY <1>3, <1>5, <2>1 DEF Listed
<1>6. ~LimitReached => Cardinality(DOMAIN store) <= MaxBlobs
  BY <1>2 DEF LimitReached
<1> QED  BY <1>1, <1>4, <1>5, <1>6

-----------------------------------------------------------------------------
(* The invariant is inductive *)

\* It holds at the start.
LEMMA KnowledgeStarts == KnowledgeInit => KnowledgeInvariant
<1> SUFFICES ASSUME KnowledgeInit PROVE KnowledgeInvariant
  OBVIOUS
<1>1. NoDocs \in PartialFunctions /\ DOMAIN NoDocs = {}
  BY NoDocsAre
<1>2. page \in [Pages -> PageValues] /\ \A p \in Pages : PageSound(page[p])
  BY BlankIs DEF KnowledgeInit
<1>3. refresh \in Refreshes /\ RefreshSound(refresh)
  BY EmptyIs DEF KnowledgeInit
<1>4. cache = {} /\ Cardinality(cache) = 0
  BY FS_EmptySet DEF KnowledgeInit
<1>5. 0 \in 0..MaxChanges /\ 0 \in 0..MaxFaults
  BY KnowledgeAssumption
<1>6. KnowledgeTypeOK
  BY <1>1, <1>2, <1>3, <1>4, <1>5 DEF KnowledgeInit, KnowledgeTypeOK, PageValues, Refreshes
<1> QED  BY <1>1, <1>2, <1>3, <1>4, <1>6 DEF KnowledgeInit, KnowledgeInvariant

\* The parts that most steps leave alone
LEMMA TypesAre ==
  KnowledgeTypeOK <=>
    /\ store \in PartialFunctions /\ configured \in BOOLEAN
    /\ cache \subseteq Payloads /\ Cardinality(cache) <= 1
    /\ cacheAge \in 0..2 /\ attemptAge \in 0..1
    /\ documentCache \in PartialFunctions
    /\ refresh \in Refreshes
    /\ page \in [Pages -> PageValues]
    /\ changes \in 0..MaxChanges /\ faults \in 0..MaxFaults
BY DEF KnowledgeTypeOK, Refreshes, PageValues

\* The same, after a step
LEMMA NextTypesAre ==
  KnowledgeTypeOK' <=>
    /\ store' \in PartialFunctions /\ configured' \in BOOLEAN
    /\ cache' \subseteq Payloads /\ Cardinality(cache') <= 1
    /\ cacheAge' \in 0..2 /\ attemptAge' \in 0..1
    /\ documentCache' \in PartialFunctions
    /\ refresh' \in Refreshes
    /\ page' \in [Pages -> PageValues]
    /\ changes' \in 0..MaxChanges /\ faults' \in 0..MaxFaults
BY DEF KnowledgeTypeOK, Refreshes, PageValues

\* A step that spends a fault stays within the bound.
LEMMA FaultCounts ==
  ASSUME KnowledgeTypeOK, Fault
  PROVE  faults' \in 0..MaxFaults
BY KnowledgeAssumption DEF KnowledgeTypeOK, Fault

\* A refresh that ends keeps the invariant.
LEMMA FinishSafe ==
  ASSUME KnowledgeInvariant, NEW payload \in Payloads, PayloadSound(payload), Finish(payload),
         UNCHANGED <<storeVars, attemptAge, documentCache, changes>>,
         faults' \in 0..MaxFaults
  PROVE  KnowledgeInvariant'
<1>1. /\ cache' \subseteq Payloads /\ Cardinality(cache') <= 1 /\ cacheAge' \in 0..2
      /\ refresh' \in Refreshes /\ RefreshSound(refresh')
      /\ page' \in [Pages -> PageValues]
      /\ \A index \in cache' : PayloadSound(index) /\ cache' = {index}
      /\ \A p \in Pages : PageSound(page'[p])
  BY FinishKeeps
<1>2. KnowledgeTypeOK'
  BY <1>1, TypesAre, NextTypesAre DEF KnowledgeInvariant, storeVars
<1> QED  BY <1>1, <1>2 DEF KnowledgeInvariant

\* The listing starts with no documents, and says so when it does not have all.
LEMMA ListBlobsSafe ==
  ASSUME KnowledgeInvariant, ListBlobs
  PROVE  KnowledgeInvariant'
<1>1. /\ store \in PartialFunctions /\ documentCache \in PartialFunctions
      /\ \A path \in DOMAIN documentCache : ValidDocument(path, documentCache[path])
  BY TypesAre DEF KnowledgeInvariant
<1>2. /\ documentCache' \in PartialFunctions
      /\ \A path \in DOMAIN documentCache' : ValidDocument(path, documentCache'[path])
  <2>1. documentCache' = Without(documentCache, PathSet \ Listed)
    BY DEF ListBlobs
  <2> DEFINE kept == Without(documentCache, PathSet \ Listed)
  <2>2. /\ kept \in PartialFunctions /\ DOMAIN kept = DOMAIN documentCache \ (PathSet \ Listed)
        /\ \A q \in DOMAIN documentCache \ (PathSet \ Listed) : kept[q] = documentCache[q]
    BY <1>1, WithoutIs
  <2> HIDE DEF kept
  <2>3. \A q \in DOMAIN kept : ValidDocument(q, kept[q])
    BY <1>1, <2>2
  <2> QED  BY <2>1, <2>2, <2>3 DEF kept
<1> DEFINE r == [at |-> "fetch", listed |-> DOMAIN store, pending |-> Listed, docs |-> NoDocs,
                 failed |-> LimitReached]
<1>3. refresh' = r
  BY DEF ListBlobs
<1>4. NoDocs \in PartialFunctions /\ DOMAIN NoDocs = {} /\ IndexSize(NoDocs) <= MaxIndex
  BY NoDocsAre, IndexGrows, KnowledgeAssumption
<1>5. DOMAIN store \in SUBSET PathSet /\ Listed \in SUBSET PathSet /\ LimitReached \in BOOLEAN
  BY <1>1, DocsFinite, ListedIs DEF LimitReached
<1>6. r \in Refreshes
  BY <1>4, <1>5 DEF Refreshes
<1>7. RefreshSound(r)
  BY <1>1, <1>4, ListedIs DEF RefreshSound
<1> HIDE DEF r
<1>8. KnowledgeTypeOK'
  BY <1>2, <1>3, <1>6, TypesAre, NextTypesAre DEF KnowledgeInvariant, ListBlobs, storeVars
<1> QED  BY <1>2, <1>3, <1>7, <1>8 DEF KnowledgeInvariant, ListBlobs

\* What a refresh is after a document, and the documents that are kept
FetchKeeps(r, kept) ==
  /\ r \in Refreshes /\ RefreshSound(r)
  /\ kept \in PartialFunctions /\ \A path \in DOMAIN kept : ValidDocument(path, kept[path])

\* A document that is passed over makes the refresh one that failed.
LEMMA SkipsKeeps ==
  ASSUME KnowledgeInvariant, NEW path \in PathSet, Skips(path)
  PROVE  FetchKeeps(refresh', documentCache')
<1>1. /\ refresh \in Refreshes /\ RefreshSound(refresh) /\ documentCache \in PartialFunctions
      /\ \A q \in DOMAIN documentCache : ValidDocument(q, documentCache[q])
  BY TypesAre DEF KnowledgeInvariant
<1>2. /\ refresh' \in Refreshes /\ refresh'.docs = refresh.docs /\ refresh'.failed = TRUE
      /\ refresh'.pending = refresh.pending \ {path}
  BY <1>1 DEF Skips, Refreshes
<1>3. RefreshSound(refresh')
  BY <1>1, <1>2 DEF RefreshSound
<1> QED  BY <1>1, <1>2, <1>3 DEF Skips, FetchKeeps

\* A valid document goes into the index while there is room for it.
LEMMA IncludesKeeps ==
  ASSUME KnowledgeInvariant, NEW path \in PathSet, path \in refresh.pending,
         NEW c \in Contents, ValidDocument(path, c), Includes(path, c)
  PROVE  FetchKeeps(refresh', documentCache')
<1>1. /\ refresh \in Refreshes /\ RefreshSound(refresh) /\ documentCache \in PartialFunctions
      /\ \A q \in DOMAIN documentCache : ValidDocument(q, documentCache[q])
  BY TypesAre DEF KnowledgeInvariant
<1>2. /\ refresh.docs \in PartialFunctions /\ path \notin DOMAIN refresh.docs
      /\ \A q \in DOMAIN refresh.docs : ValidDocument(q, refresh.docs[q])
  BY <1>1 DEF Refreshes, RefreshSound
<1>3. CASE IndexSize(refresh.docs) + c.size > MaxIndex
  <2>1. /\ refresh' \in Refreshes /\ refresh'.docs = refresh.docs /\ refresh'.failed = TRUE
        /\ refresh'.pending = {} /\ documentCache' = documentCache
    BY <1>1, <1>3 DEF Includes, Refreshes
  <2>2. RefreshSound(refresh')
    BY <1>1, <2>1 DEF RefreshSound
  <2> QED  BY <1>1, <2>1, <2>2 DEF FetchKeeps
<1>4. CASE ~(IndexSize(refresh.docs) + c.size > MaxIndex)
  <2> DEFINE docs == Put(refresh.docs, path, c)
             kept == Put(documentCache, path, c)
  <2>1. /\ docs \in PartialFunctions /\ DOMAIN docs = DOMAIN refresh.docs \cup {path}
        /\ docs[path] = c /\ \A q \in DOMAIN refresh.docs \ {path} : docs[q] = refresh.docs[q]
    BY <1>2, PutIs
  <2>2. /\ kept \in PartialFunctions /\ DOMAIN kept = DOMAIN documentCache \cup {path}
        /\ kept[path] = c /\ \A q \in DOMAIN documentCache \ {path} : kept[q] = documentCache[q]
    BY <1>1, PutIs
  <2>3. IndexSize(docs) <= MaxIndex
    <3>1. IndexSize(docs) = IndexSize(refresh.docs) + c.size
      BY <1>2, IndexGrows
    <3>2. IndexSize(refresh.docs) \in Nat /\ c.size \in Nat /\ MaxIndex \in Nat
      BY <1>2, IndexGrows, KnowledgeAssumption
    <3> QED  BY <1>4, <3>1, <3>2
  <2>4. refresh' = [refresh EXCEPT !.docs = docs, !.pending = @ \ {path}] /\ documentCache' = kept
    BY <1>4 DEF Includes
  <2> HIDE DEF docs, kept
  <2>5. /\ refresh' \in Refreshes /\ refresh'.docs = docs /\ refresh'.failed = refresh.failed
        /\ refresh'.pending = refresh.pending \ {path} /\ refresh'.at = refresh.at
        /\ refresh'.listed = refresh.listed
    BY <1>1, <2>1, <2>4 DEF Refreshes
  <2>6. \A q \in DOMAIN docs : ValidDocument(q, docs[q])
    BY <1>2, <2>1
  <2>7. \A q \in DOMAIN kept : ValidDocument(q, kept[q])
    BY <1>1, <2>2
  <2>8. docs = refresh'.docs /\ DOMAIN docs \cup refresh'.pending = DOMAIN refresh.docs \cup refresh.pending
    BY <2>1, <2>5
  <2>9. RefreshSound(refresh')
    BY <1>1, <2>1, <2>3, <2>5, <2>6, <2>8 DEF RefreshSound
  <2> QED  BY <2>2, <2>4, <2>5, <2>7, <2>9 DEF FetchKeeps
<1> QED  BY <1>3, <1>4

\* A document that is indexed, taken from those kept, or passed over
LEMMA IndexDocumentSafe ==
  ASSUME KnowledgeInvariant, NEW path \in PathSet, IndexDocument(path)
  PROVE  KnowledgeInvariant'
<1>1. /\ KnowledgeTypeOK /\ store \in PartialFunctions /\ documentCache \in PartialFunctions
      /\ \A q \in DOMAIN documentCache : ValidDocument(q, documentCache[q])
  BY TypesAre DEF KnowledgeInvariant
<1>2. path \in refresh.pending
  BY DEF IndexDocument
<1>3. \/ Skips(path)
      \/ Cached(path, store[path]) /\ Includes(path, documentCache[path])
      \/ path \in DOMAIN store /\ ValidDocument(path, store[path]) /\ Includes(path, store[path])
  BY DEF IndexDocument
<1>4. FetchKeeps(refresh', documentCache')
  <2>1. CASE Skips(path)
    BY <2>1, SkipsKeeps
  <2>2. CASE Cached(path, store[path]) /\ Includes(path, documentCache[path])
    <3>1. path \in DOMAIN documentCache /\ documentCache[path] \in Contents
      BY <1>1, <2>2, DocsFinite DEF Cached
    <3> QED  BY <1>1, <1>2, <2>2, <3>1, IncludesKeeps
  <2>3. CASE path \in DOMAIN store /\ ValidDocument(path, store[path]) /\ Includes(path, store[path])
    <3>1. store[path] \in Contents
      BY <1>1, <2>3, DocsFinite
    <3> QED  BY <1>2, <2>3, <3>1, IncludesKeeps
  <2> QED  BY <1>3, <2>1, <2>2, <2>3
<1>5. faults' \in 0..MaxFaults
  BY <1>1, TypesAre, FaultCounts DEF IndexDocument
<1>6. UNCHANGED <<storeVars, cache, cacheAge, attemptAge, page, changes>>
  BY DEF IndexDocument
<1>7. KnowledgeTypeOK'
  BY <1>1, <1>4, <1>5, <1>6, TypesAre, NextTypesAre DEF FetchKeeps, storeVars
<1> QED  BY <1>4, <1>6, <1>7 DEF KnowledgeInvariant, FetchKeeps

\* A refresh with nothing left to fetch is the payload it makes.
LEMMA IndexBuiltSafe ==
  ASSUME KnowledgeInvariant, IndexBuilt
  PROVE  KnowledgeInvariant'
<1> DEFINE payload == [source |-> IF refresh.docs = NoDocs THEN "fallback" ELSE "remote_blob",
                       failed |-> refresh.failed, docs |-> refresh.docs, listed |-> refresh.listed]
<1>1. refresh \in Refreshes /\ RefreshSound(refresh) /\ KnowledgeTypeOK
  BY TypesAre DEF KnowledgeInvariant
<1>2. refresh.at = "fetch" /\ refresh.pending = {} /\ Finish(payload)
  BY DEF IndexBuilt
<1>3. payload \in Payloads
  BY <1>1 DEF Payloads, Refreshes
<1>4. PayloadSound(payload)
  BY <1>1, <1>2 DEF PayloadSound, RefreshSound
<1>5. UNCHANGED <<storeVars, attemptAge, documentCache, changes>> /\ faults' \in 0..MaxFaults
  BY <1>1 DEF IndexBuilt, KnowledgeTypeOK
<1> HIDE DEF payload
<1> QED  BY <1>2, <1>3, <1>4, <1>5, FinishSafe

\* A refresh that throws, or has nothing to ask, is the fallback.
LEMMA FallbackSafe ==
  ASSUME KnowledgeInvariant, RefreshThrows \/ NotConfigured
  PROVE  KnowledgeInvariant'
<1>1. KnowledgeTypeOK /\ Finish(Fallback) /\ Fallback \in Payloads /\ PayloadSound(Fallback)
  BY EmptyIs DEF KnowledgeInvariant, RefreshThrows, NotConfigured
<1>2. UNCHANGED <<storeVars, attemptAge, documentCache, changes>>
  BY DEF RefreshThrows, NotConfigured
<1>3. faults' \in 0..MaxFaults
  BY <1>1, TypesAre, FaultCounts DEF RefreshThrows, NotConfigured
<1> QED  BY <1>1, <1>2, <1>3, FinishSafe

\* Every step of the server keeps it.
LEMMA ServerStepSafe ==
  ASSUME KnowledgeInvariant, ServerStep
  PROVE  KnowledgeInvariant'
<1> QED  BY FallbackSafe, ListBlobsSafe, IndexBuiltSafe, IndexDocumentSafe DEF ServerStep

\* A page is given what is sound, and nothing else moves.
LEMMA PageGiven ==
  ASSUME KnowledgeInvariant, NEW p \in Pages, NEW value \in PageValues, PageSound(value),
         page' = [page EXCEPT ![p] = value],
         UNCHANGED <<storeVars, cache, cacheAge, documentCache, changes>>,
         attemptAge' \in 0..1, faults' \in 0..MaxFaults,
         refresh' \in Refreshes, RefreshSound(refresh')
  PROVE  KnowledgeInvariant'
<1>1. /\ page \in [Pages -> PageValues] /\ \A q \in Pages : PageSound(page[q])
  BY TypesAre DEF KnowledgeInvariant
<1>2. page' \in [Pages -> PageValues] /\ \A q \in Pages : PageSound(page'[q])
  BY <1>1
<1>3. KnowledgeTypeOK'
  BY <1>2, TypesAre, NextTypesAre DEF KnowledgeInvariant, storeVars
<1> QED  BY <1>2, <1>3 DEF KnowledgeInvariant

\* What a page does keeps it.
LEMMA PageSafe ==
  ASSUME KnowledgeInvariant, NEW p \in Pages, PageStep(p) \/ RequestFails(p) \/ Reload(p)
  PROVE  KnowledgeInvariant'
<1>1. /\ KnowledgeTypeOK /\ refresh \in Refreshes /\ RefreshSound(refresh)
      /\ attemptAge \in 0..1 /\ faults \in 0..MaxFaults
      /\ cache \subseteq Payloads /\ \A index \in cache : PayloadSound(index)
  BY TypesAre DEF KnowledgeInvariant
<1>2. CASE FromCache(p)
  <2>1. PICK index \in cache : page' = [page EXCEPT ![p] = <<"index", index>>]
    BY <1>2 DEF FromCache
  <2>2. <<"index", index>> \in PageValues /\ PageSound(<<"index", index>>)
    BY <1>1, ShownIs
  <2>3. UNCHANGED <<storeVars, serverVars, changes, faults>>
    BY <1>2 DEF FromCache
  <2> QED  BY <1>1, <2>1, <2>2, <2>3, PageGiven DEF serverVars
<1>3. CASE AwaitRefresh(p)
  <2>1. page' = [page EXCEPT ![p] = <<"waiting">>]
    BY <1>3 DEF AwaitRefresh
  <2>2. refresh' \in Refreshes /\ RefreshSound(refresh') /\ attemptAge' \in 0..1
    <3>1. [Idle EXCEPT !.at = "list"] \in Refreshes /\ RefreshSound([Idle EXCEPT !.at = "list"])
      BY EmptyIs DEF Idle, Refreshes, RefreshSound
    <3> QED  BY <1>1, <1>3, <3>1 DEF AwaitRefresh
  <2>3. UNCHANGED <<storeVars, cache, cacheAge, documentCache, changes, faults>>
    BY <1>3 DEF AwaitRefresh
  <2> QED  BY <1>1, <2>1, <2>2, <2>3, BlankIs, PageGiven
<1>4. CASE RequestFails(p)
  <2>1. page' = [page EXCEPT ![p] = <<"index", Fallback>>] /\ Fault
        /\ UNCHANGED <<storeVars, serverVars, changes>>
    BY <1>4 DEF RequestFails
  <2>2. <<"index", Fallback>> \in PageValues /\ PageSound(<<"index", Fallback>>)
    BY EmptyIs, ShownIs
  <2>3. faults' \in 0..MaxFaults
    BY <1>1, <2>1, FaultCounts
  <2> QED  BY <1>1, <2>1, <2>2, <2>3, PageGiven DEF serverVars
<1>5. CASE Reload(p)
  <2>1. page' = [page EXCEPT ![p] = <<"none">>] /\ UNCHANGED <<storeVars, serverVars, changes, faults>>
    BY <1>5 DEF Reload
  <2> QED  BY <1>1, <2>1, BlankIs, PageGiven DEF serverVars
<1> QED  BY <1>2, <1>3, <1>4, <1>5 DEF PageStep

\* The store and the clock say nothing about what is kept of them.
LEMMA AroundSafe ==
  ASSUME KnowledgeInvariant, StoreChanges \/ CacheAges \/ AttemptAges
  PROVE  KnowledgeInvariant'
<1>1. UNCHANGED <<cache, documentCache, refresh, page, faults>>
  BY DEF StoreChanges, CacheAges, AttemptAges, serverVars
<1>2. /\ KnowledgeTypeOK /\ store \in PartialFunctions /\ cacheAge \in 0..2 /\ attemptAge \in 0..1
      /\ changes \in 0..MaxChanges
  BY TypesAre DEF KnowledgeInvariant
<1>3. store' \in PartialFunctions /\ configured' = configured
  <2>1. CASE StoreChanges
    <3>1. PICK path \in PathSet :
            (\E c \in Contents : store' = Put(store, path, c)) \/ store' = Without(store, {path})
      BY <2>1 DEF StoreChanges
    <3>2. ASSUME NEW c \in Contents PROVE Put(store, path, c) \in PartialFunctions
      BY <1>2, PutIs
    <3>3. Without(store, {path}) \in PartialFunctions
      BY <1>2, WithoutIs
    <3> QED  BY <2>1, <3>1, <3>2, <3>3 DEF StoreChanges
  <2>2. CASE CacheAges \/ AttemptAges
    BY <1>2, <2>2 DEF CacheAges, AttemptAges, storeVars
  <2> QED  BY <2>1, <2>2
<1>4. cacheAge' \in 0..2 /\ attemptAge' \in 0..1 /\ changes' \in 0..MaxChanges
  BY <1>2, KnowledgeAssumption DEF StoreChanges, CacheAges, AttemptAges, serverVars
<1>5. KnowledgeTypeOK'
  BY <1>1, <1>2, <1>3, <1>4, TypesAre, NextTypesAre
<1> QED  BY <1>1, <1>5 DEF KnowledgeInvariant

\* A new process has nothing yet, and the pages that wait for the old one get nothing.
LEMMA ProcessRestartsSafe ==
  ASSUME KnowledgeInvariant, ProcessRestarts
  PROVE  KnowledgeInvariant'
<1>1. /\ cache' = {} /\ cacheAge' = 0 /\ attemptAge' = 1 /\ documentCache' = NoDocs
      /\ refresh' = Idle /\ Fault /\ UNCHANGED <<storeVars, changes>>
      /\ page' = [p \in Pages |-> IF page[p] = <<"waiting">> THEN <<"index", Fallback>> ELSE page[p]]
  BY DEF ProcessRestarts
<1>2. KnowledgeTypeOK /\ page \in [Pages -> PageValues] /\ \A p \in Pages : PageSound(page[p])
  BY TypesAre DEF KnowledgeInvariant
<1>3. <<"index", Fallback>> \in PageValues /\ PageSound(<<"index", Fallback>>)
  BY EmptyIs, ShownIs
<1>4. page' \in [Pages -> PageValues] /\ \A p \in Pages : PageSound(page'[p])
  BY <1>1, <1>2, <1>3
<1>5. Cardinality(cache') <= 1 /\ faults' \in 0..MaxFaults
  BY <1>1, <1>2, FS_EmptySet, FaultCounts
<1>6. NoDocs \in PartialFunctions /\ DOMAIN NoDocs = {} /\ refresh' \in Refreshes /\ RefreshSound(refresh')
  BY <1>1, NoDocsAre, EmptyIs
<1>7. KnowledgeTypeOK'
  BY <1>1, <1>2, <1>4, <1>5, <1>6, TypesAre, NextTypesAre DEF storeVars
<1> QED  BY <1>1, <1>4, <1>6, <1>7 DEF KnowledgeInvariant

\* Every step keeps it.
LEMMA KnowledgeStep ==
  ASSUME KnowledgeInvariant, [KnowledgeNext]_knowledgeVars
  PROVE  KnowledgeInvariant'
<1>1. CASE KnowledgeNext
  BY <1>1, ServerStepSafe, FallbackSafe, AroundSafe, ProcessRestartsSafe, PageSafe
     DEF KnowledgeNext
<1>2. CASE UNCHANGED knowledgeVars
  BY <1>2 DEF knowledgeVars, storeVars, serverVars, KnowledgeInvariant, KnowledgeTypeOK
<1> QED  BY <1>1, <1>2

\* What is cached, fetched and shown is valid and whole, whatever fails on the way
\* (api/kb-index.js).
THEOREM KnowledgeSound == KnowledgeSpec => []KnowledgeInvariant
<1>1. KnowledgeInvariant /\ [KnowledgeNext]_knowledgeVars => KnowledgeInvariant'
  BY KnowledgeStep
<1> QED  BY KnowledgeStarts, <1>1, PTL DEF KnowledgeSpec

\* The values of the variables are what they should be, in every state.
THEOREM KnowledgeTypeCorrect == KnowledgeSpec => []KnowledgeTypeOK
<1>1. KnowledgeInvariant => KnowledgeTypeOK
  BY DEF KnowledgeInvariant
<1> QED  BY KnowledgeSound, <1>1, PTL

\* A model is shown the whole knowledge base or nothing of it: a refresh that failed on
\* the way, stopped at the limit of a listing, or left out one document gives it nothing
\* (fetchReferenceKnowledgeBaseContext).
THEOREM ContextIsWhole == KnowledgeSpec => []ContextWhole
<1>1. ASSUME KnowledgeInvariant PROVE ContextWhole
  <2> SUFFICES ASSUME NEW p \in Pages, page[p][1] = "index", Context(page[p][2]) # {}
               PROVE  LET index == page[p][2] IN
                      /\ Context(index) = index.listed
                      /\ Cardinality(index.listed) <= MaxBlobs /\ IndexSize(index.docs) <= MaxIndex
                      /\ \A path \in index.listed : ValidDocument(path, index.docs[path])
    BY DEF ContextWhole
  <2>1. PayloadSound(page[p][2])
    BY <1>1 DEF KnowledgeInvariant, PageSound
  <2> QED  BY <2>1 DEF PayloadSound, Context
<1> QED  BY KnowledgeSound, <1>1, PTL

\* A healthy index is only given up for a healthy one, or with the process that has it
\* (the handler of api/kb-index.js).
THEOREM HealthyIsKept == KnowledgeSpec => HealthyKept
<1>1. ASSUME KnowledgeInvariant, [KnowledgeNext]_knowledgeVars, CacheIsHealthy
      PROVE  CacheIsHealthy' \/ cache' = {}
  <2>1. PICK index \in cache : Healthy(index)
    BY <1>1 DEF CacheIsHealthy
  <2>2. \A other \in cache : other = index
    BY <1>1, <2>1 DEF KnowledgeInvariant
  <2>3. ASSUME NEW payload, Finish(payload) PROVE CacheIsHealthy'
    <3>1. Healthy(Answered(payload))
      BY <1>1, <2>1, <2>2 DEF Answered
    <3>2. cache' = {Answered(payload)}
      BY <2>3 DEF Finish
    <3> QED  BY <3>1, <3>2 DEF CacheIsHealthy
  <2>4. \/ cache' = cache \/ cache' = {} \/ \E payload : Finish(payload)
    BY <1>1 DEF KnowledgeNext, ServerStep, NotConfigured, ListBlobs, IndexBuilt, IndexDocument,
      RefreshThrows, StoreChanges, CacheAges, AttemptAges, ProcessRestarts, PageStep, FromCache,
      AwaitRefresh, RequestFails, Reload, knowledgeVars, serverVars
  <2> QED  BY <2>1, <2>3, <2>4 DEF CacheIsHealthy
<1> QED  BY KnowledgeSound, <1>1, PTL DEF KnowledgeSpec, HealthyKept

-----------------------------------------------------------------------------
(* The shadow packets *)

\* The places for the parts of a packet of a stage, and what a packet can be
Parts(stage) == PathSet \X Range(StageSections[stage])

Shadows(stage) == [included : SUBSET Parts(stage), omitted : SUBSET Parts(stage), chars : Nat]

\* Every place is that of a part, and every part has one.
LEMMA SlotsAre ==
  ASSUME NEW stage \in Stages
  PROVE  /\ Len(Slots(stage)) \in Nat
         /\ \A k \in 1..Len(Slots(stage)) : Slots(stage)[k] \in Parts(stage)
         /\ \A part \in Parts(stage) : \E k \in 1..Len(Slots(stage)) : Slots(stage)[k] = part
<1> DEFINE n == Len(StageSections[stage])
           m == Len(Paths)
           slots == [k \in 1..m * n |->
             <<Paths[(k - 1) \div n + 1], StageSections[stage][((k - 1) % n) + 1]>>]
<1>1. stage \in {"forensic_audit", "roadmap_synthesis"}
  BY DEF Stages, StageSections
<1>2. /\ n = 4 \/ n = 2
      /\ DOMAIN StageSections[stage] = 1..n
  BY <1>1 DEF StageSections
<1>3. m \in Nat /\ \A i \in 1..m : Paths[i] \in PathSet
  BY PathsFinite DEF PathSet
<1>4. \A path \in PathSet : \E i \in 1..m : Paths[i] = path
  BY PathsFinite DEF PathSet
<1>5. /\ \A j \in 1..n : StageSections[stage][j] \in Range(StageSections[stage])
      /\ \A key \in Range(StageSections[stage]) : \E j \in 1..n : StageSections[stage][j] = key
  <2> HIDE DEF n
  <2> QED  BY <1>2 DEF Range
<1>6. Slots(stage) = slots
  BY DEF Slots
<1> HIDE DEF n, m
<1>7. m * n \in Nat
  BY <1>2, <1>3
<1>8. \A k \in 1..m * n : (k - 1) \div n + 1 \in 1..m /\ ((k - 1) % n) + 1 \in 1..n
  BY <1>2, <1>3
<1>9. \A k \in 1..m * n : slots[k] \in Parts(stage)
  BY <1>3, <1>5, <1>8 DEF Parts
<1>10. \A part \in Parts(stage) : \E k \in 1..m * n : slots[k] = part
  <2> SUFFICES ASSUME NEW part \in Parts(stage) PROVE \E k \in 1..m * n : slots[k] = part
    OBVIOUS
  <2>1. PICK i \in 1..m, j \in 1..n : Paths[i] = part[1] /\ StageSections[stage][j] = part[2]
    BY <1>4, <1>5 DEF Parts
  <2> DEFINE k == (i - 1) * n + j
  <2>2. k \in 1..m * n /\ (k - 1) \div n = i - 1 /\ (k - 1) % n = j - 1
    BY <1>2, <1>3
  <2> HIDE DEF k
  <2>3. slots[k] = <<Paths[i], StageSections[stage][j]>>
    <3>1. (i - 1) + 1 = i /\ (j - 1) + 1 = j
      OBVIOUS
    <3> QED  BY <2>2, <3>1
  <2>4. part = <<part[1], part[2]>>
    BY DEF Parts
  <2> QED  BY <2>1, <2>2, <2>3, <2>4
<1>11. Len(slots) = m * n
  <2>1. slots \in [1..m * n -> Parts(stage)]
    BY <1>9
  <2> HIDE DEF slots
  <2>2. slots \in Seq(Parts(stage))
    BY <1>7, <2>1
  <2> QED  BY <1>7, <2>1, <2>2
<1> QED  BY <1>6, <1>7, <1>9, <1>10, <1>11

\* A part that the documents have is taken or noted, and only while there is room.
LEMMA WithPartIs ==
  ASSUME NEW docs \in PartialFunctions, NEW stage \in Stages, NEW shadow \in Shadows(stage),
         NEW part \in Parts(stage)
  PROVE  LET more == WithPart(docs, shadow, part) IN
         /\ more \in Shadows(stage)
         /\ shadow.chars <= MaxPacket => more.chars <= MaxPacket
         /\ more.included \cup more.omitted =
              shadow.included \cup shadow.omitted \cup {q \in {part} : HasPart(docs, part)}
<1> DEFINE length == docs[part[1]].sections[part[2]]
           more == WithPart(docs, shadow, part)
<1>1. CASE ~HasPart(docs, part)
  BY <1>1 DEF WithPart
<1>2. CASE HasPart(docs, part)
  <2>1. length \in Nat
    <3>1. docs[part[1]] \in Contents
      BY <1>2, DocsFinite DEF HasPart
    <3> QED  BY <1>2, <3>1, KnowledgeAssumption DEF HasPart
  <2>2. {q \in {part} : HasPart(docs, part)} = {part} /\ MaxPacket \in Nat /\ MaxSection \in Nat
    BY <1>2, KnowledgeAssumption
  <2>3. CASE length > MaxSection \/ shadow.chars + length > MaxPacket
    <3>1. more = [shadow EXCEPT !.omitted = @ \cup {part}]
      BY <1>2, <2>3 DEF WithPart
    <3> HIDE DEF more
    <3>2. /\ more \in Shadows(stage) /\ more.chars = shadow.chars
          /\ more.included = shadow.included /\ more.omitted = shadow.omitted \cup {part}
      BY <3>1 DEF Shadows
    <3> QED  BY <2>2, <3>2 DEF more
  <2>4. CASE ~(length > MaxSection \/ shadow.chars + length > MaxPacket)
    <3>1. more = [shadow EXCEPT !.included = @ \cup {part}, !.chars = @ + length]
      BY <1>2, <2>4 DEF WithPart
    <3>2. shadow.chars + length \in Nat /\ shadow.chars + length <= MaxPacket
      BY <2>1, <2>2, <2>4 DEF Shadows
    <3> HIDE DEF more, length
    <3>3. /\ more \in Shadows(stage) /\ more.chars = shadow.chars + length
          /\ more.included = shadow.included \cup {part} /\ more.omitted = shadow.omitted
      BY <3>1, <3>2 DEF Shadows
    <3> QED  BY <2>2, <3>2, <3>3 DEF more
  <2> QED  BY <2>3, <2>4
<1> QED  BY <1>1, <1>2

\* The parts that the documents have
PartsOf(docs, stage) == {part \in Parts(stage) : HasPart(docs, part)}

\* Each part that the documents have is in a packet, or noted as left out, and a packet
\* stays in its limit.
LEMMA ShadowIs ==
  ASSUME NEW docs \in PartialFunctions, NEW stage \in Stages
  PROVE  /\ Shadow(docs, stage).chars <= MaxPacket
         /\ Shadow(docs, stage).included \cup Shadow(docs, stage).omitted = PartsOf(docs, stage)
<1> DEFINE n == Len(Slots(stage))
           S == Shadows(stage)
           G == [i \in 1..n |-> [s \in S |-> WithPart(docs, s, Slots(stage)[i])]]
           Plain(f) == f = [k \in 0..n |->
             IF k = 0 THEN EmptyShadow ELSE WithPart(docs, f[k - 1], Slots(stage)[k])]
           loop == CHOOSE f : Plain(f)
           Met(k) == {part \in Parts(stage) :
             HasPart(docs, part) /\ \E j \in 1..k : part = Slots(stage)[j]}
           U == {k \in 0..n : /\ loop[k] \in S /\ loop[k].chars <= MaxPacket
                              /\ loop[k].included \cup loop[k].omitted = Met(k)}
<1>1. n \in Nat /\ \A k \in 1..n : Slots(stage)[k] \in Parts(stage)
  BY SlotsAre
<1>2. EmptyShadow \in S /\ EmptyShadow.chars <= MaxPacket
  BY KnowledgeAssumption DEF EmptyShadow, Shadows
<1>3. \A s \in S : \A k \in 1..n : WithPart(docs, s, Slots(stage)[k]) \in S
  BY <1>1, WithPartIs
<1>4. Shadow(docs, stage) = loop[n]
  BY DEF Shadow
<1>5. PICK f \in [0..n -> S] : Unfolds(f, n, EmptyShadow, G)
  <2>1. G \in [1..n -> [S -> S]]
    <3> HIDE DEF n, S
    <3> QED  BY <1>3
  <2> HIDE DEF n, S, G
  <2> QED  BY <1>1, <1>2, <2>1, Recursion
<1>6. Plain(f)
  <2> HIDE DEF n, S
  <2>1. f[0] = EmptyShadow /\ \A k \in 1..n : f[k] = G[k][f[k - 1]]
    <3> HIDE DEF G
    <3> QED  BY <1>5 DEF Unfolds
  <2>2. \A k \in 1..n : f[k - 1] \in S
    BY <1>1, <1>5
  <2>3. \A k \in 1..n : f[k] = WithPart(docs, f[k - 1], Slots(stage)[k])
    BY <2>1, <2>2
  <2> HIDE DEF G
  <2>4. \A k \in 0..n : f[k] = IF k = 0 THEN EmptyShadow
                               ELSE WithPart(docs, f[k - 1], Slots(stage)[k])
    BY <1>1, <2>1, <2>3
  <2> QED  BY <1>5, <2>4
<1>7. Plain(loop)
  <2> HIDE DEF Plain
  <2> QED  BY <1>6
<1>8. loop[0] = EmptyShadow /\ \A k \in 1..n : loop[k] = WithPart(docs, loop[k - 1], Slots(stage)[k])
  <2> HIDE DEF n, loop
  <2> QED  BY <1>1, <1>7
<1> HIDE DEF n, loop, S, Plain, G
<1>9. 0 \in U
  <2>1. Met(0) = {}
    OBVIOUS
  <2> HIDE DEF Met
  <2> QED  BY <1>1, <1>2, <1>8, <2>1 DEF EmptyShadow
<1>10. ASSUME NEW k \in U, k < n PROVE k + 1 \in U
  <2>0. /\ k \in 0..n /\ k + 1 \in 1..n /\ (k + 1) - 1 = k
        /\ loop[k] \in S /\ loop[k].chars <= MaxPacket
        /\ loop[k].included \cup loop[k].omitted = Met(k)
    BY <1>1, <1>10
  <2> DEFINE part == Slots(stage)[k + 1]
  <2>1. loop[k + 1] = WithPart(docs, loop[k], part) /\ part \in Parts(stage)
    BY <1>1, <1>8, <2>0
  <2>2. /\ loop[k + 1] \in S /\ loop[k + 1].chars <= MaxPacket
        /\ loop[k + 1].included \cup loop[k + 1].omitted =
             Met(k) \cup {q \in {part} : HasPart(docs, part)}
    <3> HIDE DEF part, Met
    <3> QED  BY <2>0, <2>1, WithPartIs DEF S
  <2>3. Met(k + 1) = Met(k) \cup {q \in {part} : HasPart(docs, part)}
    <3>1. \A j : j \in 1..k + 1 <=> j \in 1..k \/ j = k + 1
      BY <1>1, <2>0
    <3> QED  BY <2>1, <3>1
  <2> HIDE DEF Met, part
  <2> QED  BY <1>1, <2>0, <2>2, <2>3
<1>11. U = 0..n
  <2>1. U \in SUBSET (0..n)
    OBVIOUS
  <2> HIDE DEF U
  <2> QED  BY <1>1, <1>9, <1>10, <2>1, StepsUpTo
<1>12. n \in U
  BY <1>1, <1>11
<1>13. Met(n) = PartsOf(docs, stage)
  BY SlotsAre DEF PartsOf, n
<1> HIDE DEF Met
<1> QED  BY <1>4, <1>12, <1>13

\* A covered knowledge base has as many documents as there are criteria.
LEMMA CoveredCounts ==
  ASSUME NEW docs \in PartialFunctions, Covered(docs, ExpectedKeys)
  PROVE  Cardinality(DOMAIN docs) = Cardinality(ExpectedKeys)
<1> DEFINE f == [path \in DOMAIN docs |-> docs[path].key]
<1>1. IsFiniteSet(DOMAIN docs)
  BY DocsFinite
<1>2. \A k \in ExpectedKeys : \E path : Occurrences(docs, k) = {path}
  <2> SUFFICES ASSUME NEW k \in ExpectedKeys PROVE \E path : Occurrences(docs, k) = {path}
    OBVIOUS
  <2>1. Cardinality(Occurrences(docs, k)) = 1
    BY DEF Covered
  <2>2. IsFiniteSet(Occurrences(docs, k))
    <3>1. Occurrences(docs, k) \in SUBSET DOMAIN docs
      BY DEF Occurrences
    <3> QED  BY <1>1, <3>1, FS_Subset
  <2> QED  BY <2>1, <2>2, FS_Singleton
<1>3. f \in [DOMAIN docs -> ExpectedKeys]
  BY DEF Covered
<1>4. \A a, b \in DOMAIN docs : f[a] = f[b] => a = b
  <2> SUFFICES ASSUME NEW a \in DOMAIN docs, NEW b \in DOMAIN docs, f[a] = f[b] PROVE a = b
    OBVIOUS
  <2>1. docs[a].key \in ExpectedKeys
    BY DEF Covered
  <2>2. a \in Occurrences(docs, docs[a].key) /\ b \in Occurrences(docs, docs[a].key)
    BY DEF Occurrences
  <2> QED  BY <1>2, <2>1, <2>2
<1>5. \A k \in ExpectedKeys : \E a \in DOMAIN docs : f[a] = k
  <2> SUFFICES ASSUME NEW k \in ExpectedKeys PROVE \E a \in DOMAIN docs : f[a] = k
    OBVIOUS
  <2>1. PICK a : Occurrences(docs, k) = {a}
    BY <1>2
  <2>2. a \in DOMAIN docs /\ docs[a].key = k
    BY <2>1 DEF Occurrences
  <2> QED  BY <2>2
<1> HIDE DEF f
<1>6. f \in Bijection(DOMAIN docs, ExpectedKeys)
  BY <1>3, <1>4, <1>5 DEF Bijection, Injection, Surjection, IsInjective
<1>7. ExistsBijection(DOMAIN docs, ExpectedKeys)
  BY <1>6 DEF ExistsBijection
<1> QED  BY <1>1, <1>7, FS_Bijection

\* A packet that is ready has every part that the documents have for its stage, one
\* document for each criterion, and something of each document
\* (buildShadowKnowledgePacket).
THEOREM ReadyIsWhole == KnowledgeSpec => []ReadyWhole
<1>1. ASSUME KnowledgeInvariant PROVE ReadyWhole
  <2> SUFFICES ASSUME NEW p \in Pages, NEW stage \in Stages, page[p][1] = "index",
                      Ready(page[p][2], stage)
               PROVE  LET docs == page[p][2].docs
                          made == Shadow(docs, stage) IN
                      /\ made.included = {part \in PathSet \X Range(StageSections[stage]) :
                           part[1] \in DOMAIN docs /\ part[2] \in DOMAIN docs[part[1]].sections}
                      /\ made.chars <= MaxPacket
                      /\ Cardinality(DOMAIN docs) = Cardinality(ExpectedKeys)
                      /\ \A path \in DOMAIN docs : \E part \in made.included : part[1] = path
    BY DEF ReadyWhole
  <2> DEFINE index == page[p][2]
             docs == index.docs
             made == Shadow(docs, stage)
  <2>1. docs \in PartialFunctions
    <3>1. page[p] \in PageValues
      BY <1>1, TypesAre DEF KnowledgeInvariant
    <3>2. index \in Payloads
      BY <3>1, PageIs
    <3> HIDE DEF index
    <3> QED  BY <3>2 DEF Payloads
  <2>2. /\ Covered(docs, ExpectedKeys) /\ made.omitted = {}
        /\ \A path \in DOMAIN docs : \A key \in RequiredSections[stage] : Satisfied(docs[path], key)
    BY DEF Ready
  <2>3. made.chars <= MaxPacket /\ made.included = PartsOf(docs, stage)
    <3> HIDE DEF docs, made
    <3>1. made.chars <= MaxPacket /\ made.included \cup made.omitted = PartsOf(docs, stage)
      BY <2>1, ShadowIs DEF made
    <3> QED  BY <2>2, <3>1
  <2>4. PartsOf(docs, stage) = {part \in PathSet \X Range(StageSections[stage]) :
          part[1] \in DOMAIN docs /\ part[2] \in DOMAIN docs[part[1]].sections}
    BY DEF PartsOf, Parts, HasPart
  <2>5. Cardinality(DOMAIN docs) = Cardinality(ExpectedKeys)
    BY <2>1, <2>2, CoveredCounts
  <2> HIDE DEF docs
  <2>6. ASSUME NEW path \in DOMAIN docs PROVE \E part \in made.included : part[1] = path
    <3> DEFINE part == <<path, "canonical_definition">>
    <3>1. /\ "canonical_definition" \in RequiredSections[stage]
          /\ "canonical_definition" \in Range(StageSections[stage])
      <4>1. stage \in {"forensic_audit", "roadmap_synthesis"}
        BY DEF Stages, StageSections
      <4>2. "canonical_definition" \in RequiredSections[stage]
        BY <4>1 DEF RequiredSections
      <4>3. StageSections[stage][1] = "canonical_definition" /\ 1 \in DOMAIN StageSections[stage]
        BY <4>1 DEF StageSections
      <4> QED  BY <4>2, <4>3 DEF Range
    <3>2. "canonical_definition" \in DOMAIN docs[path].sections
      BY <2>2, <3>1 DEF Satisfied
    <3>3. path \in PathSet
      BY <2>1, DocsFinite
    <3>4. part \in PartsOf(docs, stage) /\ part[1] = path
      BY <3>1, <3>2, <3>3 DEF PartsOf, Parts, HasPart
    <3> QED  BY <2>3, <3>4
  <2> QED  BY <2>3, <2>4, <2>5, <2>6 DEF docs
<1> QED  BY KnowledgeSound, <1>1, PTL
=============================================================================
