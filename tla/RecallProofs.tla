----------------------------- MODULE RecallProofs -----------------------------
(***************************************************************************)
(* TrustDecides for any library of units, any queries and any graph.  The  *)
(* argument is one of numbers: what a score adds to the weight of the      *)
(* bucket is less than the step between two buckets (MeritIsSmall), so the *)
(* sort is by bucket first.  It needs that the list RankRows makes really  *)
(* is sorted (OrderedSorts), that cutting it and picking entries from it   *)
(* keeps the order, and that an edge count is a number: EdgesFinite.       *)
(***************************************************************************)
EXTENDS Recall, MemoryGraphProofs, SequenceTheorems

(***************************************************************************)
(* Lists.                                                                  *)
(***************************************************************************)

\* before is a strict total order of C, given by what comes before a member.
IsOrder(C, before) ==
    /\ IsFiniteSet(C) /\ before \in [C -> SUBSET C]
    /\ \A u \in C : u \notin before[u]
    /\ \A u, v \in C : u # v => u \in before[v] \/ v \in before[u]
    /\ \A u, v \in C : u \in before[v] => before[u] \subseteq before[v]

\* The sorts of the code: Ordered lists all members, each after those that
\* come before it.
LEMMA OrderedSorts ==
    ASSUME NEW C, NEW before, IsOrder(C, before)
    PROVE  /\ Cardinality(C) \in Nat
           /\ Ordered(before) \in [1 .. Cardinality(C) -> C]
           /\ \A i, j \in 1 .. Cardinality(C) :
                  i < j => Ordered(before)[i] \in before[Ordered(before)[j]]
<1> DEFINE n == Cardinality(C)
           place == [u \in C |-> Cardinality(before[u]) + 1]
<1>1. IsFiniteSet(C) /\ n \in Nat /\ DOMAIN before = C
  BY FS_CardinalityType DEF IsOrder
<1>2. ASSUME NEW u \in C
      PROVE  IsFiniteSet(before[u]) /\ Cardinality(before[u]) \in 0 .. n - 1
  <2>1. before[u] \in SUBSET (C \ {u})
    BY DEF IsOrder
  <2>2. IsFiniteSet(C \ {u}) /\ Cardinality(C \ {u}) = n - 1
    BY <1>1, FS_RemoveElement
  <2>3. IsFiniteSet(before[u]) /\ Cardinality(before[u]) <= n - 1
    BY <2>1, <2>2, FS_Subset
  <2>4. Cardinality(before[u]) \in Nat
    BY <2>3, FS_CardinalityType
  <2> QED BY <1>1, <2>3, <2>4
<1>3. ASSUME NEW u \in C, NEW v \in C, u \in before[v]
      PROVE  Cardinality(before[u]) < Cardinality(before[v])
  <2>1. before[u] \in SUBSET before[v] /\ before[u] # before[v]
    BY <1>3 DEF IsOrder
  <2>2. Cardinality(before[u]) <= Cardinality(before[v])
        /\ Cardinality(before[u]) # Cardinality(before[v])
    BY <1>2, <2>1, FS_Subset
  <2> QED BY <1>2, <2>2
<1>4. place \in [C -> 1 .. n]
  BY <1>1, <1>2
<1>5. ASSUME NEW u \in C, NEW v \in C, place[u] = place[v] PROVE u = v
  <2>1. Cardinality(before[u]) = Cardinality(before[v])
    BY <1>2, <1>5
  <2> QED BY <1>2, <1>3, <2>1 DEF IsOrder
<1>6. place \in Injection(C, 1 .. n)
  BY <1>4, <1>5 DEF Injection, IsInjective
<1>7. IsFiniteSet(1 .. n) /\ Cardinality(1 .. n) = n
  BY <1>1, FS_Interval
<1>8. place \in Surjection(C, 1 .. n)
  BY <1>6, <1>7, FS_Injection
<1>9. ASSUME NEW k \in 1 .. n
      PROVE  Ordered(before)[k] \in C /\ Cardinality(before[Ordered(before)[k]]) = k - 1
  <2>1. PICK u \in C : place[u] = k
    BY <1>8 DEF Surjection
  <2>2. Cardinality(before[u]) = k - 1
    BY <1>2, <2>1
  <2>3. Ordered(before)[k] = CHOOSE w \in C : Cardinality(before[w]) = k - 1
    BY <1>1 DEF Ordered
  <2> QED BY <2>2, <2>3
<1>10. Ordered(before) \in [1 .. n -> C]
  BY <1>1, <1>9 DEF Ordered
<1>11. ASSUME NEW i \in 1 .. n, NEW j \in 1 .. n, i < j
       PROVE  Ordered(before)[i] \in before[Ordered(before)[j]]
  <2> DEFINE u == Ordered(before)[i]
             v == Ordered(before)[j]
  <2>1. u \in C /\ v \in C /\ Cardinality(before[u]) = i - 1 /\ Cardinality(before[v]) = j - 1
    BY <1>9
  <2>2. u # v /\ v \notin before[u]
    BY <1>3, <1>11, <2>1
  <2> QED BY <2>1, <2>2 DEF IsOrder
<1> QED BY <1>1, <1>10, <1>11

\* Picking entries of a list yields a list of them, in the same order.
LEMMA ThoseKeepOrder ==
    ASSUME NEW T, NEW list \in Seq(T), NEW S
    PROVE  /\ Those(list, S) \in Seq(T)
           /\ \A k, l \in DOMAIN Those(list, S) : k < l =>
                  \E i, j \in DOMAIN list :
                      i < j /\ Those(list, S)[k] = list[i] /\ Those(list, S)[l] = list[j]
<1> DEFINE at == {i \in DOMAIN list : list[i] \in S}
           before == [i \in at |-> {j \in at : j < i}]
           n == Cardinality(at)
<1>1. Len(list) \in Nat /\ DOMAIN list = 1 .. Len(list) /\ \A i \in DOMAIN list : list[i] \in T
  BY LenProperties
<1>2. IsFiniteSet(at)
  <2>1. IsFiniteSet(1 .. Len(list)) /\ at \in SUBSET (1 .. Len(list))
    BY <1>1, FS_Interval
  <2> QED BY <2>1, FS_Subset
<1>3. at \subseteq Nat
  BY <1>1
<1>4. IsOrder(at, before)
  BY <1>2, <1>3 DEF IsOrder
<1>5. /\ n \in Nat /\ Ordered(before) \in [1 .. n -> at]
      /\ \A i, j \in 1 .. n : i < j => Ordered(before)[i] \in before[Ordered(before)[j]]
  BY <1>4, OrderedSorts
<1>6. Those(list, S) = [k \in 1 .. n |-> list[Ordered(before)[k]]]
  BY DEF Those
<1>7. Those(list, S) \in [1 .. n -> T]
  BY <1>1, <1>5, <1>6
<1>8. Those(list, S) \in Seq(T)
  BY <1>5, <1>7, SeqDef
<1>9. ASSUME NEW k \in 1 .. n, NEW l \in 1 .. n, k < l
      PROVE  \E i, j \in DOMAIN list :
                 i < j /\ Those(list, S)[k] = list[i] /\ Those(list, S)[l] = list[j]
  <2>1. Ordered(before)[k] \in at /\ Ordered(before)[l] \in at
        /\ Ordered(before)[k] < Ordered(before)[l]
    BY <1>5, <1>9
  <2>2. /\ Those(list, S)[k] = list[Ordered(before)[k]]
        /\ Those(list, S)[l] = list[Ordered(before)[l]]
    BY <1>6
  <2> QED BY <2>1, <2>2
<1>10. DOMAIN Those(list, S) = 1 .. n
  BY <1>6
<1> QED BY <1>8, <1>9, <1>10

\* Cutting a list after n entries.
LEMMA FirstOfList ==
    ASSUME NEW T, NEW list \in Seq(T), NEW n \in Nat
    PROVE  /\ FirstOf(list, n) \in Seq(T)
           /\ \A i \in DOMAIN FirstOf(list, n) : i \in DOMAIN list /\ FirstOf(list, n)[i] = list[i]
<1> DEFINE last == IF Len(list) < n THEN Len(list) ELSE n
<1>1. Len(list) \in Nat /\ DOMAIN list = 1 .. Len(list) /\ \A i \in DOMAIN list : list[i] \in T
  BY LenProperties
<1>2. last \in Nat /\ last <= Len(list)
  BY <1>1
<1>3. \A i \in 1 .. last : list[i] \in T
  BY <1>1, <1>2
<1>4. FirstOf(list, n) = SubSeq(list, 1, last)
  BY DEF FirstOf
<1> HIDE DEF last
<1>5. /\ SubSeq(list, 1, last) \in Seq(T) /\ Len(SubSeq(list, 1, last)) = last
      /\ \A i \in 1 .. last : SubSeq(list, 1, last)[i] = list[i]
  BY <1>2, <1>3, SubSeqProperties
<1>6. DOMAIN SubSeq(list, 1, last) = 1 .. last
  BY <1>5, LenProperties
<1> QED BY <1>1, <1>2, <1>4, <1>5, <1>6

\* What is first of a list is where it was.
LEMMA FirstOfEntries ==
    ASSUME NEW T, NEW list \in Seq(T), NEW n \in Nat, NEW i \in DOMAIN FirstOf(list, n)
    PROVE  i \in DOMAIN list /\ FirstOf(list, n)[i] = list[i]
  BY FirstOfList

(***************************************************************************)
(* The edges are finitely many, so they can be counted.                    *)
(***************************************************************************)
LEMMA FiniteRelations ==
    ASSUME NEW r \in Requests
    PROVE  IsFiniteSet(RelationEdges(r))
<1> DEFINE Leads == [rel \in r.relations |-> [from |-> r.memory, to |-> rel[2], type |-> rel[1]]]
<1>1. Leads \in Surjection(r.relations, RelationEdges(r))
  BY DEF RelationEdges, Surjection
<1>2. IsFiniteSet(r.relations)
  BY ConstantsAssumption
<1> QED BY <1>1, <1>2, FS_Surjection

\* A step adds the edges of one request or of one batch.
LEMMA EdgesFiniteStep ==
    ASSUME GraphInv, IsFiniteSet(edges), [GraphNext]_graph
    PROVE  IsFiniteSet(edges')
<1>1. ASSUME NEW r \in Requests, NEW more, NEW replaced, IsFiniteSet(more), StoreTx(r, more, replaced)
      PROVE  IsFiniteSet(edges')
  <2>1. edges' = (edges \cup RelationEdges(r)) \cup more
    BY <1>1 DEF StoreTx
  <2> QED BY <1>1, <2>1, FiniteRelations, FS_Union
<1>2. ASSUME NEW r \in Requests, Store(r) PROVE IsFiniteSet(edges')
  BY <1>1, <1>2, FS_EmptySet DEF Store
<1>3. ASSUME NEW r \in Requests, NEW old \in Memories, Supersede(old, r) PROVE IsFiniteSet(edges')
  BY <1>1, <1>3, FS_Singleton DEF Supersede
<1>4. ASSUME NEW a \in applying, Merge(a) PROVE IsFiniteSet(edges')
  <2>1. IsFiniteSet(a.batch.edges)
    BY ConstantsAssumption DEF GraphInv, Promised, IsVerified
  <2> QED BY <1>4, <2>1, FS_Union DEF Merge
<1>5. CASE UNCHANGED edges
  BY <1>5
<1>6. \/ \E r \in Requests : Store(r) \/ \E old \in Memories : Supersede(old, r)
      \/ \E a \in applying : Merge(a)
      \/ UNCHANGED edges
  BY DEF GraphNext, graph, Verify, Abandon, RunActiveRepair, TraceDecision, LoadTraceEdges,
         TraceHop, TraceLevel, TraceReturns, Becomes, data
<1> QED BY <1>2, <1>3, <1>4, <1>5, <1>6

\* So there are never infinitely many.
LEMMA EdgesFinite == GraphSpec => []IsFiniteSet(edges)
<1>1. GraphInit => IsFiniteSet(edges)
  BY FS_EmptySet DEF GraphInit
<1>2. GraphInv /\ IsFiniteSet(edges) /\ [GraphNext]_graph => IsFiniteSet(edges)'
  BY EdgesFiniteStep
<1> QED BY <1>1, <1>2, GraphAlways, PTL DEF GraphSpec

(***************************************************************************)
(* Scores.                                                                 *)
(***************************************************************************)
LEMMA RankIsNat ==
    ASSUME NEW T, NEW list \in Seq(T), NEW u
    PROVE  Rank(list, u) \in Nat
<1>1. DOMAIN list \subseteq Nat
  BY LenProperties
<1> QED BY <1>1 DEF Rank

\* A fraction that is at most k.
LEMMA PointsBound ==
    ASSUME NEW n \in Nat, NEW d \in Nat \ {0}, NEW k \in Nat, n <= k * d
    PROVE  Points(n, d) \in 0 .. Precision * k
<1> DEFINE P == Precision
           part == (P * n) \div d
<1>1. P \in Nat \ {0}
  BY LibraryAssumption
<1> HIDE DEF P
<1>2. P * n <= P * (k * d) /\ P * n \in Nat
  BY <1>1
<1>3. P * (k * d) = (P * k) * d /\ P * k \in Nat
  BY <1>1
<1> DEFINE a == P * n
           m == P * k
<1>4. a \in Nat /\ m \in Nat /\ a <= m * d
  BY <1>2, <1>3
<1> HIDE DEF a, m
<1>5. a \div d \in 0 .. m
  <2>1. a \div d \in Nat /\ d * (a \div d) <= a
    BY <1>4
  <2>2. CASE a \div d > m
    <3>1. a \div d >= m + 1
      BY <2>1, <2>2, <1>4
    <3>2. d * (a \div d) >= d * (m + 1)
      BY <2>1, <3>1, <1>4
    <3>3. d * (m + 1) = m * d + d
      BY <1>4
    <3> QED BY <2>1, <3>2, <3>3, <1>4
  <2> QED BY <2>1, <2>2, <1>4
<1> QED BY <1>5 DEF Points, P, a, m

\* recallGraphScore is between 0 and 1, whatever contradicts what.
LEMMA GraphScoreIsPercent ==
    ASSUME IsFiniteSet(edges), NEW u
    PROVE  GraphScore(u) \in 0 .. 100
<1> DEFINE around == IF Library[u].space = "shared"
                     THEN {e \in edges : Library[u].memory \in {e.from, e.to}} ELSE {}
           contra == {e \in around : IsContradictionRelation(e.type)}
           against == Cardinality(contra)
<1>1. around \in SUBSET edges /\ contra \in SUBSET edges
  OBVIOUS
<1>2. Cardinality(around) \in Nat /\ against \in Nat
  BY <1>1, FS_Subset, FS_CardinalityType
<1>3. GraphScore(u) = Clamp(35 * (Cardinality(around) - against) + (15 - 25) * against)
  BY DEF GraphScore
<1> HIDE DEF around, against
<1> QED BY <1>2, <1>3 DEF Clamp

\* The fractions that occur.
LEMMA PointsAre ==
    ASSUME NEW n \in Nat
    PROVE  /\ n <= 4200 => Points(n, 100) \in 0 .. Precision * 42
           /\ n <= 120  => Points(n, 4) \in 0 .. Precision * 30
           /\ n <= 40   => Points(n, 1) \in 0 .. Precision * 40
<1> DEFINE Bounded(d, k) == n <= k * d => Points(n, d) \in 0 .. Precision * k
<1>1. \A d \in Nat \ {0}, k \in Nat : Bounded(d, k)
  BY PointsBound
<1>2. Bounded(100, 42) /\ Bounded(4, 30) /\ Bounded(1, 40)
  <2> HIDE DEF Bounded
  <2> QED BY <1>1
<1>3. 42 * 100 = 4200 /\ 30 * 4 = 120 /\ 40 * 1 = 40
  OBVIOUS
<1> QED BY <1>2, <1>3

\* The weights of either profile are no more than these.
IsProfile(p) ==
    /\ p.semantic \in 0 .. 192 /\ p.lexical \in 0 .. 120 /\ p.graph \in {40, 42}
    /\ p.artifact = 40 /\ p.recency = 5 /\ p.exact \in {0, 30} /\ p.transcript \in {25, 40}

\* Both profiles of the code are such profiles.
LEMMA ProfilesAre == ASSUME NEW name \in DOMAIN Profiles PROVE IsProfile(Profiles[name])
<1>1. name \in {"default", "ja"}
  BY DEF Profiles
<1>2. IsProfile(Profiles["default"])
  BY DEF Profiles, IsProfile
<1>3. IsProfile(Profiles["ja"])
  BY DEF Profiles, IsProfile
<1> QED BY <1>1, <1>2, <1>3

\* A rank is worth no more than the weight of its source.
LEMMA ShareIsSmall ==
    ASSUME NEW weight \in 0 .. 200, NEW rank \in Nat
    PROVE  Share(weight, rank) \in 0 .. Precision * 20
<1>1. CASE rank = 0
  BY <1>1, LibraryAssumption DEF Share
<1>2. CASE rank # 0
  <2>1. 10 * rank \in Nat \ {0} /\ weight <= 20 * (10 * rank) /\ weight \in Nat
    BY <1>2
  <2> QED BY <1>2, <2>1, PointsBound DEF Share
<1> QED BY <1>1, <1>2

\* A share of a weight of 40 or 42 is no more than the weight.
LEMMA PercentOf ==
    ASSUME NEW n \in 0 .. 100, NEW w \in {40, 42}
    PROVE  Points(n * w, 100) \in 0 .. Precision * 42
<1>1. n * w \in Nat /\ n * w <= 4200
  OBVIOUS
<1> QED BY <1>1, PointsAre

\* What the parts of a score can add up to.
LEMMA SumOfShares ==
    ASSUME NEW P \in Nat, NEW a \in 0 .. P * 20, NEW b \in 0 .. P * 20, NEW c \in 0 .. P * 42,
           NEW d \in 0 .. P * 42, NEW e \in 0 .. P * 5, NEW f \in 0 .. P * 30, NEW g \in 0 .. P * 40
    PROVE  a + b + c + d + e + f + g \in 0 .. P * 199
  OBVIOUS

\* No graph, artifact, rank, age or bonus outweighs a bucket.
LEMMA MeritIsSmall ==
    ASSUME IsFiniteSet(edges), NEW p, IsProfile(p), NEW q,
           NEW T, NEW semantic \in Seq(T), NEW lexical \in Seq(T), NEW u \in DOMAIN Library
    PROVE  Merit(q, p, semantic, lexical, u) \in 0 .. Precision * 199
<1>1. Library[u].artifact \in 0 .. 100 /\ Library[u].age \in Nat /\ Precision \in Nat \ {0}
  BY LibraryAssumption
<1>2. /\ Share(p.semantic, Rank(semantic, u)) \in 0 .. Precision * 20
      /\ Share(p.lexical, Rank(lexical, u)) \in 0 .. Precision * 20
  <2>1. p.semantic \in 0 .. 200 /\ p.lexical \in 0 .. 200
    BY DEF IsProfile
  <2>2. Rank(semantic, u) \in Nat /\ Rank(lexical, u) \in Nat
    BY RankIsNat
  <2> QED BY <2>1, <2>2, ShareIsSmall
<1>3. Points(GraphScore(u) * p.graph, 100) \in 0 .. Precision * 42
  <2>1. GraphScore(u) \in 0 .. 100 /\ p.graph \in {40, 42}
    BY GraphScoreIsPercent DEF IsProfile
  <2> QED BY <2>1, PercentOf
<1>4. Points(Library[u].artifact * p.artifact, 100) \in 0 .. Precision * 42
  <2>1. p.artifact \in {40, 42}
    BY DEF IsProfile
  <2> QED BY <1>1, <2>1, PercentOf
<1>5. Points(p.recency, 1 + Library[u].age) \in 0 .. Precision * 5
  <2>1. p.recency = 5 /\ 1 + Library[u].age \in Nat \ {0} /\ 5 <= 5 * (1 + Library[u].age)
    BY <1>1 DEF IsProfile
  <2> QED BY <2>1, PointsBound
<1>6. Points(ExactMatch(q, u) * p.exact, 4) \in 0 .. Precision * 30
  <2>1. ExactMatch(q, u) \in {0, 3, 4} /\ p.exact \in {0, 30}
    BY DEF ExactMatch, IsProfile
  <2>2. PICK n \in Nat : n = ExactMatch(q, u) * p.exact /\ n <= 120
    BY <2>1
  <2>3. Points(n, 4) \in 0 .. Precision * 30
    BY <2>2, PointsAre
  <2> QED BY <2>2, <2>3
<1>7. (IF Library[u].space = "transcript" THEN Points(p.transcript, 1) ELSE 0) \in 0 .. Precision * 40
  <2>1. p.transcript \in Nat /\ p.transcript <= 40
    BY DEF IsProfile
  <2>2. Points(p.transcript, 1) \in 0 .. Precision * 40
    BY <2>1, PointsAre
  <2> QED BY <1>1, <2>2
<1> DEFINE a == Share(p.semantic, Rank(semantic, u))
           b == Share(p.lexical, Rank(lexical, u))
           c == Points(GraphScore(u) * p.graph, 100)
           d == Points(Library[u].artifact * p.artifact, 100)
           e == Points(p.recency, 1 + Library[u].age)
           f == Points(ExactMatch(q, u) * p.exact, 4)
           g == IF Library[u].space = "transcript" THEN Points(p.transcript, 1) ELSE 0
<1>8. Merit(q, p, semantic, lexical, u) = a + b + c + d + e + f + g
  BY DEF Merit
<1> HIDE DEF a, b, c, d, e, f, g
<1>9. /\ a \in 0 .. Precision * 20 /\ b \in 0 .. Precision * 20 /\ c \in 0 .. Precision * 42
      /\ d \in 0 .. Precision * 42 /\ e \in 0 .. Precision * 5 /\ f \in 0 .. Precision * 30
      /\ g \in 0 .. Precision * 40
  BY <1>2, <1>3, <1>4, <1>5, <1>6, <1>7 DEF a, b, c, d, e, f, g
<1>10. a + b + c + d + e + f + g \in 0 .. Precision * 199
  <2>1. PICK P \in Nat : P = Precision
    BY <1>1
  <2>2. /\ a \in 0 .. P * 20 /\ b \in 0 .. P * 20 /\ c \in 0 .. P * 42 /\ d \in 0 .. P * 42
        /\ e \in 0 .. P * 5 /\ f \in 0 .. P * 30 /\ g \in 0 .. P * 40
    BY <1>9, <2>1
  <2>3. a + b + c + d + e + f + g \in 0 .. P * 199
    BY <2>2, SumOfShares
  <2> QED BY <2>1, <2>3
<1> QED BY <1>8, <1>10

\* There are two buckets in use.
LEMMA BucketsAre ==
    ASSUME NEW u
    PROVE  RankingBucket(u) \in {0, 1}
  BY DEF RankingBucket

\* A better one is never of a worse bucket.
LEMMA BetterIsTrusted ==
    ASSUME IsFiniteSet(edges), NEW p, IsProfile(p), NEW q,
           NEW T, NEW semantic \in Seq(T), NEW lexical \in Seq(T),
           NEW u \in DOMAIN Library, NEW v \in DOMAIN Library,
           Better(q, p, semantic, lexical, u, v)
    PROVE  RankingBucket(u) <= RankingBucket(v)
<1> DEFINE M(w) == Merit(q, p, semantic, lexical, w)
           S(w) == Score(q, p, semantic, lexical, w)
<1>1. M(u) \in 0 .. Precision * 199 /\ M(v) \in 0 .. Precision * 199
  BY MeritIsSmall
<1>2. /\ S(u) = Precision * ((3 - RankingBucket(u)) * 1000 + 100) + M(u)
      /\ S(v) = Precision * ((3 - RankingBucket(v)) * 1000 + 100) + M(v)
  BY DEF Score
<1>3. S(u) > S(v) \/ S(u) = S(v)
  BY DEF Better
<1> HIDE DEF M, S
<1>4. CASE RankingBucket(u) = 1 /\ RankingBucket(v) = 0
  <2>1. S(u) = Precision * 2100 + M(u) /\ S(v) = Precision * 3100 + M(v)
    BY <1>2, <1>4
  <2> QED BY <1>1, <1>3, <2>1, LibraryAssumption
<1> QED BY <1>4, BucketsAre

\* The comparison of rankRetrievalRows is a strict total order.
LEMMA BetterOrders ==
    ASSUME IsFiniteSet(edges), NEW p, IsProfile(p), NEW q,
           NEW T, NEW semantic \in Seq(T), NEW lexical \in Seq(T), NEW C \in SUBSET DOMAIN Library
    PROVE  IsOrder(C, [u \in C |-> {v \in C : Better(q, p, semantic, lexical, v, u)}])
<1> DEFINE B(u, v) == Better(q, p, semantic, lexical, u, v)
           S(u) == Score(q, p, semantic, lexical, u)
           before == [u \in C |-> {v \in C : B(v, u)}]
<1>1. IsFiniteSet(C)
  BY LibraryAssumption, FS_Subset
<1>2. ASSUME NEW u \in C
      PROVE  S(u) \in Int /\ Library[u].age \in Nat /\ Library[u].id \in Nat
             /\ \A v \in C : Library[u].id = Library[v].id => u = v
  <2>1. Merit(q, p, semantic, lexical, u) \in Int /\ RankingBucket(u) \in Int
    BY MeritIsSmall, BucketsAre
  <2>2. S(u) \in Int
    BY <2>1, LibraryAssumption DEF Score
  <2> QED BY <2>2, LibraryAssumption
<1>3. ASSUME NEW u \in C, NEW v \in C
      PROVE  B(u, v) <=> \/ S(u) > S(v)
                         \/ S(u) = S(v) /\ Library[u].age < Library[v].age
                         \/ /\ S(u) = S(v) /\ Library[u].age = Library[v].age
                            /\ Library[u].id < Library[v].id
  BY DEF Better
<1> HIDE DEF B, S
<1>4. ASSUME NEW u \in C PROVE ~B(u, u)
  BY <1>2, <1>3
<1>5. ASSUME NEW u \in C, NEW v \in C, u # v PROVE B(u, v) \/ B(v, u)
  BY <1>2, <1>3, <1>5
<1>6. ASSUME NEW u \in C, NEW v \in C, NEW w \in C, B(w, u), B(u, v) PROVE B(w, v)
  BY <1>2, <1>3, <1>6
<1>7. IsOrder(C, before)
  BY <1>1, <1>4, <1>5, <1>6 DEF IsOrder
<1> QED BY <1>7 DEF B

(***************************************************************************)
(* Answers.                                                                *)
(***************************************************************************)
IsQuery(q) ==
    /\ DOMAIN q = QueryFields /\ IsFiniteSet(q.words) /\ q.limit \in Nat
    /\ q.near \in Seq(DOMAIN Library) /\ q.relevance \in Seq(DOMAIN Library)

\* A list in the order of the buckets.
Trusted(answer) ==
    /\ answer \in Seq(DOMAIN Library)
    /\ \A i, j \in DOMAIN answer : i < j => RankingBucket(answer[i]) <= RankingBucket(answer[j])

\* The beginning of a trusted answer is trusted.
LEMMA TrustedFirst ==
    ASSUME NEW list, Trusted(list), NEW n \in Nat
    PROVE  Trusted(FirstOf(list, n))
<1> DEFINE cut == FirstOf(list, n)
<1>1. list \in Seq(DOMAIN Library)
  BY DEF Trusted
<1>2. cut \in Seq(DOMAIN Library)
  BY <1>1, FirstOfList
<1>3. \A i \in DOMAIN cut : i \in DOMAIN list /\ cut[i] = list[i]
  BY <1>1, FirstOfEntries, Zenon
<1> HIDE DEF cut
<1>4. ASSUME NEW i \in DOMAIN cut, NEW j \in DOMAIN cut, i < j
      PROVE  RankingBucket(cut[i]) <= RankingBucket(cut[j])
  BY <1>3, <1>4 DEF Trusted
<1>5. Trusted(cut)
  BY <1>2, <1>4 DEF Trusted
<1> QED BY <1>5 DEF cut

\* A sorted set of units is a list of units.
LEMMA OrderedIsList ==
    ASSUME NEW C \in SUBSET DOMAIN Library, NEW before, IsOrder(C, before)
    PROVE  Ordered(before) \in Seq(DOMAIN Library)
<1>1. Cardinality(C) \in Nat /\ Ordered(before) \in [1 .. Cardinality(C) -> DOMAIN Library]
  BY OrderedSorts
<1> QED BY <1>1, SeqDef

\* The comparison of collectRetrievalLIKECandidates is a strict total order.
LEMMA LIKEIsList ==
    ASSUME NEW q, IsQuery(q)
    PROVE  LIKECandidates(q) \in Seq(DOMAIN Library)
<1> DEFINE Terms(u) == Cardinality(Library[u].parts \cap q.words)
           C == {u \in Units \cap Requested(q) : Terms(u) > 0}
           More(u, v) == Terms(u) > Terms(v) \/ (Terms(u) = Terms(v) /\ Library[u].id < Library[v].id)
           before == [u \in C |-> {v \in C : More(v, u)}]
<1>1. C \in SUBSET DOMAIN Library /\ IsFiniteSet(C)
  <2>1. C \in SUBSET DOMAIN Library
    BY DEF Units
  <2> QED BY <2>1, LibraryAssumption, FS_Subset
<1>2. ASSUME NEW u \in C
      PROVE  Terms(u) \in Nat /\ Library[u].id \in Nat
             /\ \A v \in C : Library[u].id = Library[v].id => u = v
  <2>1. IsFiniteSet(Library[u].parts \cap q.words)
    BY FS_Intersection DEF IsQuery
  <2>2. Terms(u) \in Nat
    BY <2>1, FS_CardinalityType
  <2>3. u \in DOMAIN Library /\ \A v \in C : v \in DOMAIN Library
    BY <1>1
  <2> QED BY <2>2, <2>3, LibraryAssumption
<1> HIDE DEF C, Terms
<1>3. ASSUME NEW u \in C PROVE ~More(u, u)
  BY <1>2
<1>4. ASSUME NEW u \in C, NEW v \in C, u # v PROVE More(u, v) \/ More(v, u)
  BY <1>2, <1>4
<1>5. ASSUME NEW u \in C, NEW v \in C, NEW w \in C, More(w, u), More(u, v) PROVE More(w, v)
  BY <1>2, <1>5
<1> HIDE DEF More
<1>6. IsOrder(C, before)
  BY <1>1, <1>3, <1>4, <1>5 DEF IsOrder
<1>7. Ordered(before) \in Seq(DOMAIN Library)
  BY <1>1, <1>6, OrderedIsList
<1>8. LIKECandidates(q) = FirstOf(Ordered(before), Nearest)
  BY DEF LIKECandidates, C, Terms, More
<1> QED BY <1>7, <1>8, FirstOfList, LibraryAssumption

\* Candidates are lists of units.
LEMMA CandidatesAreLists ==
    ASSUME NEW q, IsQuery(q), NEW vectors
    PROVE  /\ VectorCandidates(q, vectors) \in Seq(DOMAIN Library)
           /\ LexicalCandidates(q) \in Seq(DOMAIN Library)
<1>1. Nearest \in Nat
  BY LibraryAssumption
<1>2. VectorCandidates(q, vectors) \in Seq(DOMAIN Library)
  <2>1. Those(q.near, vectors) \in Seq(DOMAIN Library)
    BY ThoseKeepOrder DEF IsQuery
  <2>2. FirstOf(Those(q.near, vectors), Nearest) \in Seq(DOMAIN Library)
    BY <1>1, <2>1, FirstOfList
  <2> QED BY <2>2, ThoseKeepOrder DEF VectorCandidates
<1>3. FTS5Candidates(q) \in Seq(DOMAIN Library)
  <2> DEFINE matches == {u \in Units \cap Requested(q) : Library[u].words \cap q.words # {}}
  <2>1. Those(q.relevance, matches) \in Seq(DOMAIN Library)
    <3> HIDE DEF matches
    <3> QED BY ThoseKeepOrder DEF IsQuery
  <2>2. FTS5Candidates(q) = FirstOf(Those(q.relevance, matches), Nearest)
    BY DEF FTS5Candidates
  <2> QED BY <1>1, <2>1, <2>2, FirstOfList
<1>4. LexicalCandidates(q) \in Seq(DOMAIN Library)
  BY <1>3, LIKEIsList DEF LexicalCandidates
<1> QED BY <1>2, <1>4

\* What rankRetrievalRows returns is in the order of the buckets.
LEMMA RankedByTrust ==
    ASSUME IsFiniteSet(edges), NEW p, IsProfile(p), NEW q, IsQuery(q),
           NEW semantic \in Seq(DOMAIN Library), NEW lexical \in Seq(DOMAIN Library)
    PROVE  Trusted(RankRows(q, p, semantic, lexical))
<1> DEFINE C == {u \in Units : Rank(semantic, u) > 0 \/ Rank(lexical, u) > 0}
           before == [u \in C |-> {v \in C : Better(q, p, semantic, lexical, v, u)}]
           list == Ordered(before)
<1>1. C \in SUBSET DOMAIN Library
  BY DEF Units
<1> HIDE DEF C
<1>2. IsOrder(C, before)
  BY <1>1, BetterOrders
<1>3. list \in Seq(DOMAIN Library)
  <2> HIDE DEF before
  <2> QED BY <1>1, <1>2, OrderedIsList
<1>4. /\ Cardinality(C) \in Nat /\ list \in [1 .. Cardinality(C) -> C]
      /\ \A i, j \in 1 .. Cardinality(C) : i < j => list[i] \in before[list[j]]
  <2> HIDE DEF before
  <2> QED BY <1>2, OrderedSorts
<1>5. ASSUME NEW i \in DOMAIN list, NEW j \in DOMAIN list, i < j
      PROVE  RankingBucket(list[i]) <= RankingBucket(list[j])
  <2>1. list[i] \in C /\ list[j] \in C /\ list[i] \in before[list[j]]
    <3> HIDE DEF before
    <3> QED BY <1>4, <1>5
  <2> DEFINE u == list[i]
             v == list[j]
  <2>2. u \in C /\ v \in C /\ u \in before[v]
    BY <2>1
  <2> HIDE DEF u, v
  <2>3. Better(q, p, semantic, lexical, u, v)
    BY <2>2
  <2>4. RankingBucket(u) <= RankingBucket(v)
    BY <1>1, <2>2, <2>3, BetterIsTrusted
  <2> QED BY <2>4 DEF u, v
<1>6. RankRows(q, p, semantic, lexical) = FirstOf(list, q.limit)
  BY DEF RankRows, C
<1> HIDE DEF list
<1>7. q.limit \in Nat
  BY DEF IsQuery
<1>8. Trusted(list)
  BY <1>3, <1>5 DEF Trusted
<1> QED BY <1>6, <1>7, <1>8, TrustedFirst

\* An answer of Recall is by trust.
LEMMA RecallByTrust ==
    ASSUME IsFiniteSet(edges), NEW p, IsProfile(p), NEW q, IsQuery(q), NEW vectors
    PROVE  Trusted(Recall(q, p, vectors))
  BY CandidatesAreLists, RankedByTrust DEF Recall

\* Cutting an answer and picking from it leaves it in its order.
LEMMA TrustedParts ==
    ASSUME NEW answer, Trusted(answer), NEW S, NEW n \in Nat
    PROVE  Trusted(FirstOf(Those(answer, S), n))
<1> DEFINE some == Those(answer, S)
<1>1. some \in Seq(DOMAIN Library)
  BY ThoseKeepOrder DEF Trusted
<1>2. ASSUME NEW k \in DOMAIN some, NEW l \in DOMAIN some, k < l
      PROVE  RankingBucket(some[k]) <= RankingBucket(some[l])
  <2>1. PICK i \in DOMAIN answer, j \in DOMAIN answer :
            i < j /\ some[k] = answer[i] /\ some[l] = answer[j]
    BY <1>2, ThoseKeepOrder DEF Trusted
  <2> QED BY <2>1 DEF Trusted
<1> HIDE DEF some
<1>3. Trusted(some)
  BY <1>1, <1>2 DEF Trusted
<1>4. Trusted(FirstOf(some, n))
  BY <1>3, TrustedFirst
<1> QED BY <1>4 DEF some

\* Each section of a context.
LEMMA ContextByTrust ==
    ASSUME IsFiniteSet(edges), NEW p, IsProfile(p), NEW q \in Queries, NEW vectors
    PROVE  /\ Trusted(Recall(q, p, vectors))
           /\ \A s \in DOMAIN ContextBuild(q, p, vectors) : Trusted(ContextBuild(q, p, vectors)[s])
<1> DEFINE Asked(spaces, kinds, n) == [q EXCEPT !.spaces = spaces, !.kinds = kinds, !.limit = n * q.limit]
           Section(spaces, kinds, n) == Recall(Asked(spaces, kinds, n), p, vectors)
           memories == {"private", "shared"}
<1>1. IsQuery(q)
  BY LibraryAssumption DEF IsQuery
<1>2. ASSUME NEW spaces, NEW kinds, NEW n \in Nat PROVE IsQuery(Asked(spaces, kinds, n))
  <2>1. DOMAIN Asked(spaces, kinds, n) = QueryFields
    BY <1>1 DEF IsQuery
  <2>2. /\ Asked(spaces, kinds, n).words = q.words /\ Asked(spaces, kinds, n).limit = n * q.limit
        /\ Asked(spaces, kinds, n).near = q.near /\ Asked(spaces, kinds, n).relevance = q.relevance
    BY <1>1 DEF IsQuery, QueryFields
  <2>3. n * q.limit \in Nat
    BY <1>1 DEF IsQuery
  <2> HIDE DEF Asked
  <2> QED BY <1>1, <2>1, <2>2, <2>3 DEF IsQuery
<1>3. \A spaces, kinds : Trusted(Section(spaces, kinds, 1)) /\ Trusted(Section(spaces, kinds, 4))
  BY <1>2, RecallByTrust
<1>4. Trusted(FirstOf(Those(Section(Spaces, {}, 4), ContextRejected), q.limit))
  <2>1. q.limit \in Nat /\ Trusted(Section(Spaces, {}, 4))
    BY <1>1, <1>3 DEF IsQuery
  <2> HIDE DEF Section
  <2> QED BY <2>1, TrustedParts
<1>5. ContextBuild(q, p, vectors) =
        [decisions   |-> Section({"private"}, {"decision", "rationale", "design_rationale"}, 1),
         constraints |-> Section({"shared"}, {"decision", "rationale", "fact"}, 1),
         discussions |-> Section({"transcript"}, {}, 1),
         tasks       |-> Section(memories, {"task_candidate"}, 1),
         rejected    |-> FirstOf(Those(Section(Spaces, {}, 4), ContextRejected), q.limit)]
  BY DEF ContextBuild
<1> HIDE DEF Section
<1>6. ASSUME NEW s \in DOMAIN ContextBuild(q, p, vectors)
      PROVE  Trusted(ContextBuild(q, p, vectors)[s])
  <2>1. s \in {"decisions", "constraints", "discussions", "tasks", "rejected"}
    BY <1>5
  <2> QED BY <1>3, <1>4, <1>5, <2>1
<1> QED BY <1>1, <1>6, RecallByTrust

(***************************************************************************)
(* Theorem.                                                                *)
(***************************************************************************)

\* In every answer of Recall and every section of ContextBuild what is verified
\* or private comes before what is unchecked, whatever graph, artifacts, ages
\* and ranks say (rankRetrievalRows).
THEOREM TrustAlwaysDecides == GraphSpec => []TrustDecides
<1>1. IsFiniteSet(edges) => TrustDecides
  <2> SUFFICES ASSUME IsFiniteSet(edges), NEW q \in Queries, NEW name \in DOMAIN Profiles, NEW vectors,
                      NEW answer \in {Recall(q, Profiles[name], vectors)} \cup
                                     {ContextBuild(q, Profiles[name], vectors)[s] :
                                         s \in DOMAIN ContextBuild(q, Profiles[name], vectors)}
               PROVE  Trusted(answer)
    BY DEF TrustDecides, Trusted
  <2> QED BY ProfilesAre, ContextByTrust
<1> QED BY <1>1, EdgesFinite, PTL
=============================================================================
