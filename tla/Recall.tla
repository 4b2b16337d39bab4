------------------------------- MODULE Recall -------------------------------
(***************************************************************************)
(* What Recall answers from the database of MemoryGraph (internal/memory:  *)
(* retrieval_units.go, and the scores of service.go).  Candidates come     *)
(* from the vector index and from the word index, with the rank each gave  *)
(* them; they are joined with their rows and sorted by a score.            *)
(*                                                                         *)
(* Recall only reads.  Its statements are taken together: units and rows   *)
(* are never deleted, and of what it reads only verification states change.*)
(*                                                                         *)
(* Scores are floating point numbers in the code and multiples of          *)
(* 1/Precision here, cut off below.                                        *)
(***************************************************************************)
EXTENDS MemoryGraph, Integers, Sequences

CONSTANTS
    Library,   \* the units there may be: [id, space, ns, kind, memory, words,
               \* parts, artifact, age, rejects, secret]; unit ids are numbers
               \* here, the words are those FTS5 finds, the parts those LIKE
               \* finds, artifact is recallArtifactScore in hundredths, age is
               \* in days, the text may say "rejected", the sensitivity may be
               \* 'secret'
    Queries,   \* [words, spaces, namespaces, kinds, limit, title, text, near,
               \* relevance]: title and text are the units that contain the
               \* whole query; near and relevance list all units, nearest and
               \* most relevant first
    Nearest,   \* candidateLimit
    Precision  \* the fractions of a point that are told apart

Spaces == {"private", "shared", "transcript"}

QueryFields == {"words", "spaces", "namespaces", "kinds", "limit", "title", "text", "near", "relevance"}

ASSUME LibraryAssumption ==
    /\ IsFiniteSet(DOMAIN Library)
    /\ \A u \in DOMAIN Library :
           /\ Library[u].space \in Spaces /\ Library[u].words \subseteq Library[u].parts
           /\ Library[u].space = "shared" => \E r \in Requests : r.memory = Library[u].memory
           /\ Library[u].artifact \in 0..100 /\ Library[u].age \in Nat
           /\ Library[u].id \in Nat
           /\ \A v \in DOMAIN Library : Library[u].id = Library[v].id => u = v
    /\ \A q \in Queries :
           /\ DOMAIN q = QueryFields /\ IsFiniteSet(q.words)
           /\ q.spaces \subseteq Spaces /\ q.limit \in Nat \ {0}
           /\ q.near \in Seq(DOMAIN Library) /\ q.relevance \in Seq(DOMAIN Library)
    /\ Nearest \in Nat \ {0} /\ Precision \in Nat \ {0}

\* The rows of retrieval_units.  Only storeTx makes one for a shared memory;
\* promotion and ingest have made the others.
Units == {u \in DOMAIN Library : Library[u].space = "shared" => Library[u].memory \in claimed}

FirstOf(list, n) == SubSeq(list, 1, IF Len(list) < n THEN Len(list) ELSE n)

\* A set as a list, when before[u] are the members that come before u.
Ordered(before) ==
    [k \in 1..Cardinality(DOMAIN before) |->
        CHOOSE u \in DOMAIN before : Cardinality(before[u]) = k - 1]

\* The entries of list that are in S.
Those(list, S) ==
    LET at == {i \in DOMAIN list : list[i] \in S}
        positions == Ordered([i \in at |-> {j \in at : j < i}])
    IN  [k \in 1..Cardinality(at) |-> list[positions[k]]]

\* normalizeRecallRequest: no space at all means the memories.
AllowedSpaces(q) == IF q.spaces = {} THEN {"private", "shared"} ELSE q.spaces

\* appendInClause: an empty list is no condition.
Requested(q) ==
    {u \in DOMAIN Library :
        /\ ~Library[u].secret
        /\ Library[u].space \in AllowedSpaces(q)
        /\ q.namespaces = {} \/ Library[u].ns \in q.namespaces
        /\ q.kinds = {} \/ Library[u].kind \in q.kinds}

(***************************************************************************)
(* Candidates.                                                             *)
(***************************************************************************)

\* collectRetrievalVectorCandidates: the nearest of all the vectors there are,
\* and of these the ones that are asked for.
VectorCandidates(q, vectors) ==
    Those(FirstOf(Those(q.near, vectors), Nearest), Requested(q))

\* collectRetrievalFTS5Candidates, by bm25
FTS5Candidates(q) ==
    LET matches == {u \in Units \cap Requested(q) : Library[u].words \cap q.words # {}}
    IN  FirstOf(Those(q.relevance, matches), Nearest)

\* collectRetrievalLIKECandidates, by the number of terms that occur, then by id
LIKECandidates(q) ==
    LET Terms(u) == Cardinality(Library[u].parts \cap q.words)
        matches == {u \in Units \cap Requested(q) : Terms(u) > 0}
        More(u, v) == Terms(u) > Terms(v) \/ (Terms(u) = Terms(v) /\ Library[u].id < Library[v].id)
    IN  FirstOf(Ordered([u \in matches |-> {v \in matches : More(v, u)}]), Nearest)

\* collectRetrievalFTSCandidates
LexicalCandidates(q) == IF FTS5Candidates(q) # <<>> THEN FTS5Candidates(q) ELSE LIKECandidates(q)

\* The rank of u in a list of candidates, 0 when it is not in it.
Rank(list, u) == IF \E i \in DOMAIN list : list[i] = u THEN CHOOSE i \in DOMAIN list : list[i] = u ELSE 0

(***************************************************************************)
(* Scores.                                                                 *)
(***************************************************************************)

\* retrievalRankingProfile, in points; semantic and lexical are multiplied with
\* sourceWeight and in tenths.
Profiles == [
    default |-> [semantic |-> 120, lexical |-> 80, graph |-> 40, artifact |-> 40,
                 recency |-> 5, exact |-> 0, transcript |-> 25],
    ja      |-> [semantic |-> 192, lexical |-> 120, graph |-> 42, artifact |-> 40,
                 recency |-> 5, exact |-> 30, transcript |-> 40]]

StatusOf(u) ==
    IF Library[u].space = "shared" /\ Library[u].memory \in DOMAIN status
    THEN status[Library[u].memory] ELSE ""

\* rankingBucket; 'unknown_peer' is never written.
RankingBucket(u) == IF Library[u].space = "private" \/ StatusOf(u) = "valid" THEN 0 ELSE 1

Clamp(n) == IF n < 0 THEN 0 ELSE IF n > 100 THEN 100 ELSE n

\* recallGraphScore of loadRecallGraphStats, in hundredths: every edge at
\* either end, suspended or not, has weight 1.
GraphScore(u) ==
    LET around == IF Library[u].space = "shared"
                  THEN {e \in edges : Library[u].memory \in {e.from, e.to}} ELSE {}
        against == Cardinality({e \in around : IsContradictionRelation(e.type)})
    IN  Clamp(35 * (Cardinality(around) - against) + (15 - 25) * against)

\* n/d points
Points(n, d) == (Precision * n) \div d

Share(weight, rank) == IF rank = 0 THEN 0 ELSE Points(weight, 10 * rank)

\* exactMatchScore, in quarters
ExactMatch(q, u) == IF u \in q.title THEN 4 ELSE IF u \in q.text THEN 3 ELSE 0

\* What recallScoreForProfile adds to the weights of bucket and peer, and the
\* bonus rankRetrievalRows adds to a transcript.
Merit(q, p, semantic, lexical, u) ==
    Share(p.semantic, Rank(semantic, u)) + Share(p.lexical, Rank(lexical, u))
      + Points(GraphScore(u) * p.graph, 100) + Points(Library[u].artifact * p.artifact, 100)
      + Points(p.recency, 1 + Library[u].age) + Points(ExactMatch(q, u) * p.exact, 4)
      + (IF Library[u].space = "transcript" THEN Points(p.transcript, 1) ELSE 0)

\* The bucket is one weight among the others.
Score_FlatBucket(q, p, semantic, lexical, u) ==
    Precision * ((3 - RankingBucket(u)) * 10 + 100) + Merit(q, p, semantic, lexical, u)

\* The score rankRetrievalRows sorts by.  The trust_weight of every peer is 1.
Score(q, p, semantic, lexical, u) ==
    Precision * ((3 - RankingBucket(u)) * 1000 + 100) + Merit(q, p, semantic, lexical, u)

\* The comparison of rankRetrievalRows: the newer of two equals, then the
\* lower id.
Better(q, p, semantic, lexical, u, v) ==
    LET s == Score(q, p, semantic, lexical, u)
        t == Score(q, p, semantic, lexical, v)
    IN  \/ s > t
        \/ s = t /\ Library[u].age < Library[v].age
        \/ s = t /\ Library[u].age = Library[v].age /\ Library[u].id < Library[v].id

\* rankRetrievalRows: the best of the candidates.
RankRows(q, p, semantic, lexical) ==
    LET candidates == {u \in Units : Rank(semantic, u) > 0 \/ Rank(lexical, u) > 0}
    IN  FirstOf(Ordered([u \in candidates |->
                    {v \in candidates : Better(q, p, semantic, lexical, v, u)}]), q.limit)

\* Recall: recallRetrievalUnits with an index of the given vectors, which is
\* empty when the embedding provider cannot be reached.
Recall(q, p, vectors) == RankRows(q, p, VectorCandidates(q, vectors), LexicalCandidates(q))

\* The lifecycle_state of an answer is the state of the unit, which is 'active'
\* for good.
RecalledState(u) == "active"

\* isContextRejected
ContextRejected == {u \in DOMAIN Library : Library[u].rejects \/ RecalledState(u) = "superseded"}

\* ContextBuild: five recalls of the same query, one for each section.
ContextBuild(q, p, vectors) ==
    LET Section(spaces, kinds, n) ==
            Recall([q EXCEPT !.spaces = spaces, !.kinds = kinds, !.limit = n * q.limit], p, vectors)
        memories == {"private", "shared"}
    IN  [decisions   |-> Section({"private"}, {"decision", "rationale", "design_rationale"}, 1),
         constraints |-> Section({"shared"}, {"decision", "rationale", "fact"}, 1),
         discussions |-> Section({"transcript"}, {}, 1),
         tasks       |-> Section(memories, {"task_candidate"}, 1),
         rejected    |-> FirstOf(Those(Section(Spaces, {}, 4), ContextRejected), q.limit)]

(***************************************************************************)
(* Properties.                                                             *)
(***************************************************************************)

\* No graph, no artifact, no bonus and no rank brings something whose signature
\* is unchecked before something that is verified or private, under either
\* profile, with and without the vectors (rankRetrievalRows), in an answer or in
\* a section of a context.
TrustDecides ==
    walk = NoWalk /\ applying = {} =>
        \A q \in Queries, p \in DOMAIN Profiles, vectors \in {{}, Units} :
            LET context == ContextBuild(q, Profiles[p], vectors)
                answers == {Recall(q, Profiles[p], vectors)} \cup {context[s] : s \in DOMAIN context}
            IN  \A answer \in answers : \A i, j \in DOMAIN answer :
                    i < j => RankingBucket(answer[i]) <= RankingBucket(answer[j])

\* Recall says of a memory that was replaced that it was.
SupersededReported ==
    \A q \in Queries :
        LET answer == Recall(q, Profiles["default"], Units)
        IN  \A i \in DOMAIN answer :
                Library[answer[i]].memory \in superseded => RecalledState(answer[i]) = "superseded"
=============================================================================
