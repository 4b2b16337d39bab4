------------------------------ MODULE MCRecall ------------------------------
(***************************************************************************)
(* A small instance of MemoryGraph and Recall for TLC.  m1 and m2 are      *)
(* stored here, r1 and r2 by a peer, where r1 replaces r2.  r1 is of one   *)
(* namespace, r2 of another: what the peer sends of r1 may come first.  u  *)
(* is of a peer nobody knows.  There are also a private memory p, a        *)
(* new transcript chunk c with the query in it, and a secret k.            *)
(***************************************************************************)
EXTENDS Recall, TLC

CONSTANTS m1, m2, r1, r2, u, p, c, k

Edge(from, type, to) == [from |-> from, to |-> to, type |-> type]

MCRequests ==
    {[memory |-> m1, relations |-> {}],
     [memory |-> m2, relations |-> {<<"supports", r1>>, <<"contradicts", m1>>}]}

MCBatches ==
    {[claims |-> {r1}, revised |-> {r2}, signals |-> {r1, r2},
      edges |-> {Edge(r1, "supersedes", r2), Edge(r1, "contradicts", m1)}],
     [claims |-> {r2}, revised |-> {}, signals |-> {r2},
      edges |-> {Edge(r2, "derived_from", r1)}],
     [claims |-> {u}, revised |-> {}, signals |-> {u}, edges |-> {}]}

Unit(id, space, ns, memory, words, artifact, age) ==
    [id |-> id, space |-> space, ns |-> ns, kind |-> "decision", memory |-> memory, words |-> words,
     parts |-> words \cup {"part"}, artifact |-> artifact, age |-> age, rejects |-> age = 2,
     secret |-> memory = k]

MCLibrary ==
    m1 :> Unit(3, "shared", "x", m1, {"word"}, 0, 2) @@ m2 :> Unit(4, "shared", "y", m2, {"other"}, 0, 1) @@
    p :> Unit(5, "private", "x", p, {"word"}, 40, 2) @@ c :> Unit(1, "transcript", "x", c, {"word", "other"}, 0, 0) @@
    k :> Unit(2, "private", "x", k, {"word"}, 0, 0)

Ask(words, spaces, namespaces, limit) ==
    [words |-> words, spaces |-> spaces, namespaces |-> namespaces, kinds |-> {}, limit |-> limit,
     title |-> {c}, text |-> {c, m1}, near |-> <<c, m2, k, p, m1>>, relevance |-> <<k, c, m1, p, m2>>]

MCQueries ==
    {Ask({"word"}, Spaces, {}, 4), Ask({"word", "other"}, {}, {}, 2),
     Ask({"part"}, {"shared", "transcript"}, {"x"}, 3)}
=============================================================================
