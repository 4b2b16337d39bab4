-------------------------- MODULE IndexQueueProofs --------------------------
(***************************************************************************)
(* Proofs about IndexQueue: its type invariant, and that a memory stored   *)
(* here never drops out of the queues before it is indexed, for any number *)
(* of workers, memories and rows.                                          *)
(*                                                                         *)
(* StoredCovered is not inductive.  A worker finishes a row by the         *)
(* queue_id it read before: that this is still a row of the memory it has  *)
(* embedded is Agree.                                                      *)
(***************************************************************************)
EXTENDS IndexQueue, FiniteSetTheorems, SequenceTheorems, TLAPS

(***************************************************************************)
(* Sequences and what is in them.                                          *)
(***************************************************************************)
LEMMA Elements ==
    ASSUME NEW S, NEW s \in Seq(S)
    PROVE  /\ ToSet(s) = {s[i] : i \in 1 .. Len(s)} /\ ToSet(s) \subseteq S
           /\ Len(s) \in Nat /\ DOMAIN s = 1 .. Len(s) /\ IsFiniteSet(ToSet(s))
<1>1. Len(s) \in Nat /\ DOMAIN s = 1 .. Len(s) /\ \A i \in 1 .. Len(s) : s[i] \in S
  BY LenProperties, ElementOfSeq
<1>2. ToSet(s) = {s[i] : i \in 1 .. Len(s)}
  BY <1>1 DEF ToSet
<1>3. ToSet(s) \subseteq S
  BY <1>1, <1>2
<1>4. IsFiniteSet(ToSet(s))
  <2> DEFINE f == [i \in 1 .. Len(s) |-> s[i]]
  <2>1. f \in Surjection(1 .. Len(s), ToSet(s))
    BY <1>2 DEF Surjection
  <2>2. IsFiniteSet(1 .. Len(s))
    BY <1>1, FS_Interval
  <2> QED BY <2>1, <2>2, FS_Surjection
<1> QED BY <1>1, <1>2, <1>3, <1>4

\* The empty sequence has no elements.
LEMMA EmptyElements == ToSet(<<>>) = {} /\ Len(<<>>) = 0
BY DEF ToSet

\* Append adds one element.
LEMMA AppendElements ==
    ASSUME NEW S, NEW s \in Seq(S), NEW e \in S
    PROVE  /\ Append(s, e) \in Seq(S) /\ Len(Append(s, e)) = Len(s) + 1
           /\ ToSet(Append(s, e)) = ToSet(s) \cup {e}
<1>1. /\ Append(s, e) \in Seq(S) /\ Len(Append(s, e)) = Len(s) + 1
      /\ \A i \in 1 .. Len(s) : Append(s, e)[i] = s[i]
      /\ Append(s, e)[Len(s) + 1] = e
  BY AppendProperties
<1>2. Len(s) \in Nat /\ ToSet(s) = {s[i] : i \in 1 .. Len(s)}
  BY Elements
<1>3. ToSet(Append(s, e)) = {Append(s, e)[i] : i \in 1 .. Len(s) + 1}
  BY <1>1, Elements
<1>4. \A x : x \in ToSet(Append(s, e)) <=> x \in ToSet(s) \cup {e}
  <2>1. 1 .. Len(s) + 1 = (1 .. Len(s)) \cup {Len(s) + 1}
    BY <1>2
  <2> QED BY <1>1, <1>2, <1>3, <2>1
<1> QED BY <1>1, <1>4

\* Appending a new element repeats none.
LEMMA AppendInjectiveSeq ==
    ASSUME NEW S, NEW s \in Seq(S), NEW e \in S, IsInjective(s), e \notin ToSet(s)
    PROVE  IsInjective(Append(s, e))
<1>1. /\ \A i \in 1 .. Len(s) : Append(s, e)[i] = s[i]
      /\ Append(s, e)[Len(s) + 1] = e
  BY AppendProperties
<1>2. /\ Len(s) \in Nat /\ DOMAIN s = 1 .. Len(s) /\ ToSet(s) = {s[i] : i \in 1 .. Len(s)}
      /\ DOMAIN Append(s, e) = 1 .. Len(s) + 1
  BY Elements, AppendElements
<1> SUFFICES ASSUME NEW i \in 1 .. Len(s) + 1, NEW j \in 1 .. Len(s) + 1,
                    Append(s, e)[i] = Append(s, e)[j]
             PROVE  i = j
  BY <1>2 DEF IsInjective
<1>3. \A k \in 1 .. Len(s) : Append(s, e)[k] # e
  BY <1>1, <1>2
<1>4. CASE i \in 1 .. Len(s) /\ j \in 1 .. Len(s)
  BY <1>1, <1>2, <1>4 DEF IsInjective
<1>5. CASE i = Len(s) + 1
  BY <1>1, <1>2, <1>3, <1>5
<1>6. CASE j = Len(s) + 1
  BY <1>1, <1>2, <1>3, <1>6
<1> QED BY <1>2, <1>4, <1>5, <1>6

\* Concatenating sequences without a common element repeats none.
LEMMA ConcatElements ==
    ASSUME NEW S, NEW s \in Seq(S), NEW t \in Seq(S), IsInjective(s), IsInjective(t),
           ToSet(t) \cap ToSet(s) = {}
    PROVE  /\ s \o t \in Seq(S) /\ ToSet(s \o t) = ToSet(s) \cup ToSet(t)
           /\ IsInjective(s \o t)
<1> DEFINE m == Len(s)
           n == Len(t)
           st == s \o t
<1>1. /\ m \in Nat /\ DOMAIN s = 1 .. m /\ ToSet(s) = {s[i] : i \in 1 .. m}
      /\ n \in Nat /\ DOMAIN t = 1 .. n /\ ToSet(t) = {t[i] : i \in 1 .. n}
  BY Elements
<1>2. /\ st \in Seq(S) /\ Len(st) = m + n
      /\ \A i \in 1 .. m + n : st[i] = IF i <= m THEN s[i] ELSE t[i - m]
  BY ConcatProperties
<1> HIDE DEF st
<1>3. DOMAIN st = 1 .. m + n /\ ToSet(st) = {st[i] : i \in 1 .. m + n}
  BY <1>2, Elements
<1> HIDE DEF m, n
<1>4. \A i \in 1 .. m : i \in 1 .. m + n /\ st[i] = s[i] /\ st[i] \in ToSet(s)
  BY <1>1, <1>2
<1>5. \A i \in 1 .. n : m + i \in 1 .. m + n /\ st[m + i] = t[i]
  <2> SUFFICES ASSUME NEW i \in 1 .. n PROVE m + i \in 1 .. m + n /\ st[m + i] = t[i]
    OBVIOUS
  <2>1. m + i \in 1 .. m + n /\ ~(m + i <= m) /\ (m + i) - m = i
    BY <1>1
  <2> QED BY <1>2, <2>1
<1>6. ASSUME NEW i \in 1 .. m + n, i \notin 1 .. m
      PROVE  i - m \in 1 .. n /\ st[i] = t[i - m] /\ st[i] \in ToSet(t)
  BY <1>1, <1>2, <1>6
<1>7. ToSet(st) = ToSet(s) \cup ToSet(t)
  <2>1. \A x \in ToSet(st) : x \in ToSet(s) \cup ToSet(t)
    BY <1>3, <1>4, <1>6
  <2>2. \A x \in ToSet(s) : x \in ToSet(st)
    BY <1>1, <1>3, <1>4
  <2>3. \A x \in ToSet(t) : x \in ToSet(st)
    BY <1>1, <1>3, <1>5
  <2> QED BY <2>1, <2>2, <2>3
<1>8. IsInjective(st)
  <2> SUFFICES ASSUME NEW i \in 1 .. m + n, NEW j \in 1 .. m + n, st[i] = st[j]
               PROVE  i = j
    BY <1>3 DEF IsInjective
  <2>1. CASE i \in 1 .. m /\ j \in 1 .. m
    BY <1>1, <1>4, <2>1 DEF IsInjective
  <2>2. CASE i \notin 1 .. m /\ j \notin 1 .. m
    <3>1. i - m = j - m
      BY <1>1, <1>6, <2>2 DEF IsInjective
    <3> QED BY <1>1, <3>1
  <2>3. CASE i \in 1 .. m /\ j \notin 1 .. m
    BY <1>4, <1>6, <2>3
  <2>4. CASE i \notin 1 .. m /\ j \in 1 .. m
    BY <1>4, <1>6, <2>4
  <2> QED BY <2>1, <2>2, <2>3, <2>4
<1> QED BY <1>2, <1>7, <1>8 DEF st

\* Taking the head off loses no other element and adds none.
LEMMA TailElements ==
    ASSUME NEW S, NEW s \in Seq(S), s # <<>>
    PROVE  /\ Head(s) \in ToSet(s) /\ Tail(s) \in Seq(S) /\ Len(Tail(s)) = Len(s) - 1
           /\ ToSet(Tail(s)) \subseteq ToSet(s)
<1>1. /\ Tail(s) \in Seq(S) /\ Len(Tail(s)) = Len(s) - 1
      /\ \A i \in 1 .. Len(Tail(s)) : Tail(s)[i] = s[i + 1]
  BY HeadTailProperties
<1>2. /\ Len(s) \in Nat \ {0} /\ ToSet(s) = {s[i] : i \in 1 .. Len(s)}
      /\ ToSet(Tail(s)) = {Tail(s)[i] : i \in 1 .. Len(Tail(s))}
  BY <1>1, Elements, EmptySeq
<1>3. Head(s) = s[1] /\ 1 \in 1 .. Len(s)
  BY <1>2
<1>4. \A i \in 1 .. Len(Tail(s)) : i + 1 \in 1 .. Len(s)
  BY <1>1, <1>2
<1> QED BY <1>1, <1>2, <1>3, <1>4

\* A page is some of the queue, no longer than the limit.
LEMMA PageElements ==
    ASSUME NEW S, NEW s \in Seq(S)
    PROVE  Page(s) \in Seq(S) /\ ToSet(Page(s)) \subseteq ToSet(s) /\ Len(Page(s)) <= QueueLimit
<1> DEFINE n == Least(Len(s), QueueLimit)
<1>1. /\ Len(s) \in Nat /\ ToSet(s) = {s[i] : i \in 1 .. Len(s)}
      /\ \A i \in 1 .. Len(s) : s[i] \in S
  BY Elements, ElementOfSeq
<1>2. n \in Nat /\ n <= Len(s) /\ n <= QueueLimit
  BY <1>1, ConstantsAssumption DEF Least
<1>3. /\ SubSeq(s, 1, n) \in Seq(S) /\ Len(SubSeq(s, 1, n)) = n
      /\ \A i \in 1 .. n : SubSeq(s, 1, n)[i] = s[i]
  <2> HIDE DEF n
  <2>1. \A i \in 1 .. n : s[i] \in S
    BY <1>1, <1>2
  <2>2. /\ SubSeq(s, 1, n) \in Seq(S)
        /\ Len(SubSeq(s, 1, n)) = IF 1 <= n THEN n - 1 + 1 ELSE 0
        /\ \A i \in 1 .. n - 1 + 1 : SubSeq(s, 1, n)[i] = s[1 + i - 1]
    BY <1>2, <2>1, SubSeqProperties
  <2> QED BY <1>2, <2>2
<1>4. ToSet(SubSeq(s, 1, n)) = {SubSeq(s, 1, n)[i] : i \in 1 .. n}
  <2> HIDE DEF n
  <2>1. ToSet(SubSeq(s, 1, n)) = {SubSeq(s, 1, n)[i] : i \in 1 .. Len(SubSeq(s, 1, n))}
    BY ONLY <1>3, Elements
  <2> QED BY ONLY <1>3, <2>1
<1>5. Page(s) = SubSeq(s, 1, n)
  BY DEF Page
<1> HIDE DEF n
<1>6. \A i \in 1 .. n : SubSeq(s, 1, n)[i] \in ToSet(s)
  BY <1>1, <1>2, <1>3
<1> QED BY <1>2, <1>3, <1>4, <1>5, <1>6

\* What is done leaves, and the rest stays in its order.
LEMMA DoneElements ==
    ASSUME NEW S, NEW s \in Seq(S), NEW places \in SUBSET (DOMAIN s),
           \A i, j \in places : i = j
    PROVE  /\ Done(s, places) \in Seq(S) /\ Len(Done(s, places)) <= Len(s)
           /\ ToSet(Done(s, places)) \subseteq ToSet(s)
           /\ \A i \in DOMAIN s \ places : s[i] \in ToSet(Done(s, places))
           /\ \E f \in [DOMAIN Done(s, places) -> DOMAIN s] :
                  /\ \A i, j \in DOMAIN Done(s, places) : f[i] = f[j] => i = j
                  /\ \A i \in DOMAIN Done(s, places) : Done(s, places)[i] = s[f[i]]
<1>1. /\ Len(s) \in Nat /\ DOMAIN s = 1 .. Len(s) /\ ToSet(s) = {s[i] : i \in 1 .. Len(s)}
      /\ \A i \in 1 .. Len(s) : s[i] \in S
  BY Elements, ElementOfSeq
<1>2. CASE places = {}
  <2>1. Done(s, places) = s
    BY <1>2 DEF Done
  <2>2. [i \in DOMAIN s |-> i] \in [DOMAIN s -> DOMAIN s]
    OBVIOUS
  <2>3. \A i \in DOMAIN s : [k \in DOMAIN s |-> k][i] = i
    OBVIOUS
  <2>4. \E f \in [DOMAIN s -> DOMAIN s] :
            /\ \A i, j \in DOMAIN s : f[i] = f[j] => i = j
            /\ \A i \in DOMAIN s : s[i] = s[f[i]]
    BY <2>2, <2>3
  <2> QED BY <1>1, <2>1, <2>4
<1>3. CASE places # {}
  <2> DEFINE c == CHOOSE i \in places : TRUE
             n == Len(s)
             a == SubSeq(s, 1, c - 1)
             b == SubSeq(s, c + 1, n)
             g == [k \in 1 .. n - 1 |-> IF k < c THEN k ELSE k + 1]
  <2>1. c \in 1 .. n /\ places = {c} /\ n \in Nat
    BY <1>1, <1>3
  <2>2. Done(s, places) = a \o b
    BY <1>3 DEF Done, RemoveAt
  <2> HIDE DEF c, n
  <2>3. /\ a \in Seq(S) /\ Len(a) = c - 1 /\ \A i \in 1 .. c - 1 : a[i] = s[i]
    <3>1. \A i \in 1 .. c - 1 : s[i] \in S
      BY <1>1, <2>1 DEF n
    <3>2. /\ a \in Seq(S) /\ Len(a) = IF 1 <= c - 1 THEN c - 1 - 1 + 1 ELSE 0
          /\ \A i \in 1 .. c - 1 - 1 + 1 : a[i] = s[1 + i - 1]
      BY <2>1, <3>1, SubSeqProperties
    <3> QED BY <2>1, <3>2
  <2>4. /\ b \in Seq(S) /\ Len(b) = n - c /\ \A i \in 1 .. n - c : b[i] = s[c + i]
    <3>1. \A i \in c + 1 .. n : s[i] \in S
      BY <1>1, <2>1 DEF n
    <3>2. /\ b \in Seq(S) /\ Len(b) = IF c + 1 <= n THEN n - (c + 1) + 1 ELSE 0
          /\ \A i \in 1 .. n - (c + 1) + 1 : b[i] = s[c + 1 + i - 1]
      BY <2>1, <3>1, SubSeqProperties
    <3> QED BY <2>1, <3>2
  <2> HIDE DEF a, b
  <2>5. /\ a \o b \in Seq(S) /\ Len(a \o b) = n - 1
        /\ \A k \in 1 .. n - 1 : (a \o b)[k] = IF k < c THEN s[k] ELSE s[k + 1]
    <3>1. /\ a \o b \in Seq(S) /\ Len(a \o b) = Len(a) + Len(b)
          /\ \A k \in 1 .. Len(a) + Len(b) : (a \o b)[k] =
                 IF k <= Len(a) THEN a[k] ELSE b[k - Len(a)]
      BY <2>3, <2>4, ConcatProperties, ZenonT(60)
    <3>2. ASSUME NEW k \in 1 .. n - 1
          PROVE  (a \o b)[k] = IF k < c THEN s[k] ELSE s[k + 1]
      <4>1. CASE k < c
        BY <2>1, <2>3, <2>4, <3>1, <4>1, SMTT(30)
      <4>2. CASE ~(k < c)
        <5>1. k - (c - 1) \in 1 .. n - c /\ c + (k - (c - 1)) = k + 1
          BY <2>1, <4>2
        <5>2. b[k - (c - 1)] = s[k + 1]
          BY <2>4, <5>1
        <5> QED BY <2>1, <2>3, <2>4, <3>1, <4>2, <5>2
      <4> QED BY <4>1, <4>2
    <3> QED BY <2>1, <2>3, <2>4, <3>1, <3>2
  <2>6. /\ DOMAIN (a \o b) = 1 .. n - 1
        /\ ToSet(a \o b) = {(a \o b)[k] : k \in 1 .. n - 1}
    BY <2>5, Elements
  <2>7. /\ g \in [1 .. n - 1 -> 1 .. n]
        /\ \A i, j \in 1 .. n - 1 : g[i] = g[j] => i = j
        /\ \A i \in 1 .. n - 1 : (a \o b)[i] = s[g[i]]
    <3>1. \A k \in 1 .. n - 1 : g[k] = IF k < c THEN k ELSE k + 1
      OBVIOUS
    <3>2. g \in [1 .. n - 1 -> 1 .. n]
      BY <2>1
    <3>3. \A i, j \in 1 .. n - 1 : g[i] = g[j] => i = j
      BY <2>1, <3>1
    <3> HIDE DEF g
    <3> QED BY <2>5, <3>1, <3>2, <3>3
  <2>8. ASSUME NEW i \in (1 .. n) \ {c} PROVE s[i] \in ToSet(a \o b)
    <3>1. CASE i < c
      <4>1. i \in 1 .. n - 1 /\ (a \o b)[i] = s[i]
        BY <2>1, <2>5, <3>1
      <4> QED BY <2>6, <4>1
    <3>2. CASE i > c
      <4>1. i - 1 \in 1 .. n - 1 /\ ~(i - 1 < c) /\ (i - 1) + 1 = i
        BY <2>1, <3>2
      <4>2. (a \o b)[i - 1] = s[i]
        BY <2>5, <4>1
      <4> QED BY <2>6, <4>1, <4>2
    <3> QED BY <2>1, <3>1, <3>2
  <2> HIDE DEF g
  <2>9. ToSet(a \o b) \subseteq ToSet(s)
    <3>1. \A i \in 1 .. n - 1 : g[i] \in 1 .. n /\ (a \o b)[i] = s[g[i]]
      BY <2>7
    <3>2. ToSet(s) = {s[i] : i \in 1 .. n}
      BY <1>1 DEF n
    <3> QED BY <2>6, <3>1, <3>2
  <2>10. DOMAIN s = 1 .. n /\ Len(s) = n
    BY <1>1 DEF n
  <2>11. \E f \in [DOMAIN (a \o b) -> DOMAIN s] :
            /\ \A i, j \in DOMAIN (a \o b) : f[i] = f[j] => i = j
            /\ \A i \in DOMAIN (a \o b) : (a \o b)[i] = s[f[i]]
    <3>1. g \in [DOMAIN (a \o b) -> DOMAIN s]
      BY <2>6, <2>7, <2>10
    <3>2. /\ \A i, j \in DOMAIN (a \o b) : g[i] = g[j] => i = j
          /\ \A i \in DOMAIN (a \o b) : (a \o b)[i] = s[g[i]]
      BY <2>6, <2>7
    <3> WITNESS g \in [DOMAIN (a \o b) -> DOMAIN s]
    <3> QED BY <3>2
  <2>12. /\ a \o b \in Seq(S) /\ Len(a \o b) <= Len(s)
         /\ \A i \in DOMAIN s \ places : s[i] \in ToSet(a \o b)
    <3>1. a \o b \in Seq(S) /\ Len(a \o b) <= Len(s)
      BY <2>1, <2>5, <2>10
    <3>2. ASSUME NEW i \in DOMAIN s \ places PROVE s[i] \in ToSet(a \o b)
      <4>1. i \in (1 .. n) \ {c}
        BY <2>1, <2>10
      <4> QED BY <2>8, <4>1
    <3> QED BY <3>1, <3>2
  <2>13. /\ Done(s, places) \in Seq(S) /\ Len(Done(s, places)) <= Len(s)
         /\ ToSet(Done(s, places)) \subseteq ToSet(s)
         /\ \A i \in DOMAIN s \ places : s[i] \in ToSet(Done(s, places))
    BY <2>2, <2>9, <2>12
  <2>14. \E f \in [DOMAIN Done(s, places) -> DOMAIN s] :
            /\ \A i, j \in DOMAIN Done(s, places) : f[i] = f[j] => i = j
            /\ \A i \in DOMAIN Done(s, places) : Done(s, places)[i] = s[f[i]]
    BY <2>2, <2>11
  <2> QED BY <2>13, <2>14
<1> QED BY <1>2, <1>3

(***************************************************************************)
(* The invariant.                                                          *)
(***************************************************************************)

\* Queues and workers only hold what was logged and, of units, what is there.
Known ==
    /\ \A r \in Held : r.mem \in Present
    /\ ToSet(syncd.rest) \subseteq Present
    /\ ToSet(rqueue) \subseteq units /\ units \subseteq Present
    /\ \A w \in Workers : worker[w].pc = "units" => ToSet(worker[w].todo) \subseteq units

\* The sync daemon finds room for the rows it is about to add.
Room ==
    /\ Len(syncd.rest) <= EnqueueLimit
    /\ syncd.pc = "committed" => Len(queue) <= MaxPending
    /\ syncd.pc = "enqueue" => Len(queue) + Len(syncd.rest) <= MaxPending + EnqueueLimit

\* A queue_id that a worker holds is of the same row in the queue, if it is
\* there at all.
Agree == \A r \in Held, s \in ToSet(queue) : r.id = s.id => r = s

QueueInv == TypeOK /\ Known /\ Room /\ Agree /\ StoredCovered

\* The states of a worker, by the place it is at.
LEMMA StateShapes ==
    ASSUME NEW st \in WorkerStates
    PROVE  /\ st.pc \in {"asleep", "units", "items"}
           /\ st.pc = "asleep" => st = Asleep
           /\ st.pc = "units" => st \in [pc : {"units"}, todo : Seq(Stored), failed : BOOLEAN]
           /\ st.pc = "items" => st \in [pc : {"items"}, todo : Seq(Rows), failed : {FALSE}]
<1>1. CASE st = Asleep
  BY <1>1 DEF Asleep
<1>2. CASE st \in [pc : {"units"}, todo : Seq(Stored), failed : BOOLEAN]
  BY <1>2
<1>3. CASE st \in [pc : {"items"}, todo : Seq(Rows), failed : {FALSE}]
  BY <1>3
<1> QED BY <1>1, <1>2, <1>3 DEF WorkerStates

\* The states of the enqueuing daemon, by the place it is at.
LEMMA SyncdShapes ==
    ASSUME NEW st \in SyncdStates
    PROVE  /\ st.pc \in {"idle", "committed", "enqueue"} /\ st.rest \in Seq(Memories)
           /\ st.pc = "idle" => st = Quiet
           /\ st.pc = "enqueue" => st \in [pc : {"enqueue"}, rest : Seq(Memories) \ {<<>>}]
<1>1. CASE st \in [pc : {"idle", "committed"}, rest : {<<>>}]
  <2>1. <<>> \in Seq(Memories)
    BY EmptySeq
  <2> QED BY <1>1, <2>1 DEF Quiet
<1>2. CASE st \in [pc : {"enqueue"}, rest : Seq(Memories) \ {<<>>}]
  BY <1>2
<1> QED BY <1>1, <1>2 DEF SyncdStates

\* A step of worker w that brings nothing into the queue.
LEMMA HeldShrinks ==
    ASSUME worker \in [Workers -> WorkerStates], NEW w \in Workers, NEW st, Become(w, st),
           ToSet(queue') \subseteq ToSet(queue),
           st.pc = "items" => ToSet(st.todo) \subseteq Held
    PROVE  Held' \subseteq Held
<1> SUFFICES ASSUME NEW r \in Held' PROVE r \in Held
  OBVIOUS
<1>1. CASE r \in ToSet(queue')
  BY <1>1 DEF Held
<1>2. CASE \E v \in Workers : worker'[v].pc = "items" /\ r \in ToSet(worker'[v].todo)
  <2>1. PICK v \in Workers : worker'[v].pc = "items" /\ r \in ToSet(worker'[v].todo)
    BY <1>2
  <2>2. worker'[v] = IF v = w THEN st ELSE worker[v]
    BY DEF Become
  <2> QED BY <2>1, <2>2 DEF Held
<1> QED BY <1>1, <1>2 DEF Held

\* There is always a queue_id that nobody holds.
LEMMA FreshRow ==
    ASSUME QueueInv, NEW m \in Memories
    PROVE  Row(m) \in Rows /\ Row(m).mem = m /\ \A r \in Held : r.id # Row(m).id
<1> DEFINE lists == {ToSet(worker[w].todo) : w \in {v \in Workers : worker[v].pc = "items"}}
           held == {r.id : r \in Held}
           N == 1 .. Cardinality(Held) + 1
<1>1. IsFiniteSet(Held)
  <2>1. IsFiniteSet(ToSet(queue))
    BY Elements DEF QueueInv, TypeOK
  <2>2. IsFiniteSet({v \in Workers : worker[v].pc = "items"})
    BY ConstantsAssumption, FS_Subset
  <2>3. IsFiniteSet(lists)
    <3> DEFINE W == {v \in Workers : worker[v].pc = "items"}
               f == [w \in W |-> ToSet(worker[w].todo)]
    <3>1. f \in Surjection(W, lists)
      BY DEF Surjection
    <3> QED BY <2>2, <3>1, FS_Surjection
  <2>4. \A T \in lists : IsFiniteSet(T)
    <3> SUFFICES ASSUME NEW w \in Workers, worker[w].pc = "items"
                 PROVE  IsFiniteSet(ToSet(worker[w].todo))
      OBVIOUS
    <3>1. worker[w] \in WorkerStates
      BY DEF QueueInv, TypeOK
    <3>2. worker[w].todo \in Seq(Rows)
      BY <3>1, StateShapes
    <3> QED BY <3>2, Elements
  <2>5. IsFiniteSet(UNION lists)
    BY <2>3, <2>4, FS_UNION
  <2> QED BY <2>1, <2>5, FS_Union DEF Held
<1>2. IsFiniteSet(held) /\ Cardinality(held) <= Cardinality(Held)
  <2> DEFINE f == [r \in Held |-> r.id]
  <2>1. f \in Surjection(Held, held)
    BY DEF Surjection
  <2> QED BY <1>1, <2>1, FS_Surjection
<1>3. Cardinality(Held) \in Nat /\ Cardinality(held) \in Nat
  BY <1>1, <1>2, FS_CardinalityType
<1>4. Cardinality(N) = Cardinality(Held) + 1
  BY <1>3, FS_Interval
<1>5. \E i \in N : i \notin held
  <2> SUFFICES ASSUME N \subseteq held PROVE FALSE
    OBVIOUS
  <2>1. Cardinality(N) <= Cardinality(held)
    BY <1>2, FS_Subset
  <2> QED BY <1>2, <1>3, <1>4, <2>1
<1>6. \E i \in N : \A r \in Held : r.id # i
  BY <1>5
<1>7. Row(m).id \in N /\ \A r \in Held : r.id # Row(m).id
  BY <1>6 DEF Row
<1>8. N \subseteq Nat
  BY <1>3
<1>9. Row(m) = [id |-> Row(m).id, mem |-> m]
  BY DEF Row
<1> QED BY <1>7, <1>8, <1>9 DEF Rows

(***************************************************************************)
(* The writers.                                                            *)
(***************************************************************************)

\* A row is added to index_queue.
LEMMA AddRow ==
    ASSUME QueueInv, NEW m \in Memories, m \in Present',
           queue' = Append(queue, Row(m)), worker' = worker, Present \subseteq Present'
    PROVE  /\ queue' \in Seq(Rows) /\ Len(queue') = Len(queue) + 1
           /\ IsInjective([i \in DOMAIN queue' |-> queue'[i].id])
           /\ ToSet(queue') = ToSet(queue) \cup {Row(m)} /\ Row(m).mem = m
           /\ Agree' /\ \A r \in Held' : r.mem \in Present'
<1> DEFINE row == Row(m)
<1>1. row \in Rows /\ row.mem = m /\ \A r \in Held : r.id # row.id
  BY FreshRow
<1> HIDE DEF row
<1>2. queue \in Seq(Rows) /\ IsInjective([i \in DOMAIN queue |-> queue[i].id])
  BY DEF QueueInv, TypeOK
<1>3. /\ queue' \in Seq(Rows) /\ Len(queue') = Len(queue) + 1
      /\ ToSet(queue') = ToSet(queue) \cup {row}
  BY <1>1, <1>2, AppendElements DEF row
<1>4. /\ \A i \in 1 .. Len(queue) : queue'[i] = queue[i]
      /\ queue'[Len(queue) + 1] = row
  BY <1>1, <1>2, AppendProperties DEF row
<1>5. /\ Len(queue) \in Nat /\ DOMAIN queue = 1 .. Len(queue)
      /\ DOMAIN queue' = 1 .. Len(queue) + 1
      /\ ToSet(queue) = {queue[i] : i \in 1 .. Len(queue)}
  BY <1>2, <1>3, Elements
<1>6. ToSet(queue) \subseteq Held
  BY DEF Held
<1>7. IsInjective([i \in DOMAIN queue' |-> queue'[i].id])
  <2> SUFFICES ASSUME NEW i \in DOMAIN queue', NEW j \in DOMAIN queue',
                      queue'[i].id = queue'[j].id
               PROVE  i = j
    BY DEF IsInjective
  <2>1. \A k \in 1 .. Len(queue) : queue'[k].id # row.id
    BY <1>1, <1>4, <1>5, <1>6
  <2>2. CASE i \in 1 .. Len(queue) /\ j \in 1 .. Len(queue)
    BY <1>2, <1>4, <1>5, <2>2 DEF IsInjective
  <2>3. CASE i = Len(queue) + 1
    BY <1>4, <1>5, <2>1, <2>3
  <2>4. CASE j = Len(queue) + 1
    BY <1>4, <1>5, <2>1, <2>4
  <2> QED BY <1>5, <2>2, <2>3, <2>4
<1>8. Held' = Held \cup {row}
  BY <1>3 DEF Held
<1>9. Agree'
  <2> SUFFICES ASSUME NEW r \in Held \cup {row}, NEW s \in ToSet(queue) \cup {row}, r.id = s.id
               PROVE  r = s
    BY <1>3, <1>8 DEF Agree
  <2> QED BY <1>1, <1>6 DEF QueueInv, Agree
<1>10. \A r \in Held' : r.mem \in Present'
  BY <1>1, <1>8 DEF QueueInv, Known
<1> QED BY <1>1, <1>3, <1>7, <1>9, <1>10 DEF row

\* The operations of memoryd and syncd keep the invariant: Store queues what it
\* stores in its own transaction,
LEMMA StoreInv == ASSUME QueueInv, NEW m, Store(m) PROVE QueueInv'
<1> USE DEF Store
<1>1. m \in Memories /\ m \in Stored /\ m \notin Present /\ Len(queue) < MaxPending
  BY ConstantsAssumption
<1>2. /\ logged \in Seq(Memories) /\ queue \in Seq(Rows) /\ rqueue \in Seq(Stored)
      /\ IsInjective(logged) /\ IsInjective(rqueue) /\ units \subseteq Stored
      /\ Len(queue) \in Nat
  BY Elements DEF QueueInv, TypeOK
<1>3. logged' \in Seq(Memories) /\ Present' = Present \cup {m}
  BY <1>1, <1>2, AppendElements DEF Present
<1>4. rqueue' \in Seq(Stored) /\ ToSet(rqueue') = ToSet(rqueue) \cup {m}
  BY <1>1, <1>2, AppendElements
<1>5. m \notin ToSet(rqueue)
  <2>1. units \subseteq Present
    BY DEF QueueInv, Known
  <2> QED BY <1>1, <2>1 DEF QueueInv, Known
<1>6. IsInjective(logged')
  BY <1>1, <1>2, AppendInjectiveSeq DEF Present
<1>7. IsInjective(rqueue')
  BY <1>1, <1>2, <1>5, AppendInjectiveSeq
<1>8. /\ queue' \in Seq(Rows) /\ Len(queue') = Len(queue) + 1
      /\ IsInjective([i \in DOMAIN queue' |-> queue'[i].id])
      /\ ToSet(queue') = ToSet(queue) \cup {Row(m)} /\ Row(m).mem = m
      /\ Agree' /\ \A r \in Held' : r.mem \in Present'
  BY <1>1, <1>3, AddRow
<1>9. TypeOK'
  <2>1. Len(queue') <= MaxPending + EnqueueLimit
    BY <1>1, <1>2, <1>8, ConstantsAssumption
  <2> QED BY <1>1, <1>3, <1>4, <1>6, <1>7, <1>8, <2>1 DEF QueueInv, TypeOK
<1>10. Known'
  BY <1>1, <1>3, <1>4, <1>8 DEF QueueInv, Known
<1>11. Room'
  <2>1. syncd \in SyncdStates
    BY DEF QueueInv, TypeOK
  <2>2. Len(syncd.rest) \in Nat
    BY <2>1, SyncdShapes, Elements
  <2>3. Room /\ syncd' = syncd
    BY DEF QueueInv
  <2> HIDE DEF Store
  <2>4. Len(queue') <= MaxPending
    BY <1>1, <1>2, <1>8, ConstantsAssumption
  <2>5. Len(syncd.rest) <= EnqueueLimit
    BY <2>3 DEF Room
  <2>6. Len(queue') \in Nat
    BY <1>2, <1>8
  <2>7. Len(queue') + Len(syncd.rest) <= MaxPending + EnqueueLimit
    BY <2>2, <2>4, <2>5, <2>6, ConstantsAssumption
  <2> QED BY <2>3, <2>4, <2>5, <2>7 DEF Room
<1>12. StoredCovered'
  BY <1>1, <1>3, <1>4, <1>8 DEF QueueInv, StoredCovered, Present
<1> QED BY <1>8, <1>9, <1>10, <1>11, <1>12 DEF QueueInv

\* ApplyBatch commits without queueing,
LEMMA ApplyBatchInv == ASSUME QueueInv, NEW ms \in Batches, ApplyBatch(ms) PROVE QueueInv'
<1> USE DEF ApplyBatch
<1>1. PICK S \in SUBSET (Memories \ (Stored \cup Present)) : ms \in SetToSeqs(S)
  BY DEF Batches
<1> DEFINE n == Cardinality(S)
<1>2. /\ ms \in [1 .. n -> S] /\ \A i, j \in 1 .. n : i # j => ms[i] # ms[j]
  BY <1>1 DEF SetToSeqs
<1>3. n \in Nat
  BY <1>1, ConstantsAssumption, FS_Subset, FS_CardinalityType
<1> HIDE DEF n
<1>4. ms \in Seq(S) /\ Len(ms) = n /\ ms \in Seq(Memories)
  BY <1>1, <1>2, <1>3, SeqDef
<1>5. logged \in Seq(Memories) /\ IsInjective(logged)
  BY DEF QueueInv, TypeOK
<1>6. IsInjective(ms) /\ ToSet(ms) \subseteq S
  BY <1>2, <1>4, Elements DEF IsInjective
<1>7. Present = ToSet(logged) /\ ToSet(ms) \cap ToSet(logged) = {}
  BY <1>1, <1>6 DEF Present
<1>8. logged' = logged \o ms /\ Present' = ToSet(logged')
  BY DEF Present
<1>9. /\ logged' \in Seq(Memories) /\ IsInjective(logged')
      /\ Present \subseteq Present' /\ Present' \subseteq Present \cup S
  BY <1>4, <1>5, <1>6, <1>7, <1>8, ConcatElements
<1>11. syncd' \in SyncdStates /\ syncd'.rest = <<>> /\ syncd'.pc = "committed"
  BY DEF SyncdStates
<1>12. TypeOK'
  BY <1>9, <1>11, EmptyElements, ConstantsAssumption DEF QueueInv, TypeOK
<1>13. Known' /\ Agree'
  <2>1. Held' = Held
    BY DEF Held
  <2>2. Known'
    BY <1>9, <1>11, <2>1, EmptyElements DEF QueueInv, Known
  <2>3. Agree'
    BY <2>1 DEF QueueInv, Agree
  <2> QED BY <2>2, <2>3
<1>14. Room'
  <2>1. Len(queue) \in Nat /\ Len(queue) + EnqueueLimit <= MaxPending
    BY Elements DEF QueueInv, TypeOK
  <2>2. queue' = queue
    OBVIOUS
  <2> HIDE DEF ApplyBatch
  <2> QED BY <1>11, <2>1, <2>2, EmptyElements, ConstantsAssumption DEF Room
<1>15. StoredCovered'
  BY <1>1, <1>9 DEF QueueInv, StoredCovered
<1> QED BY <1>12, <1>13, <1>14, <1>15 DEF QueueInv

\* A step of the sync daemon that changes nothing but where it is.
LEMMA SyncdStep ==
    ASSUME QueueInv, NEW st \in SyncdStates, syncd' = st, UNCHANGED <<tables, worker>>,
           ToSet(st.rest) \subseteq Present, Len(st.rest) <= EnqueueLimit,
           st.pc = "committed" => Len(queue) <= MaxPending,
           st.pc = "enqueue" => Len(queue) + Len(st.rest) <= MaxPending + EnqueueLimit
    PROVE  QueueInv'
<1> USE DEF tables
<1>1. TypeOK'
  BY DEF QueueInv, TypeOK, Present
<1>2. Known'
  BY DEF QueueInv, Known, Held, Present
<1>3. Room' /\ Agree' /\ StoredCovered'
  BY DEF QueueInv, Room, Agree, Held, StoredCovered, Present
<1> QED BY <1>1, <1>2, <1>3 DEF QueueInv

\* syncd reads what it has to queue,
LEMMA ReadRecentInv == ASSUME QueueInv, ReadRecent PROVE QueueInv'
<1> DEFINE n == Least(Len(logged), EnqueueLimit)
<1>1. logged \in Seq(Memories) /\ Len(logged) \in Nat /\ DOMAIN logged = 1 .. Len(logged)
      /\ Present = {logged[i] : i \in 1 .. Len(logged)}
  BY Elements DEF QueueInv, TypeOK, Present
<1>2. n \in Nat /\ n <= Len(logged) /\ n <= EnqueueLimit
  BY <1>1, ConstantsAssumption DEF Least
<1>3. /\ \A i \in 1 .. n : Reverse(logged)[i] = logged[Len(logged) - i + 1]
      /\ Recent = SubSeq(Reverse(logged), 1, n)
  <2>1. \A i \in 1 .. Len(logged) : Reverse(logged)[i] = logged[Len(logged) - i + 1]
    BY DEF Reverse
  <2> QED BY <1>1, <1>2, <2>1 DEF Recent
<1> HIDE DEF n
<1>4. \A i \in 1 .. n : Len(logged) - i + 1 \in 1 .. Len(logged)
  BY <1>1, <1>2
<1>5. \A i \in 1 .. n : Reverse(logged)[i] \in Present
  BY <1>1, <1>3, <1>4
<1>6. Recent \in Seq(Present) /\ Len(Recent) <= EnqueueLimit /\ Len(Recent) \in Nat
  <2>1. /\ SubSeq(Reverse(logged), 1, n) \in Seq(Present)
        /\ Len(SubSeq(Reverse(logged), 1, n)) = IF 1 <= n THEN n - 1 + 1 ELSE 0
    BY <1>2, <1>5, SubSeqProperties
  <2> QED BY <1>2, <1>3, <2>1
<1>7. ToSet(Recent) \subseteq Present
  BY <1>6, Elements
<1>8. Recent \in Seq(Memories)
  <2>1. Present \subseteq Memories
    BY <1>1, Elements DEF Present
  <2> QED BY <1>6, <2>1, SeqMonotonic
<1>9. Len(queue) \in Nat /\ Len(queue) <= MaxPending
  BY Elements DEF QueueInv, TypeOK, Room, ReadRecent
<1>10. CASE Recent = <<>>
  <2>1. Quiet \in SyncdStates /\ Quiet.rest = <<>> /\ Quiet.pc = "idle"
    BY DEF Quiet, SyncdStates
  <2>2. syncd' = Quiet /\ UNCHANGED <<tables, worker>>
    BY <1>10 DEF ReadRecent
  <2> HIDE DEF Quiet
  <2> QED BY <2>1, <2>2, EmptyElements, SyncdStep, ConstantsAssumption
<1>11. CASE Recent # <<>>
  <2> DEFINE st == [pc |-> "enqueue", rest |-> Recent]
  <2>1. st \in SyncdStates /\ st.rest = Recent /\ st.pc = "enqueue"
    BY <1>8, <1>11 DEF SyncdStates
  <2>2. syncd' = st /\ UNCHANGED <<tables, worker>>
    BY <1>11 DEF ReadRecent
  <2>3. Len(queue) + Len(Recent) <= MaxPending + EnqueueLimit
    BY <1>6, <1>9, ConstantsAssumption
  <2> HIDE DEF st
  <2> QED BY <1>6, <1>7, <2>1, <2>2, <2>3, SyncdStep
<1> QED BY <1>10, <1>11

\* may stop in between,
LEMMA CrashSyncdInv == ASSUME QueueInv, CrashSyncd PROVE QueueInv'
<1>1. Quiet \in SyncdStates /\ Quiet.rest = <<>> /\ Quiet.pc = "idle"
  BY DEF Quiet, SyncdStates
<1>2. syncd' = Quiet /\ UNCHANGED <<tables, worker>>
  BY DEF CrashSyncd
<1> HIDE DEF Quiet
<1> QED BY <1>1, <1>2, EmptyElements, SyncdStep, ConstantsAssumption

\* and queues one memory after another.
LEMMA EnqueueNextInv == ASSUME QueueInv, EnqueueNext PROVE QueueInv'
<1> DEFINE rest == syncd.rest
           m == Head(rest)
<1>1. /\ syncd \in [pc : {"enqueue"}, rest : Seq(Memories) \ {<<>>}]
      /\ rest \in Seq(Memories) /\ rest # <<>>
  BY SyncdShapes DEF QueueInv, TypeOK, EnqueueNext
<1>2. /\ m \in ToSet(rest) /\ Tail(rest) \in Seq(Memories) /\ Len(Tail(rest)) = Len(rest) - 1
      /\ ToSet(Tail(rest)) \subseteq ToSet(rest) /\ ToSet(rest) \subseteq Memories
      /\ Len(rest) \in Nat
  BY <1>1, TailElements, Elements
<1>3. /\ queue' = Append(queue, Row(m)) /\ worker' = worker
      /\ syncd' = IF Len(rest) = 1 THEN Quiet ELSE [syncd EXCEPT !.rest = Tail(@)]
      /\ UNCHANGED <<logged, rqueue, units, indexed, runits>>
  BY DEF EnqueueNext
<1>4. m \in Present /\ Len(queue) + Len(rest) <= MaxPending + EnqueueLimit
      /\ Len(rest) <= EnqueueLimit /\ Len(queue) \in Nat
  BY <1>2, Elements DEF QueueInv, TypeOK, Known, Room, EnqueueNext
<1> HIDE DEF m
<1>5. Present' = Present
  BY <1>3 DEF Present
<1>6. /\ queue' \in Seq(Rows) /\ Len(queue') = Len(queue) + 1
      /\ IsInjective([i \in DOMAIN queue' |-> queue'[i].id])
      /\ ToSet(queue') = ToSet(queue) \cup {Row(m)} /\ Row(m).mem = m
      /\ Agree' /\ \A r \in Held' : r.mem \in Present'
  BY <1>2, <1>3, <1>4, <1>5, AddRow
<1>7. /\ syncd' \in SyncdStates /\ ToSet(syncd'.rest) \subseteq ToSet(rest)
      /\ syncd'.pc # "committed" /\ Len(syncd'.rest) <= EnqueueLimit
      /\ syncd'.pc = "enqueue" => Len(syncd'.rest) = Len(rest) - 1
  <2>1. CASE Len(rest) = 1
    <3>1. syncd' = Quiet
      BY <1>3, <2>1
    <3> QED BY <3>1, EmptyElements, ConstantsAssumption DEF Quiet, SyncdStates
  <2>2. CASE Len(rest) # 1
    <3>1. syncd' = [syncd EXCEPT !.rest = Tail(rest)]
      BY <1>3, <2>2
    <3>2. Tail(rest) # <<>>
      <4>1. Len(rest) # 0 /\ Len(rest) # 1
        BY <1>1, <2>2, EmptySeq
      <4> HIDE DEF rest
      <4>2. Len(Tail(rest)) # 0
        BY <1>2, <4>1
      <4> QED BY <4>2, EmptyElements
    <3>3. syncd' \in [pc : {"enqueue"}, rest : Seq(Memories) \ {<<>>}] /\ syncd'.rest = Tail(rest)
      BY <1>1, <1>2, <3>1, <3>2
    <3>4. Len(Tail(rest)) <= EnqueueLimit
      BY <1>2, <1>4, ConstantsAssumption
    <3> QED BY <1>2, <3>3, <3>4 DEF SyncdStates
  <2> QED BY <2>1, <2>2
<1>8. TypeOK'
  <2>1. Len(queue') <= MaxPending + EnqueueLimit
    <3>1. Len(rest) >= 1
      BY <1>1, <1>2, EmptySeq
    <3> QED BY <1>2, <1>4, <1>6, <3>1, ConstantsAssumption
  <2> QED BY <1>3, <1>5, <1>6, <1>7, <2>1 DEF QueueInv, TypeOK
<1>9. Known'
  BY <1>3, <1>5, <1>6, <1>7 DEF QueueInv, Known
<1>10. Room'
  <2>1. syncd'.pc = "enqueue" => Len(queue') + Len(syncd'.rest) = Len(queue) + Len(rest)
    <3> HIDE DEF rest
    <3>1. Len(queue') = Len(queue) + 1 /\ Len(queue) \in Nat /\ Len(rest) \in Nat
      BY <1>2, <1>4, <1>6
    <3>2. \A a, b \in Nat : (a + 1) + (b - 1) = a + b
      OBVIOUS
    <3>3. syncd'.pc = "enqueue" => Len(syncd'.rest) = Len(rest) - 1
      BY <1>7
    <3> QED BY ONLY <3>1, <3>2, <3>3
  <2> HIDE DEF rest
  <2> QED BY <1>4, <1>7, <2>1 DEF Room
<1>11. StoredCovered'
  BY <1>3, <1>5, <1>6 DEF QueueInv, StoredCovered
<1> QED BY <1>6, <1>8, <1>9, <1>10, <1>11 DEF QueueInv

(***************************************************************************)
(* The workers.                                                            *)
(***************************************************************************)

\* What becomes of the queue of items when the item r is done.
LEMMA DoneItemElements ==
    ASSUME QueueInv, NEW r
    PROVE  /\ DoneItem(r) \in Seq(Rows) /\ Len(DoneItem(r)) <= Len(queue)
           /\ Len(DoneItem(r)) \in Nat /\ ToSet(DoneItem(r)) \subseteq ToSet(queue)
           /\ \A s \in ToSet(queue) : s.id # r.id => s \in ToSet(DoneItem(r))
           /\ IsInjective([i \in DOMAIN DoneItem(r) |-> DoneItem(r)[i].id])
<1> DEFINE places == {i \in DOMAIN queue : queue[i].id = r.id}
           d == Done(queue, places)
<1>1. queue \in Seq(Rows) /\ \A i, j \in DOMAIN queue : queue[i].id = queue[j].id => i = j
  BY DEF QueueInv, TypeOK, IsInjective
<1>2. DoneItem(r) = d
  BY DEF DoneItem
<1>3. places \in SUBSET (DOMAIN queue) /\ \A i, j \in places : i = j
  BY <1>1
<1>4. \A i \in DOMAIN queue : queue[i].id # r.id => i \in DOMAIN queue \ places
  OBVIOUS
<1> HIDE DEF places
<1>5. /\ d \in Seq(Rows) /\ Len(d) <= Len(queue) /\ ToSet(d) \subseteq ToSet(queue)
      /\ \A i \in DOMAIN queue \ places : queue[i] \in ToSet(d)
      /\ \E f \in [DOMAIN d -> DOMAIN queue] :
             /\ \A i, j \in DOMAIN d : f[i] = f[j] => i = j
             /\ \A i \in DOMAIN d : d[i] = queue[f[i]]
  BY <1>1, <1>3, DoneElements, ZenonT(60)
<1> HIDE DEF d
<1>6. IsInjective([i \in DOMAIN d |-> d[i].id])
  <2>1. PICK f \in [DOMAIN d -> DOMAIN queue] :
             /\ \A i, j \in DOMAIN d : f[i] = f[j] => i = j
             /\ \A i \in DOMAIN d : d[i] = queue[f[i]]
    BY <1>5
  <2> SUFFICES ASSUME NEW i \in DOMAIN d, NEW j \in DOMAIN d, d[i].id = d[j].id
               PROVE  i = j
    BY DEF IsInjective
  <2>2. f[i] \in DOMAIN queue /\ f[j] \in DOMAIN queue /\ queue[f[i]].id = queue[f[j]].id
    BY <2>1
  <2> QED BY <1>1, <2>1, <2>2
<1>7. \A s \in ToSet(queue) : s.id # r.id => s \in ToSet(d)
  <2>1. ToSet(queue) = {queue[i] : i \in DOMAIN queue}
    BY DEF ToSet
  <2> QED BY <1>4, <1>5, <2>1
<1>8. Len(d) \in Nat
  BY <1>5, Elements
<1> QED BY <1>2, <1>5, <1>6, <1>7, <1>8

\* Finishing a unit takes no other one off the queue.
LEMMA DoneUnitElements ==
    ASSUME QueueInv, NEW u
    PROVE  /\ DoneUnit(u) \in Seq(Stored) /\ ToSet(DoneUnit(u)) \subseteq ToSet(rqueue)
           /\ \A v \in ToSet(rqueue) : v # u => v \in ToSet(DoneUnit(u))
           /\ IsInjective(DoneUnit(u))
<1> DEFINE places == {i \in DOMAIN rqueue : rqueue[i] = u}
           d == Done(rqueue, places)
<1>1. rqueue \in Seq(Stored) /\ \A i, j \in DOMAIN rqueue : rqueue[i] = rqueue[j] => i = j
  BY DEF QueueInv, TypeOK, IsInjective
<1>2. DoneUnit(u) = d
  BY DEF DoneUnit
<1>3. places \in SUBSET (DOMAIN rqueue) /\ \A i, j \in places : i = j
  BY <1>1
<1>4. \A i \in DOMAIN rqueue : rqueue[i] # u => i \in DOMAIN rqueue \ places
  OBVIOUS
<1> HIDE DEF places
<1>5. /\ d \in Seq(Stored) /\ ToSet(d) \subseteq ToSet(rqueue)
      /\ \A i \in DOMAIN rqueue \ places : rqueue[i] \in ToSet(d)
      /\ \E f \in [DOMAIN d -> DOMAIN rqueue] :
             /\ \A i, j \in DOMAIN d : f[i] = f[j] => i = j
             /\ \A i \in DOMAIN d : d[i] = rqueue[f[i]]
  BY <1>1, <1>3, DoneElements, ZenonT(60)
<1> HIDE DEF d
<1>6. IsInjective(d)
  <2>1. PICK f \in [DOMAIN d -> DOMAIN rqueue] :
             /\ \A i, j \in DOMAIN d : f[i] = f[j] => i = j
             /\ \A i \in DOMAIN d : d[i] = rqueue[f[i]]
    BY <1>5
  <2> SUFFICES ASSUME NEW i \in DOMAIN d, NEW j \in DOMAIN d, d[i] = d[j]
               PROVE  i = j
    BY DEF IsInjective
  <2>2. f[i] \in DOMAIN rqueue /\ f[j] \in DOMAIN rqueue /\ rqueue[f[i]] = rqueue[f[j]]
    BY <2>1
  <2> QED BY <1>1, <2>1, <2>2
<1>7. \A v \in ToSet(rqueue) : v # u => v \in ToSet(d)
  <2>1. ToSet(rqueue) = {rqueue[i] : i \in DOMAIN rqueue}
    BY DEF ToSet
  <2> QED BY <1>4, <1>5, <2>1
<1> QED BY <1>2, <1>5, <1>6, <1>7

\* A step of a worker keeps the invariant if it keeps the memories covered and
\* adds nothing to the queues.
LEMMA WorkerStep ==
    ASSUME QueueInv, NEW w \in Workers, NEW st \in WorkerStates, Become(w, st),
           UNCHANGED <<logged, units, syncd>>,
           Len(st.todo) <= QueueLimit,
           st.pc = "units" => ToSet(st.todo) \subseteq units,
           st.pc = "items" => ToSet(st.todo) \subseteq Held,
           queue' \in Seq(Rows), Len(queue') <= Len(queue), Len(queue') \in Nat,
           IsInjective([i \in DOMAIN queue' |-> queue'[i].id]),
           ToSet(queue') \subseteq ToSet(queue),
           rqueue' \in Seq(Stored), IsInjective(rqueue'), ToSet(rqueue') \subseteq ToSet(rqueue),
           runits' \subseteq units, indexed' \subseteq Present,
           StoredCovered'
    PROVE  QueueInv'
<1>1. worker' \in [Workers -> WorkerStates] /\ \A v \in Workers : worker'[v] = IF v = w THEN st ELSE worker[v]
  BY DEF QueueInv, TypeOK, Become
<1>2. Present' = Present
  BY DEF Present
<1>3. Held' \subseteq Held
  BY HeldShrinks DEF QueueInv, TypeOK
<1>4. Len(queue) \in Nat
  BY Elements DEF QueueInv, TypeOK
<1>5. Len(queue') <= MaxPending + EnqueueLimit
  BY <1>4, ConstantsAssumption DEF QueueInv, TypeOK
<1>6. \A v \in Workers : Len(worker'[v].todo) <= QueueLimit
  BY <1>1 DEF QueueInv, TypeOK
<1>7. TypeOK'
  BY <1>1, <1>2, <1>5, <1>6 DEF QueueInv, TypeOK
<1>8. Known'
  BY <1>1, <1>2, <1>3 DEF QueueInv, Known
<1>9. Agree'
  BY <1>3 DEF QueueInv, Agree
<1>10. Room'
  <2>1. syncd \in SyncdStates /\ Room /\ syncd' = syncd
    BY DEF QueueInv, TypeOK
  <2>2. Len(syncd.rest) \in Nat
    BY <2>1, SyncdShapes, Elements
  <2>3. syncd.pc = "committed" => Len(queue') <= MaxPending
    BY <1>4, <2>1, ConstantsAssumption DEF Room
  <2>4. syncd.pc = "enqueue" => Len(queue') + Len(syncd.rest) <= MaxPending + EnqueueLimit
    BY <1>4, <2>1, <2>2, ConstantsAssumption DEF Room
  <2> QED BY <2>1, <2>3, <2>4 DEF Room
<1> QED BY <1>7, <1>8, <1>9, <1>10 DEF QueueInv

\* What a worker holds.
LEMMA WorkerHolds ==
    ASSUME QueueInv, NEW w \in Workers
    PROVE  /\ worker[w] \in WorkerStates /\ Len(worker[w].todo) <= QueueLimit
           /\ worker[w].pc = "units" =>
                  /\ worker[w] \in [pc : {"units"}, todo : Seq(Stored), failed : BOOLEAN]
                  /\ ToSet(worker[w].todo) \subseteq units
           /\ worker[w].pc = "items" =>
                  /\ worker[w] \in [pc : {"items"}, todo : Seq(Rows), failed : {FALSE}]
                  /\ ToSet(worker[w].todo) \subseteq Held
<1>1. worker[w] \in WorkerStates
  BY DEF QueueInv, TypeOK
<1> QED BY <1>1, StateShapes DEF QueueInv, TypeOK, Known, Held

\* The head of a list is done, or has failed.
LEMMA NextOfList ==
    ASSUME QueueInv, NEW w \in Workers, worker[w].todo # <<>>
    PROVE  LET todo == worker[w].todo
               st == [worker[w] EXCEPT !.todo = Tail(@)]
           IN  /\ worker[w].pc = "units" =>
                      /\ Head(todo) \in units
                      /\ st \in WorkerStates /\ st.pc = "units" /\ ToSet(st.todo) \subseteq units
                      /\ [st EXCEPT !.failed = TRUE] \in WorkerStates
                      /\ [st EXCEPT !.failed = TRUE].pc = "units"
                      /\ [st EXCEPT !.failed = TRUE].todo = st.todo
               /\ worker[w].pc = "items" =>
                      /\ Head(todo) \in Held /\ Head(todo) \in Rows
                      /\ st \in WorkerStates /\ st.pc = "items" /\ ToSet(st.todo) \subseteq Held
               /\ worker[w].pc \in {"units", "items"} => Len(st.todo) <= QueueLimit
<1> DEFINE todo == worker[w].todo
           st == [worker[w] EXCEPT !.todo = Tail(@)]
<1>1. CASE worker[w].pc = "units"
  <2>1. /\ worker[w] \in [pc : {"units"}, todo : Seq(Stored), failed : BOOLEAN]
        /\ ToSet(todo) \subseteq units /\ todo \in Seq(Stored) /\ Len(todo) <= QueueLimit
    BY <1>1, WorkerHolds
  <2>2. /\ Head(todo) \in ToSet(todo) /\ Tail(todo) \in Seq(Stored) /\ Len(Tail(todo)) = Len(todo) - 1
        /\ ToSet(Tail(todo)) \subseteq ToSet(todo) /\ Len(todo) \in Nat
    BY <2>1, TailElements, Elements
  <2>3. /\ st \in [pc : {"units"}, todo : Seq(Stored), failed : BOOLEAN] /\ st.todo = Tail(todo)
        /\ [st EXCEPT !.failed = TRUE] \in [pc : {"units"}, todo : Seq(Stored), failed : BOOLEAN]
        /\ [st EXCEPT !.failed = TRUE].todo = st.todo
    BY <2>1, <2>2
  <2>4. Len(st.todo) <= QueueLimit
    BY <2>1, <2>2, <2>3, ConstantsAssumption
  <2> QED BY <1>1, <2>1, <2>2, <2>3, <2>4 DEF WorkerStates
<1>2. CASE worker[w].pc = "items"
  <2>1. /\ worker[w] \in [pc : {"items"}, todo : Seq(Rows), failed : {FALSE}]
        /\ ToSet(todo) \subseteq Held /\ todo \in Seq(Rows) /\ Len(todo) <= QueueLimit
    BY <1>2, WorkerHolds
  <2>2. /\ Head(todo) \in ToSet(todo) /\ Tail(todo) \in Seq(Rows) /\ Len(Tail(todo)) = Len(todo) - 1
        /\ ToSet(Tail(todo)) \subseteq ToSet(todo) /\ Len(todo) \in Nat /\ ToSet(todo) \subseteq Rows
    BY <2>1, TailElements, Elements
  <2>3. st \in [pc : {"items"}, todo : Seq(Rows), failed : {FALSE}] /\ st.todo = Tail(todo)
    BY <2>1, <2>2
  <2>4. Len(st.todo) <= QueueLimit
    BY <2>1, <2>2, <2>3, ConstantsAssumption
  <2> QED BY <1>2, <2>1, <2>2, <2>3, <2>4 DEF WorkerStates
<1> QED BY <1>1, <1>2

\* A worker that falls asleep or whose process stops.
LEMMA AsleepOK ==
    /\ Asleep \in WorkerStates /\ Asleep.pc = "asleep" /\ Len(Asleep.todo) <= QueueLimit
<1>1. Asleep.todo = <<>> /\ Asleep.pc = "asleep"
  BY DEF Asleep
<1> QED BY <1>1, EmptyElements, ConstantsAssumption DEF WorkerStates

\* A step that leaves the queues and the indexes alone.
LEMMA QuietWorkerStep ==
    ASSUME QueueInv, NEW w \in Workers, NEW st \in WorkerStates, Become(w, st),
           UNCHANGED <<tables, syncd>>, Len(st.todo) <= QueueLimit,
           st.pc = "units" => ToSet(st.todo) \subseteq units,
           st.pc = "items" => ToSet(st.todo) \subseteq Held
    PROVE  QueueInv'
<1>1. UNCHANGED <<logged, queue, rqueue, units, indexed, runits, syncd>>
  BY DEF tables
<1>2. queue \in Seq(Rows) /\ Len(queue) \in Nat
  BY Elements DEF QueueInv, TypeOK
<1>3. /\ IsInjective([i \in DOMAIN queue |-> queue[i].id])
      /\ rqueue \in Seq(Stored) /\ IsInjective(rqueue)
      /\ runits \subseteq units /\ indexed \subseteq Present
  BY DEF QueueInv, TypeOK
<1>4. StoredCovered'
  BY <1>1 DEF QueueInv, StoredCovered, Present
<1>5. Len(queue') <= Len(queue) /\ Len(queue') \in Nat
  BY <1>1, <1>2
<1> QED BY <1>1, <1>2, <1>3, <1>4, <1>5, WorkerStep

\* The steps of a worker keep it: it reads a page of units,
LEMMA ReadUnitsInv == ASSUME QueueInv, NEW w \in Workers, ReadUnits(w) PROVE QueueInv'
<1> DEFINE st == [pc |-> "units", todo |-> Page(rqueue), failed |-> FALSE]
<1>1. /\ Page(rqueue) \in Seq(Stored) /\ ToSet(Page(rqueue)) \subseteq units
      /\ Len(Page(rqueue)) <= QueueLimit
  BY PageElements DEF QueueInv, TypeOK, Known
<1>3. st \in WorkerStates /\ st.pc = "units" /\ st.todo = Page(rqueue)
  BY <1>1 DEF WorkerStates
<1>4. Become(w, st) /\ UNCHANGED <<tables, syncd>>
  BY DEF ReadUnits
<1> HIDE DEF st
<1> QED BY <1>1, <1>3, <1>4, QuietWorkerStep

\* or a page of items,
LEMMA ReadItemsInv == ASSUME QueueInv, NEW w \in Workers, ReadItems(w) PROVE QueueInv'
<1>1. CASE worker[w].failed
  <2>1. Become(w, Asleep) /\ UNCHANGED <<tables, syncd>>
    BY <1>1 DEF ReadItems
  <2> QED BY <2>1, AsleepOK, QuietWorkerStep
<1>2. CASE ~worker[w].failed
  <2> DEFINE st == [pc |-> "items", todo |-> Page(queue), failed |-> FALSE]
  <2>1. /\ Page(queue) \in Seq(Rows) /\ ToSet(Page(queue)) \subseteq ToSet(queue)
        /\ Len(Page(queue)) <= QueueLimit
    BY PageElements DEF QueueInv, TypeOK
  <2>3. st \in WorkerStates /\ st.pc = "items" /\ st.todo = Page(queue)
    BY <2>1 DEF WorkerStates
  <2>4. Become(w, st) /\ UNCHANGED <<tables, syncd>>
    BY <1>2 DEF ReadItems
  <2>5. ToSet(st.todo) \subseteq Held
    BY <2>1, <2>3 DEF Held
  <2> HIDE DEF st
  <2> QED BY <2>1, <2>3, <2>4, <2>5, QuietWorkerStep
<1> QED BY <1>1, <1>2

\* fails at a unit,
LEMMA FailUnitInv == ASSUME QueueInv, NEW w \in Workers, FailUnit(w) PROVE QueueInv'
<1> DEFINE rest == [worker[w] EXCEPT !.todo = Tail(@)]
           st == [rest EXCEPT !.failed = TRUE]
<1>1. /\ st \in WorkerStates /\ st.pc = "units" /\ ToSet(st.todo) \subseteq units
      /\ Len(st.todo) <= QueueLimit
  BY NextOfList DEF FailUnit
<1>2. st = [worker[w] EXCEPT !.todo = Tail(@), !.failed = TRUE]
  OBVIOUS
<1>3. Become(w, st) /\ UNCHANGED <<tables, syncd>>
  BY <1>2 DEF FailUnit
<1> HIDE DEF st
<1> QED BY <1>1, <1>3, QuietWorkerStep

\* or at an item,
LEMMA FailItemInv == ASSUME QueueInv, NEW w \in Workers, FailItem(w) PROVE QueueInv'
<1> DEFINE st == [worker[w] EXCEPT !.todo = Tail(@)]
<1>1. /\ st \in WorkerStates /\ st.pc = "items" /\ ToSet(st.todo) \subseteq Held
      /\ Len(st.todo) <= QueueLimit
  BY NextOfList DEF FailItem
<1>2. Become(w, st) /\ UNCHANGED <<tables, syncd>>
  BY DEF FailItem
<1> HIDE DEF st
<1> QED BY <1>1, <1>2, QuietWorkerStep

\* goes to sleep or stops,
LEMMA AsleepInv == ASSUME QueueInv, NEW w \in Workers, Rest(w) \/ CrashWorker(w) PROVE QueueInv'
<1>1. Become(w, Asleep) /\ UNCHANGED <<tables, syncd>>
  BY DEF Rest, CrashWorker
<1> QED BY <1>1, AsleepOK, QuietWorkerStep

\* indexes a unit and takes it off the queue,
LEMMA IndexUnitInv == ASSUME QueueInv, NEW w \in Workers, IndexUnit(w) PROVE QueueInv'
<1> DEFINE u == Head(worker[w].todo)
           st == [worker[w] EXCEPT !.todo = Tail(@)]
<1>1. /\ st \in WorkerStates /\ st.pc = "units" /\ ToSet(st.todo) \subseteq units
      /\ Len(st.todo) <= QueueLimit /\ u \in units
  BY NextOfList DEF IndexUnit
<1>2. /\ Become(w, st) /\ runits' = runits \cup {u} /\ rqueue' = DoneUnit(u)
      /\ UNCHANGED <<logged, queue, units, indexed, syncd>>
  BY DEF IndexUnit
<1> HIDE DEF st, u
<1>3. /\ rqueue' \in Seq(Stored) /\ ToSet(rqueue') \subseteq ToSet(rqueue) /\ IsInjective(rqueue')
      /\ \A v \in ToSet(rqueue) : v # u => v \in ToSet(rqueue')
  BY <1>2, DoneUnitElements
<1>4. /\ queue \in Seq(Rows) /\ Len(queue) \in Nat
      /\ IsInjective([i \in DOMAIN queue |-> queue[i].id])
      /\ runits \subseteq units /\ indexed \subseteq Present
  BY Elements DEF QueueInv, TypeOK
<1>5. StoredCovered'
  BY <1>2, <1>3 DEF QueueInv, StoredCovered, Present
<1>6. Len(queue') <= Len(queue) /\ Len(queue') \in Nat /\ runits' \subseteq units
  BY <1>1, <1>2, <1>4
<1> QED BY <1>1, <1>2, <1>3, <1>4, <1>5, <1>6, WorkerStep

\* or does so with an item.
LEMMA IndexItemInv == ASSUME QueueInv, NEW w \in Workers, IndexItem(w) PROVE QueueInv'
<1> DEFINE r == Head(worker[w].todo)
           st == [worker[w] EXCEPT !.todo = Tail(@)]
<1>1. /\ st \in WorkerStates /\ st.pc = "items" /\ ToSet(st.todo) \subseteq Held
      /\ Len(st.todo) <= QueueLimit /\ r \in Held
  BY NextOfList DEF IndexItem
<1>2. /\ Become(w, st) /\ indexed' = indexed \cup {r.mem} /\ queue' = DoneItem(r)
      /\ UNCHANGED <<logged, rqueue, units, runits, syncd>>
  BY DEF IndexItem
<1> HIDE DEF st, r
<1>3. /\ queue' \in Seq(Rows) /\ Len(queue') <= Len(queue) /\ Len(queue') \in Nat
      /\ ToSet(queue') \subseteq ToSet(queue)
      /\ \A s \in ToSet(queue) : s.id # r.id => s \in ToSet(queue')
      /\ IsInjective([i \in DOMAIN queue' |-> queue'[i].id])
  BY <1>2, DoneItemElements
<1>4. rqueue \in Seq(Stored) /\ IsInjective(rqueue) /\ runits \subseteq units /\ indexed \subseteq Present
  BY DEF QueueInv, TypeOK
<1>5. \A s \in ToSet(queue) : s \in ToSet(queue') \/ s.mem \in indexed'
  BY <1>1, <1>2, <1>3 DEF QueueInv, Agree
<1>6. StoredCovered'
  BY <1>2, <1>5 DEF QueueInv, StoredCovered, Present
<1>7. indexed' \subseteq Present
  BY <1>1, <1>2, <1>4 DEF QueueInv, Known
<1> QED BY <1>1, <1>2, <1>3, <1>4, <1>6, <1>7, WorkerStep

(***************************************************************************)
(* The theorems.                                                           *)
(***************************************************************************)
LEMMA QueueInit == Init => QueueInv
<1> SUFFICES ASSUME Init PROVE QueueInv
  OBVIOUS
<1> USE DEF Init
<1>1. Asleep.todo = <<>> /\ Asleep.pc = "asleep" /\ Quiet.rest = <<>> /\ Quiet.pc = "idle"
  BY DEF Asleep, Quiet
<1>2. /\ Present = {} /\ ToSet(queue) = {} /\ ToSet(rqueue) = {} /\ ToSet(syncd.rest) = {}
      /\ Len(queue) = 0 /\ Len(syncd.rest) = 0
  BY <1>1, EmptyElements DEF Present
<1>3. Held = {}
  BY <1>1, <1>2 DEF Held
<1>4. TypeOK
  <2>1. /\ logged \in Seq(Memories) /\ queue \in Seq(Rows) /\ rqueue \in Seq(Stored)
    BY EmptySeq
  <2>2. DOMAIN logged = {} /\ DOMAIN queue = {} /\ DOMAIN rqueue = {}
    OBVIOUS
  <2>3. IsInjective(logged) /\ IsInjective([i \in DOMAIN queue |-> queue[i].id]) /\ IsInjective(rqueue)
    BY <2>2 DEF IsInjective
  <2>4. worker \in [Workers -> WorkerStates] /\ syncd \in SyncdStates
    BY DEF WorkerStates, SyncdStates, Quiet
  <2>5. \A w \in Workers : Len(worker[w].todo) <= QueueLimit
    BY AsleepOK
  <2>6. Len(queue) <= MaxPending + EnqueueLimit
    BY <1>2, ConstantsAssumption
  <2>7. units \subseteq Stored /\ runits \subseteq units /\ indexed \subseteq Present
    OBVIOUS
  <2> HIDE DEF Init
  <2> QED BY <2>1, <2>3, <2>4, <2>5, <2>6, <2>7 DEF TypeOK
<1>5. Known /\ Agree
  BY <1>1, <1>2, <1>3 DEF Known, Agree
<1>6. Room
  BY <1>1, <1>2, ConstantsAssumption DEF Room
<1>7. StoredCovered
  BY <1>2 DEF StoredCovered
<1> QED BY <1>4, <1>5, <1>6, <1>7 DEF QueueInv

\* Every step keeps the invariant.
LEMMA QueueNext == QueueInv /\ [Next]_vars => QueueInv'
<1> SUFFICES ASSUME QueueInv, [Next]_vars PROVE QueueInv'
  OBVIOUS
<1>1. CASE \E m \in Memories : Store(m)
  BY <1>1, StoreInv
<1>2. CASE \E ms \in Batches : ApplyBatch(ms)
  BY <1>2, ApplyBatchInv
<1>3. CASE ReadRecent
  BY <1>3, ReadRecentInv
<1>4. CASE EnqueueNext
  BY <1>4, EnqueueNextInv
<1>5. CASE CrashSyncd
  BY <1>5, CrashSyncdInv
<1>6. ASSUME NEW w \in Workers,
             \/ ReadUnits(w) \/ IndexUnit(w) \/ FailUnit(w)
             \/ ReadItems(w) \/ IndexItem(w) \/ FailItem(w)
             \/ Rest(w) \/ CrashWorker(w)
      PROVE  QueueInv'
  BY <1>6, ReadUnitsInv, IndexUnitInv, FailUnitInv, ReadItemsInv, IndexItemInv, FailItemInv, AsleepInv
<1>7. CASE UNCHANGED vars
  <2>1. UNCHANGED <<tables, worker>> /\ syncd' = syncd
    BY <1>7 DEF vars, tables
  <2>2. syncd \in SyncdStates
    BY DEF QueueInv, TypeOK
  <2> QED BY <2>1, <2>2, SyncdStep DEF QueueInv, Known, Room
<1> QED BY <1>1, <1>2, <1>3, <1>4, <1>5, <1>6, <1>7 DEF Next

\* So it holds at any time.
LEMMA QueueAlways == Spec => []QueueInv
BY QueueInit, QueueNext, PTL DEF Spec

\* Every variable of IndexQueue has its type, for any number of workers and
\* memories and any limits.
THEOREM QueueTypes == Spec => []TypeOK
<1>1. QueueInv => TypeOK
  BY DEF QueueInv
<1> QED BY <1>1, QueueAlways, PTL

\* A memory stored here never leaves a queue without being in its index,
\* whichever worker or daemon stops where and however late it finishes a row
\* (storeTx, processItem, processRetrievalItem, finishQueueItem).
THEOREM StoredAlwaysCovered == Spec => []StoredCovered
<1>1. QueueInv => StoredCovered
  BY DEF QueueInv
<1> QED BY <1>1, QueueAlways, PTL
=============================================================================
