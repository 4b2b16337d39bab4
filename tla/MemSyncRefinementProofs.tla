----------------------- MODULE MemSyncRefinementProofs ------------------------
(***************************************************************************)
(* What replication keeps and why, for every set of peers, memories and    *)
(* namespaces: cursors, claims and the order of cells, and that MemSync    *)
(* implements the last-writer-wins replicas of LWWReplicas.                *)
(*                                                                         *)
(* Every step of MemSync has one of four shapes: a local write, a batch    *)
(* that is extracted, a batch that is accepted, or a step that changes no  *)
(* table and at most loses batches.  The proofs are by these shapes.       *)
(***************************************************************************)
EXTENDS MemSyncRefinement, MemSyncProofs

LocalStep ==
    /\ \E p \in Peers, m \in Memories : Store(p, m) \/ Supersede(p, m) \/ Signal(p, m)
    /\ UnderWay' = UnderWay

SendStep ==
    /\ \E p, q \in Peers, n \in Namespaces : UnderWay' = UnderWay \cup {ExtractBatch(p, q, n)}
    /\ UNCHANGED <<database, cursor>>

AcceptStep ==
    /\ \E b \in UnderWay : IsBatch(b) /\ Accept(b.to, b.from, b)
    /\ UnderWay' \subseteq UnderWay

QuietStep == UnderWay' \subseteq UnderWay /\ UNCHANGED <<database, cursor>>

\* A session that goes on without a batch takes none along.
LEMMA WireShrinks ==
    ASSUME SessionsOK, NEW p \in Peers, NEW s, sess' = [sess EXCEPT ![p] = s],
           s.pc \notin {"sent", "reply"}, late' \subseteq UnderWay
    PROVE  UnderWay' \subseteq UnderWay
  BY DEF UnderWay, SessionsOK

\* A session that takes a batch up adds it to those under way.
LEMMA WireGrows ==
    ASSUME SessionsOK, NEW p \in Peers, NEW s, sess' = [sess EXCEPT ![p] = s],
           sess[p].pc \notin {"sent", "reply"}, s.pc \in {"sent", "reply"}, late' = late
    PROVE  UnderWay' = UnderWay \cup {s.batch}
<1>1. /\ DOMAIN sess = Peers /\ sess'[p] = s /\ late' = late
      /\ \A x \in Peers : x # p => sess'[x] = sess[x]
  BY DEF SessionsOK
<1>2. UnderWay' \subseteq UnderWay \cup {s.batch}
  BY <1>1 DEF UnderWay
<1>3. s.batch \in UnderWay'
  BY <1>1 DEF UnderWay
<1>4. UnderWay \subseteq UnderWay'
  BY <1>1 DEF UnderWay
<1> QED  BY <1>2, <1>3, <1>4

\* The batch a session holds is under way.
LEMMA HeldIsUnderWay ==
    ASSUME NEW p \in Peers, sess[p].pc \in {"sent", "reply"}
    PROVE  sess[p].batch \in UnderWay
  BY DEF UnderWay

\* Every step has one of the four shapes.
LEMMA StepShape ==
    ASSUME ConstantsAssumption, TypeOK, [Next]_vars
    PROVE  LocalStep \/ SendStep \/ AcceptStep \/ QuietStep
<1> USE DEF TypeOK
<1>0. late \subseteq UnderWay
  BY DEF UnderWay
<1>1. ASSUME NEW p \in Peers, NEW m \in Memories,
             Store(p, m) \/ Supersede(p, m) \/ Signal(p, m)
      PROVE  LocalStep
  <2>1. sess' = sess /\ late' = late
    BY <1>1 DEF Store, Supersede, Signal, LocalWrite
  <2> QED  BY <1>1, <2>1 DEF LocalStep, UnderWay
<1>2. ASSUME NEW p \in Peers, NEW q \in Peers, BeginSync(p, q) PROVE QuietStep
  <2> DEFINE s == [pc |-> "next", peer |-> q, todo |-> Local[p] \cap Allow[p][q]]
  <2>1. sess' = [sess EXCEPT ![p] = s] /\ late' \subseteq UnderWay
        /\ UNCHANGED <<database, cursor>>
    BY <1>0, <1>2 DEF BeginSync, Become
  <2>2. s.pc \notin {"sent", "reply"}
    OBVIOUS
  <2> HIDE DEF s
  <2> QED  BY <2>1, <2>2, WireShrinks DEF QuietStep
<1>3. ASSUME NEW p \in Peers, PushBatch(p) PROVE SendStep
  <2>1. PICK n \in sess[p].todo :
           Become(p, [pc |-> "sent", peer |-> sess[p].peer, todo |-> sess[p].todo,
                      batch |-> ExtractBatch(p, sess[p].peer, n)])
    BY <1>3 DEF PushBatch
  <2> DEFINE b == ExtractBatch(p, sess[p].peer, n)
             s == [pc |-> "sent", peer |-> sess[p].peer, todo |-> sess[p].todo, batch |-> b]
  <2>2. /\ sess[p].pc = "next" /\ sess[p].peer \in Peers /\ n \in Namespaces
        /\ late' = late /\ UNCHANGED <<database, cursor>>
    BY <1>3, <2>1 DEF PushBatch, SessionsOK, IsSession, Idle
  <2>3. sess' = [sess EXCEPT ![p] = s] /\ s.pc = "sent" /\ s.batch = b
    BY <2>1 DEF Become
  <2>4. UnderWay' = UnderWay \cup {b}
    <3> HIDE DEF s, b
    <3> QED  BY <2>2, <2>3, WireGrows
  <2> QED  BY <2>2, <2>4 DEF SendStep
<1>4. ASSUME NEW p \in Peers, ServePush(p) PROVE AcceptStep \/ QuietStep
  <2> DEFINE b == sess[p].batch
             s == [pc |-> "pull", peer |-> b.to, todo |-> sess[p].todo, ns |-> b.ns]
  <2>1. IsBatch(b) /\ b.from = p /\ b \in UnderWay /\ late' \subseteq UnderWay
    BY <1>0, <1>4, HeldIsUnderWay DEF ServePush, SessionsOK, IsSession, Idle
  <2>2. CASE Accept(b.to, p, b) /\ Become(p, s)
    <3>1. sess' = [sess EXCEPT ![p] = s] /\ s.pc \notin {"sent", "reply"}
      BY <2>2 DEF Become
    <3>2. UnderWay' \subseteq UnderWay
      <4> HIDE DEF s
      <4> QED  BY <2>1, <3>1, WireShrinks
    <3> QED  BY <2>1, <2>2, <3>2 DEF AcceptStep
  <2>3. CASE Quarantine(b.to, p, b) /\ Become(p, Idle)
    <3>1. sess' = [sess EXCEPT ![p] = Idle] /\ Idle.pc \notin {"sent", "reply"}
      BY <2>3 DEF Become, Idle
    <3> QED  BY <2>1, <2>3, <3>1, WireShrinks DEF QuietStep, Quarantine, database
  <2> QED  BY <1>4, <2>2, <2>3 DEF ServePush
<1>5. ASSUME NEW p \in Peers, ServePull(p) PROVE SendStep
  <2> DEFINE q == sess[p].peer
             b == ExtractBatch(q, p, sess[p].ns)
             s == [pc |-> "reply", peer |-> q, todo |-> sess[p].todo, batch |-> b]
  <2>1. /\ sess[p].pc = "pull" /\ q \in Peers /\ sess[p].ns \in Namespaces
        /\ late' = late /\ UNCHANGED <<database, cursor>>
    <3>1. /\ sess[p].pc = "pull" /\ IsSession(p, sess[p])
          /\ late' = late /\ UNCHANGED <<database, cursor>>
      BY <1>5 DEF ServePull, SessionsOK
    <3>2. q \in Peers /\ sess[p].ns \in Namespaces
      BY <3>1 DEF IsSession, Idle
    <3> QED  BY <3>1, <3>2
  <2>2. sess' = [sess EXCEPT ![p] = s] /\ s.pc = "reply" /\ s.batch = b
    BY <1>5 DEF ServePull, Become
  <2>3. UnderWay' = UnderWay \cup {b}
    <3> HIDE DEF s, b
    <3> QED  BY <2>1, <2>2, WireGrows
  <2> QED  BY <2>1, <2>3 DEF SendStep
<1>6. ASSUME NEW p \in Peers, ApplyReply(p) PROVE AcceptStep \/ QuietStep
  <2> DEFINE b == sess[p].batch
             s == After(sess[p], b.ns)
  <2>1. IsBatch(b) /\ b.to = p /\ b \in UnderWay /\ late' \subseteq UnderWay
    <3>1. sess[p].pc = "reply" /\ IsSession(p, sess[p]) /\ late' = late
      BY <1>6 DEF ApplyReply, SessionsOK
    <3>2. IsBatch(b) /\ b.to = p
      BY <3>1 DEF IsSession, Idle
    <3>3. b \in UnderWay
      BY <3>1, HeldIsUnderWay
    <3> QED  BY <1>0, <3>1, <3>2, <3>3
  <2>2. CASE Accept(p, b.from, b) /\ Become(p, s)
    <3>1. sess' = [sess EXCEPT ![p] = s] /\ s.pc \notin {"sent", "reply"}
      BY <2>2 DEF Become, After, Idle
    <3>2. UnderWay' \subseteq UnderWay
      <4> HIDE DEF s
      <4> QED  BY <2>1, <3>1, WireShrinks
    <3> QED  BY <2>1, <2>2, <3>2 DEF AcceptStep
  <2>3. CASE Quarantine(p, b.from, b) /\ Become(p, Idle)
    <3>1. sess' = [sess EXCEPT ![p] = Idle] /\ Idle.pc \notin {"sent", "reply"}
      BY <2>3 DEF Become, Idle
    <3> QED  BY <2>1, <2>3, <3>1, WireShrinks DEF QuietStep, Quarantine, database
  <2> QED  BY <1>6, <2>2, <2>3 DEF ApplyReply
<1>7. ASSUME NEW p \in Peers, Abort(p) PROVE QuietStep
  <2>1. sess' = [sess EXCEPT ![p] = Idle] /\ Idle.pc \notin {"sent", "reply"}
        /\ UNCHANGED <<database, cursor>>
    BY <1>7 DEF Abort, Become, Idle
  <2>2. late' \subseteq UnderWay
    BY <1>0, <1>7, HeldIsUnderWay DEF Abort
  <2> QED  BY <2>1, <2>2, WireShrinks DEF QuietStep
<1>8. ASSUME NEW b \in late, ServeLate(b) PROVE AcceptStep \/ QuietStep
  <2>1. IsBatch(b) /\ b \in UnderWay /\ UnderWay' \subseteq UnderWay
    BY <1>8 DEF LateOK, UnderWay, ServeLate
  <2> QED  BY <1>8, <2>1 DEF ServeLate, AcceptStep, QuietStep, Quarantine, database
<1>9. CASE UNCHANGED vars
  BY <1>9 DEF vars, QuietStep, UnderWay, database
<1> QED  BY <1>1, <1>2, <1>3, <1>4, <1>5, <1>6, <1>7, <1>8, <1>9 DEF Next

(***************************************************************************)
(* Cells only advance, and only news mints versions.                       *)
(***************************************************************************)

\* What one transaction does to p's tables: other databases are left alone, a
\* cell that changes advances, and without an advance nothing is logged.
Transaction(p) ==
    /\ \A x \in Peers \ {p} : clock'[x] = clock[x] /\ dbv'[x] = dbv[x] /\ log'[x] = log[x]
    /\ \A c \in Cells : clock'[p][c] # clock[p][c] => Advances(p, c)
    /\ dbv'[p] # dbv[p] \/ log'[p] # log[p] => \E c \in Cells : Advances(p, c)
    /\ log[p] \subseteq log'[p]

\* A local write that changes some cell is such a transaction.
LEMMA WriteAdvances ==
    ASSUME DatabaseOK, NEW p \in Peers, NEW vals, DOMAIN vals \subseteq Cells,
           NEW d \in DOMAIN vals, vals[d] # clock[p][d].val,
           LocalWrite(p, vals)
    PROVE  /\ Transaction(p)
           /\ \A c \in Cells : clock'[p][c] # clock[p][c] =>
                  /\ c \in DOMAIN vals /\ clock'[p][c].cv = clock[p][c].cv + 1
                  /\ clock'[p][c].val = vals[c] /\ clock'[p][c].ver = dbv[p] + 1
<1>1. /\ DOMAIN clock = Peers /\ DOMAIN log = Peers /\ DOMAIN dbv = Peers
      /\ clock[p] \in [Cells -> ClockRows(dbv[p])]
  BY DEF DatabaseOK
<1>2. /\ \A x \in Peers \ {p} : clock'[x] = clock[x] /\ dbv'[x] = dbv[x] /\ log'[x] = log[x]
      /\ clock'[p] = Write(clock[p], dbv[p], vals) /\ log[p] \subseteq log'[p]
  BY <1>1 DEF LocalWrite
<1>3. \A c \in Cells : \/ clock'[p][c] = clock[p][c]
                         \/ /\ c \in DOMAIN vals /\ clock'[p][c].cv = clock[p][c].cv + 1
                            /\ clock'[p][c].val = vals[c] /\ clock'[p][c].ver = dbv[p] + 1
  BY <1>1, <1>2 DEF Write
<1>4. \A c \in Cells : clock[p][c].cv \in Nat
  BY <1>1 DEF ClockRows
<1>5. \A c \in Cells : clock'[p][c] # clock[p][c] => Advances(p, c)
  BY <1>3, <1>4 DEF Advances
<1>6. Advances(p, d)
  <2>1. clock'[p][d].cv = clock[p][d].cv + 1
    BY <1>1, <1>2 DEF Write
  <2> QED  BY <2>1, <1>4 DEF Advances
<1> QED  BY <1>2, <1>3, <1>5, <1>6 DEF Transaction

\* So is a batch that is accepted: what it changes it takes from the batch.
LEMMA AcceptAdvances ==
    ASSUME ConstantsAssumption, DatabaseOK, NEW p \in Peers, NEW q \in Peers,
           NEW b, IsBatch(b), Accept(p, q, b)
    PROVE  /\ Transaction(p)
           /\ \A c \in Cells : clock'[p][c] # clock[p][c] =>
                  /\ c \in DOMAIN b.rows /\ Newer(b.rows[c], clock[p][c])
                  /\ clock'[p][c].cv = b.rows[c].cv /\ clock'[p][c].val = b.rows[c].val
<1>1. /\ DOMAIN clock = Peers /\ DOMAIN log = Peers /\ DOMAIN dbv = Peers
      /\ dbv[p] \in Nat /\ dbv[b.from] \in Nat
      /\ clock[p] \in [Cells -> ClockRows(dbv[p])]
      /\ \A c \in DOMAIN b.rows : b.rows[c] \in ClockRows(dbv[b.from])
      /\ DOMAIN b.rows \subseteq Cells
  BY DEF DatabaseOK, IsBatch
<1> DEFINE won == Won(clock[p], b.rows)
           entries == LoggedByMerge(p, b.rows)
<1>2. /\ \A x \in Peers \ {p} : clock'[x] = clock[x] /\ dbv'[x] = dbv[x] /\ log'[x] = log[x]
      /\ clock'[p] = Merge(clock[p], dbv[p], b.rows)
      /\ dbv'[p] = MergedVersion(clock[p], dbv[p], b.rows)
      /\ log'[p] = log[p] \cup entries
  BY <1>1 DEF Accept
<1>3. \A c \in won : /\ c \in Cells /\ c \in DOMAIN b.rows /\ Newer(b.rows[c], clock[p][c])
                     /\ clock'[p][c] = Stamped(dbv[p], b.rows[c])
  BY <1>1, <1>2 DEF Won, Merge
<1>4. \A c \in won : /\ Advances(p, c)
                     /\ clock'[p][c].cv = b.rows[c].cv /\ clock'[p][c].val = b.rows[c].val
  <2> SUFFICES ASSUME NEW c \in won
               PROVE  /\ Advances(p, c)
                      /\ clock'[p][c].cv = b.rows[c].cv /\ clock'[p][c].val = b.rows[c].val
    OBVIOUS
  <2>1. clock'[p][c].cv = b.rows[c].cv /\ clock'[p][c].val = b.rows[c].val
    BY <1>1, <1>3, StampedProps
  <2> QED  BY <1>3, <2>1 DEF Advances, Newer
<1>5. \A c \in Cells : c \notin won => clock'[p][c] = clock[p][c]
  BY <1>1, <1>2 DEF Merge
<1>6. won = {} => dbv'[p] = dbv[p] /\ log'[p] = log[p]
  <2> SUFFICES ASSUME won = {} PROVE dbv'[p] = dbv[p] /\ log'[p] = log[p]
    OBVIOUS
  <2>1. dbv'[p] = dbv[p]
    BY <1>1, <1>2, MergeNothing
  <2>2. entries = {}
    BY <1>1, LoggedByMergeProps
  <2> QED  BY <1>2, <2>1, <2>2
<1> HIDE DEF won, entries
<1>7. dbv'[p] # dbv[p] \/ log'[p] # log[p] => \E c \in Cells : Advances(p, c)
  BY <1>3, <1>4, <1>6
<1> QED  BY <1>2, <1>3, <1>4, <1>5, <1>7 DEF Transaction

\* Who writes which cell, kind by kind.
LEMMA WritesCellKinds ==
    ASSUME NEW p, NEW x
    PROVE  /\ HomeOf[x] = p => WritesCell(p, <<x, "claim">>)
           /\ SignallerOf[x] = p => WritesCell(p, <<x, "signal">>)
           /\ \A m \in Memories : HomeOf[m] = p /\ x \in {m, Replaces[m]} =>
                  WritesCell(p, <<x, "lifecycle">>)
           /\ \A m \in Memories : HomeOf[m] = p /\ x \in Describes[m] =>
                  WritesCell(p, <<x, "namespace">>)
<1>1. HomeOf[x] = p => WritesCell(p, <<x, "claim">>)
  BY DEF WritesCell
<1>2. SignallerOf[x] = p => WritesCell(p, <<x, "signal">>)
  BY DEF WritesCell
<1>3. ASSUME NEW m \in Memories, HomeOf[m] = p, x \in {m, Replaces[m]}
      PROVE  WritesCell(p, <<x, "lifecycle">>)
  BY <1>3 DEF WritesCell
<1>4. ASSUME NEW m \in Memories, HomeOf[m] = p, x \in Describes[m]
      PROVE  WritesCell(p, <<x, "namespace">>)
  BY <1>4 DEF WritesCell
<1> QED  BY <1>1, <1>2, <1>3, <1>4

\* What storeTx writes is of the memory it stores, but for artifacts.
LEMMA StoredKinds ==
    ASSUME ConstantsAssumption, NEW m \in Memories
    PROVE  \A x : /\ <<x, "claim">> \in DOMAIN Stored(m) => x = m
                  /\ <<x, "lifecycle">> \in DOMAIN Stored(m) => x = m
<1>1. ASSUME NEW c \in DOMAIN Stored(m)
      PROVE  c \in {<<m, "claim">>, <<m, "lifecycle">>} \/ c[2] = "namespace"
  <2>1. c \in {<<m, "claim">>, <<m, "lifecycle">>} \/ \E a \in Describes[m] : c = <<a, "namespace">>
    BY StoredCell
  <2> QED  BY <2>1
<1> QED  BY <1>1

\* A claim as the transaction that stores it leaves it.
WrittenClaim(p, m) ==
    LET r == clock'[p][<<m, "claim">>]
    IN  r.cv = 1 /\ r.val = Set /\ r.ver = dbv[p] + 1

\* Store, Supersede and Signal write cells their peer is an author of, a claim
\* only when there was none.
LEMMA LocalAdvances ==
    ASSUME ConstantsAssumption, DatabaseOK, NEW p \in Peers, NEW m \in Memories,
           Store(p, m) \/ Supersede(p, m) \/ Signal(p, m)
    PROVE  /\ Transaction(p)
           /\ cursor' = cursor
           /\ \A c \in Cells : clock'[p][c] # clock[p][c] =>
                  /\ WritesCell(p, c)
                  /\ clock'[p][c].cv = clock[p][c].cv + 1
                  /\ c[2] = "claim" =>
                        /\ c = <<m, "claim">> /\ clock[p][c] = Absent
                        /\ HomeOf[m] = p /\ WrittenClaim(p, m)
                        /\ <<dbv[p] + 1, NsOf[m]>> \in log'[p]
<1>1. ASSUME NEW v, DOMAIN v \subseteq Cells, <<m, "claim">> \in DOMAIN v,
             v[<<m, "claim">>] = Set, clock[p][<<m, "claim">>] = Absent, LocalWrite(p, v)
      PROVE  /\ Transaction(p) /\ cursor' = cursor
             /\ \A c \in Cells : clock'[p][c] # clock[p][c] =>
                    c \in DOMAIN v /\ clock'[p][c].cv = clock[p][c].cv + 1
             /\ WrittenClaim(p, m)
             /\ <<dbv[p] + 1, NsOf[m]>> \in log'[p]
  <2> DEFINE k == <<m, "claim">>
  <2>1. k \in DOMAIN v /\ v[k] # clock[p][k].val
    BY <1>1 DEF Absent, Set
  <2>2. /\ Transaction(p)
        /\ \A c \in Cells : clock'[p][c] # clock[p][c] =>
               /\ c \in DOMAIN v /\ clock'[p][c].cv = clock[p][c].cv + 1
               /\ clock'[p][c].val = v[c] /\ clock'[p][c].ver = dbv[p] + 1
    BY <1>1, <2>1, WriteAdvances
  <2>3. clock'[p] = Write(clock[p], dbv[p], v) /\ cursor' = cursor
    BY <1>1 DEF LocalWrite, DatabaseOK
  <2>4. Write(clock[p], dbv[p], v)[k] = [cv |-> 1, val |-> Set, ver |-> dbv[p] + 1]
    BY <1>1, <2>1 DEF Write, DatabaseOK, Absent
  <2>9. WrittenClaim(p, m)
    BY <2>3, <2>4 DEF WrittenClaim
  <2>5. NsOf[m] \in RowNs(clock'[p], k)
    BY <2>3, <2>4 DEF RowNs, MemoryNs, Present, Absent
  <2>6. <<dbv[p] + 1, NsOf[m]>> \in Logged(clock'[p], dbv[p] + 1, DOMAIN v)
    BY <2>1, <2>5 DEF Logged
  <2>8. <<dbv[p] + 1, NsOf[m]>> \in log'[p]
    BY <1>1, <2>3, <2>6 DEF LocalWrite, DatabaseOK
  <2> QED  BY <2>2, <2>3, <2>8, <2>9
<1>5. ASSUME HomeOf[m] = p, NEW c \in DOMAIN Stored(m)
      PROVE  WritesCell(p, c) /\ (c[2] = "claim" => c = <<m, "claim">>)
  <2>1. CASE c \in {<<m, "claim">>, <<m, "lifecycle">>}
    <3>1. WritesCell(p, <<m, "claim">>) /\ WritesCell(p, <<m, "lifecycle">>)
      BY <1>5, WritesCellKinds
    <3>2. <<m, "lifecycle">>[2] # "claim"
      OBVIOUS
    <3> QED  BY <2>1, <3>1, <3>2
  <2>2. ASSUME NEW a \in Describes[m], c = <<a, "namespace">>
        PROVE  WritesCell(p, c) /\ c[2] # "claim"
    BY <1>5, <2>2, WritesCellKinds
  <2>3. c \in {<<m, "claim">>, <<m, "lifecycle">>} \/ \E a \in Describes[m] : c = <<a, "namespace">>
    BY StoredCell
  <2> QED  BY <2>1, <2>2, <2>3
<1>2. CASE Store(p, m)
  <2> DEFINE v == Stored(m)
  <2>1. /\ clock[p][<<m, "claim">>] = Absent /\ HomeOf[m] = p /\ LocalWrite(p, v)
    BY <1>2 DEF Store, Storable, NodeExists, Present
  <2>2. DOMAIN v \subseteq Cells /\ <<m, "claim">> \in DOMAIN v /\ v[<<m, "claim">>] = Set
    BY StoredProps
  <2>3. \A c \in DOMAIN v : WritesCell(p, c) /\ (c[2] = "claim" => c = <<m, "claim">>)
    BY <1>5, <2>1
  <2> HIDE DEF v
  <2> QED  BY <1>1, <2>1, <2>2, <2>3
<1>3. CASE Supersede(p, m)
  <2> DEFINE L == <<Replaces[m], "lifecycle">>
             v == Also(Stored(m), L, Superseded)
  <2>1. /\ clock[p][<<m, "claim">>] = Absent /\ HomeOf[m] = p /\ LocalWrite(p, v)
        /\ L \in Cells
    BY <1>3 DEF Supersede, Storable, NodeExists, Present, ConstantsAssumption, Cells
  <2>2. /\ DOMAIN Stored(m) \subseteq Cells /\ <<m, "claim">> \in DOMAIN Stored(m)
        /\ Stored(m)[<<m, "claim">>] = Set
    BY StoredProps
  <2>3. <<m, "claim">> # L /\ L[2] # "claim"
    OBVIOUS
  <2>4. WritesCell(p, L)
    BY <2>1, WritesCellKinds
  <2>5. /\ DOMAIN v = DOMAIN Stored(m) \cup {L}
        /\ \A c \in DOMAIN Stored(m) : c # L => v[c] = Stored(m)[c]
    BY DEF Also
  <2> HIDE DEF v, L
  <2>6. DOMAIN v \subseteq Cells /\ <<m, "claim">> \in DOMAIN v /\ v[<<m, "claim">>] = Set
    BY <2>1, <2>2, <2>3, <2>5
  <2>7. \A c \in DOMAIN v : WritesCell(p, c) /\ (c[2] = "claim" => c = <<m, "claim">>)
    BY <1>5, <2>1, <2>3, <2>4, <2>5
  <2> QED  BY <1>1, <2>1, <2>6, <2>7
<1>4. CASE Signal(p, m)
  <2> DEFINE k == <<m, "signal">>
             v == [c \in {k} |-> Set]
  <2>1. /\ DOMAIN v \subseteq Cells /\ k \in DOMAIN v /\ v[k] # clock[p][k].val
        /\ LocalWrite(p, v) /\ WritesCell(p, k) /\ DOMAIN v = {k}
    BY <1>4 DEF Signal, Cells, Present, Absent, Set, WritesCell
  <2> HIDE DEF v
  <2>2. /\ Transaction(p)
        /\ \A c \in Cells : clock'[p][c] # clock[p][c] =>
               /\ c \in DOMAIN v /\ clock'[p][c].cv = clock[p][c].cv + 1
               /\ clock'[p][c].val = v[c] /\ clock'[p][c].ver = dbv[p] + 1
    BY <2>1, WriteAdvances
  <2>3. cursor' = cursor
    BY <2>1 DEF LocalWrite
  <2>4. \A c \in DOMAIN v : c = k /\ c[2] # "claim"
    BY <2>1
  <2> QED  BY <2>1, <2>2, <2>3, <2>4
<1> QED  BY <1>2, <1>3, <1>4

\* Every step leaves the tables alone or is a transaction of one peer.
LEMMA StepTransaction ==
    ASSUME ConstantsAssumption, TypeOK, [Next]_vars
    PROVE  UNCHANGED database \/ \E p \in Peers : Transaction(p)
<1>1. CASE LocalStep
  BY <1>1, LocalAdvances DEF LocalStep, TypeOK
<1>2. CASE AcceptStep
  <2>1. PICK b \in UnderWay : IsBatch(b) /\ Accept(b.to, b.from, b)
    BY <1>2 DEF AcceptStep
  <2>2. b.to \in Peers /\ b.from \in Peers
    BY <2>1 DEF IsBatch
  <2> QED  BY <2>1, <2>2, AcceptAdvances DEF TypeOK
<1> QED  BY <1>1, <1>2, StepShape DEF SendStep, QuietStep

\* A peer's cells only move up the last-writer-wins order, whatever is
\* delivered late or again.
THEOREM CellsAlwaysAdvance == Spec => CellsOnlyAdvance
<1>1. TypeOK /\ [Next]_vars =>
          [\A p \in Peers, c \in Cells : Content(p, c)' # Content(p, c) => Advances(p, c)]_vars
  <2> SUFFICES ASSUME TypeOK, [Next]_vars,
                      NEW p \in Peers, NEW c \in Cells, clock'[p][c] # clock[p][c]
               PROVE  Advances(p, c)
    BY DEF Content
  <2> QED  BY ConstantsAssumption, StepTransaction DEF Transaction, database
<1> QED  BY <1>1, TypeCorrect, PTL DEF Spec, CellsOnlyAdvance

\* Without news for a peer its version and its log stay where they are, so
\* echoes and redeliveries come to rest.
THEOREM OnlyNewsIsLogged == Spec => OnlyNewsMintsVersions
<1>1. TypeOK /\ [Next]_vars =>
          [\A p \in Peers : dbv'[p] # dbv[p] \/ log'[p] # log[p] =>
               \E c \in Cells : Advances(p, c)]_vars
  <2> SUFFICES ASSUME TypeOK, [Next]_vars, NEW p \in Peers,
                      dbv'[p] # dbv[p] \/ log'[p] # log[p]
               PROVE  \E c \in Cells : Advances(p, c)
    OBVIOUS
  <2> QED  BY ConstantsAssumption, StepTransaction DEF Transaction, database
<1> QED  BY <1>1, TypeCorrect, PTL DEF Spec, OnlyNewsMintsVersions

(***************************************************************************)
(* Cursors and claims.  A cursor is set from a batch, so the batches under *)
(* way have to name logged versions too.  A claim is written once, by its  *)
(* home, and copied: there is nothing newer to overwrite it with, so at    *)
(* its home it keeps the version under which it was logged.                *)
(***************************************************************************)

BatchLogged(b) == b.max > 0 => <<b.max, b.ns>> \in log[b.from]

Ledger == CursorIsLogged /\ \A b \in UnderWay : BatchLogged(b)

WrittenOnce(r) == r.cv = 1 /\ r.val = Set

ClaimsAreCopies ==
    /\ \A p \in Peers, m \in Memories : Present(clock[p], m, "claim") =>
           WrittenOnce(clock[p][<<m, "claim">>]) /\ Present(clock[HomeOf[m]], m, "claim")
    /\ \A b \in UnderWay, m \in Memories : <<m, "claim">> \in DOMAIN b.rows =>
           WrittenOnce(b.rows[<<m, "claim">>]) /\ Present(clock[HomeOf[m]], m, "claim")

Claims == ClaimsAreCopies /\ OwnClaimsLogged /\ ForeignClaimsVerified

\* What ExtractBatch picks are rows the sender has, up to a version it logged.
LEMMA ExtractedRows ==
    ASSUME DatabaseOK, NEW p \in Peers, NEW q \in Peers, NEW n \in Namespaces
    PROVE  LET b == ExtractBatch(p, q, n)
           IN  /\ b.from = p /\ DOMAIN b.rows \subseteq Cells
               /\ \A c \in DOMAIN b.rows : b.rows[c] = clock[p][c] /\ clock[p][c] # Absent
               /\ BatchLogged(b)
<1> DEFINE page == Page(p, q, n)
           S == page \cup {0}
           rows == Restrict(clock[p], ChangedAt(p, page))
<1>1. dbv[p] \in Nat /\ log[p] \subseteq (1 .. dbv[p]) \X Namespaces
      /\ clock[p] \in [Cells -> ClockRows(dbv[p])]
  BY DEF DatabaseOK
<1>2. page \subseteq 1 .. dbv[p] /\ \A v \in page : <<v, n>> \in log[p]
  BY <1>1 DEF Page, Lowest, Pending
<1>3. S \in SUBSET (0 .. dbv[p]) /\ S # {}
  <2>1. page \subseteq 0 .. dbv[p] /\ 0 \in 0 .. dbv[p]
    BY <1>1, <1>2
  <2> HIDE DEF page
  <2> QED  BY <2>1
<1>4. Max(S) \in S
  <2> HIDE DEF S
  <2> QED  BY <1>1, <1>3, MaxOfBounded
<1>5. Max(S) > 0 => <<Max(S), n>> \in log[p]
  <2>1. CASE Max(S) = 0
    BY <2>1
  <2>2. CASE Max(S) \in page
    BY <1>2, <2>2
  <2> QED  BY <1>4, <2>1, <2>2
<1>6. \A c \in ChangedAt(p, page) : c \in Cells /\ clock[p][c] # Absent
  <2>1. 0 \notin page
    BY <1>1, <1>2
  <2> HIDE DEF page
  <2> QED  BY <2>1 DEF ChangedAt, Absent
<1>7. DOMAIN rows \subseteq Cells
      /\ \A c \in DOMAIN rows : rows[c] = clock[p][c] /\ clock[p][c] # Absent
  BY <1>6 DEF Restrict
<1> HIDE DEF rows, S, page
<1>8. ExtractBatch(p, q, n) = [from |-> p, to |-> q, ns |-> n, max |-> Max(S), rows |-> rows]
  BY DEF ExtractBatch, S, rows, page
<1> QED  BY <1>5, <1>7, <1>8 DEF BatchLogged

\* Nothing that was logged is forgotten.
LEMMA LogGrows ==
    ASSUME ConstantsAssumption, TypeOK, [Next]_vars, NEW p \in Peers
    PROVE  log[p] \subseteq log'[p]
  BY StepTransaction DEF Transaction, database

\* Nothing that is here goes away.
LEMMA PresentStays ==
    ASSUME ConstantsAssumption, TypeOK, [Next]_vars, NEW p \in Peers, NEW m \in Memories,
           NEW k \in {"claim", "lifecycle", "signal"}, Present(clock[p], m, k)
    PROVE  Present(clock'[p], m, k)
<1> DEFINE c == <<m, k>>
<1>1. c \in Cells /\ clock[p][c].cv \in Nat /\ clock[p][c].val \in Nat
  BY DEF Cells, TypeOK, DatabaseOK, ClockRows
<1>2. CASE clock'[p][c] = clock[p][c]
  BY <1>2 DEF Present
<1>3. CASE Advances(p, c)
  BY <1>1, <1>3 DEF Advances, Present, Absent
<1> QED  BY <1>1, <1>2, <1>3, StepTransaction DEF Transaction, database

\* The cursors and the batches under way name versions that were logged.
LEMMA LedgerNext ==
    ASSUME ConstantsAssumption, TypeOK, Ledger, [Next]_vars
    PROVE  Ledger'
<1>1. \A p \in Peers : log[p] \subseteq log'[p]
  BY LogGrows
<1>2. \A b \in UnderWay : b.from \in Peers
  BY DEF UnderWay, TypeOK, SessionsOK, LateOK, IsSession, Idle, IsBatch
<1>3. \A b \in UnderWay : BatchLogged(b)'
  BY <1>1, <1>2 DEF Ledger, BatchLogged
<1>4. cursor' = cursor => CursorIsLogged'
  BY <1>1 DEF Ledger, CursorIsLogged
<1>5. CASE LocalStep
  <2>1. cursor' = cursor
    BY <1>5, LocalAdvances DEF LocalStep, TypeOK
  <2> QED  BY <1>3, <1>4, <1>5, <2>1 DEF LocalStep, Ledger
<1>6. CASE SendStep
  <2>1. PICK p \in Peers, q \in Peers, n \in Namespaces :
           UnderWay' = UnderWay \cup {ExtractBatch(p, q, n)}
    BY <1>6 DEF SendStep
  <2>2. PICK b : b = ExtractBatch(p, q, n)
    OBVIOUS
  <2>3. UnderWay' = UnderWay \cup {b} /\ b.from \in Peers /\ BatchLogged(b)
    BY <2>1, <2>2, ExtractedRows DEF TypeOK
  <2>4. BatchLogged(b)'
    BY <1>1, <2>3 DEF BatchLogged
  <2> QED  BY <1>3, <1>4, <1>6, <2>3, <2>4 DEF SendStep, Ledger
<1>7. CASE AcceptStep
  <2>1. PICK b \in UnderWay : IsBatch(b) /\ Accept(b.to, b.from, b)
    BY <1>7 DEF AcceptStep
  <2>2. /\ b.to \in Peers /\ b.from \in Peers /\ b.ns \in Namespaces
        /\ cursor' = IF b.max > 0 THEN [cursor EXCEPT ![b.to][b.from][b.ns] = b.max] ELSE cursor
    BY <2>1 DEF IsBatch, Accept
  <2>3. b.max > 0 => <<b.max, b.ns>> \in log'[b.from]
    BY <1>1, <2>2 DEF Ledger, BatchLogged
  <2>4. CursorIsLogged'
    <3> SUFFICES ASSUME NEW x \in Peers, NEW y \in Peers, NEW n \in Namespaces,
                        cursor'[x][y][n] > 0
                 PROVE  <<cursor'[x][y][n], n>> \in log'[y]
      BY DEF CursorIsLogged
    <3>1. cursor \in [Peers -> [Peers -> [Namespaces -> Nat]]]
      BY DEF TypeOK, DatabaseOK
    <3>2. \/ cursor'[x][y][n] = cursor[x][y][n]
          \/ b.max > 0 /\ y = b.from /\ n = b.ns /\ cursor'[x][y][n] = b.max
      BY <2>2, <3>1
    <3> QED  BY <1>1, <2>3, <3>2 DEF Ledger, CursorIsLogged
  <2> QED  BY <1>3, <1>7, <2>4 DEF AcceptStep, Ledger
<1>8. CASE QuietStep
  BY <1>3, <1>4, <1>8 DEF QuietStep, Ledger
<1> QED  BY <1>5, <1>6, <1>7, <1>8, StepShape

\* Cursors name logged versions, for any losses, repetitions and late batches.
THEOREM CursorsAreLogged == Spec => []CursorIsLogged
<1>1. Init => Ledger
  BY DEF Init, Ledger, CursorIsLogged, UnderWay, Idle
<1>2. TypeOK /\ Ledger /\ [Next]_vars => Ledger'
  BY ConstantsAssumption, LedgerNext
<1>3. Ledger => CursorIsLogged
  BY DEF Ledger
<1> QED  BY <1>1, <1>2, <1>3, TypeCorrect, PTL DEF Spec

\* A step at a single claim cell: nothing changed, the home wrote it, or it was
\* copied from a batch that was checked.
LEMMA ClaimStep ==
    ASSUME ConstantsAssumption, TypeOK, ClaimsAreCopies, [Next]_vars,
           NEW p \in Peers, NEW m \in Memories,
           clock'[p][<<m, "claim">>] # clock[p][<<m, "claim">>]
    PROVE  \/ HomeOf[m] = p /\ WrittenClaim(p, m) /\ <<dbv[p] + 1, NsOf[m]>> \in log'[p]
           \/ /\ HomeOf[m] # p /\ Verifies(p, m) /\ Present(clock[HomeOf[m]], m, "claim")
              /\ WrittenOnce(clock'[p][<<m, "claim">>])
<1> DEFINE c == <<m, "claim">>
<1>1. c \in Cells /\ clock[p] \in [Cells -> ClockRows(dbv[p])]
  BY DEF Cells, TypeOK, DatabaseOK
<1>2. CASE LocalStep
  <2>1. PICK x \in Peers, y \in Memories : Store(x, y) \/ Supersede(x, y) \/ Signal(x, y)
    BY <1>2 DEF LocalStep
  <2>2. x = p
    <3>1. Transaction(x)
      BY <2>1, LocalAdvances DEF TypeOK
    <3> QED  BY <3>1 DEF Transaction
  <2>3. /\ c[2] = "claim" => /\ c = <<y, "claim">> /\ HomeOf[y] = p /\ WrittenClaim(p, y)
                             /\ <<dbv[p] + 1, NsOf[y]>> \in log'[p]
    BY <1>1, <2>1, <2>2, LocalAdvances DEF TypeOK
  <2>4. c[2] = "claim" /\ c[1] = m
    OBVIOUS
  <2>5. y = m
    BY <2>3, <2>4
  <2> QED  BY <2>3, <2>4, <2>5
<1>3. CASE AcceptStep
  <2>1. PICK b \in UnderWay : IsBatch(b) /\ Accept(b.to, b.from, b)
    BY <1>3 DEF AcceptStep
  <2>2. b.to \in Peers /\ b.from \in Peers
    BY <2>1 DEF IsBatch
  <2>3. b.to = p
    BY <2>1, <2>2, AcceptAdvances DEF Transaction, TypeOK
  <2>4. /\ c \in DOMAIN b.rows /\ Newer(b.rows[c], clock[p][c])
        /\ clock'[p][c].cv = b.rows[c].cv /\ clock'[p][c].val = b.rows[c].val
    BY <1>1, <2>1, <2>2, <2>3, AcceptAdvances DEF TypeOK
  <2>5. WrittenOnce(b.rows[c]) /\ Present(clock[HomeOf[m]], m, "claim")
    BY <2>4 DEF ClaimsAreCopies
  <2>6. WrittenOnce(clock'[p][c])
    BY <2>4, <2>5 DEF WrittenOnce
  <2>7. HomeOf[m] # p
    <3>1. HomeOf[m] = p => WrittenOnce(clock[p][c])
      BY <2>5 DEF ClaimsAreCopies
    <3> QED  BY <2>4, <2>5, <3>1 DEF WrittenOnce, Newer, Set
  <2>8. Verifies(p, m)
    <3>1. ~Refused(p, b)
      BY <2>1, <2>3 DEF Accept
    <3>2. NodeCells(m) \cap DOMAIN b.rows # {}
      BY <2>4 DEF NodeCells
    <3> QED  BY <2>4, <3>1, <3>2 DEF Refused
  <2> QED  BY <2>5, <2>6, <2>7, <2>8
<1> QED  BY <1>2, <1>3, StepShape DEF SendStep, QuietStep, database

\* Claims stay copies of what their home wrote.
LEMMA ClaimsNext ==
    ASSUME ConstantsAssumption, TypeOK, Claims, [Next]_vars
    PROVE  Claims'
<1>1. ClaimsAreCopies /\ OwnClaimsLogged /\ ForeignClaimsVerified
  BY DEF Claims
<1>2. \A m \in Memories : HomeOf[m] \in Peers
  BY DEF ConstantsAssumption
<1>3. \A p \in Peers, m \in Memories :
         Present(clock[p], m, "claim") => Present(clock'[p], m, "claim")
  BY PresentStays
<1>4. \A p \in Peers, m \in Memories : Present(clock'[p], m, "claim") =>
         WrittenOnce(clock'[p][<<m, "claim">>]) /\ Present(clock'[HomeOf[m]], m, "claim")
  <2> SUFFICES ASSUME NEW p \in Peers, NEW m \in Memories, Present(clock'[p], m, "claim")
               PROVE  WrittenOnce(clock'[p][<<m, "claim">>])
                      /\ Present(clock'[HomeOf[m]], m, "claim")
    OBVIOUS
  <2> DEFINE c == <<m, "claim">>
  <2>1. CASE clock'[p][c] = clock[p][c]
    BY <1>1, <1>2, <1>3, <2>1 DEF ClaimsAreCopies, Present
  <2>2. CASE clock'[p][c] # clock[p][c]
    BY <1>1, <1>2, <1>3, <2>2, ClaimStep DEF WrittenClaim, WrittenOnce
  <2> QED  BY <2>1, <2>2
<1>5. \A b \in UnderWay', m \in Memories : <<m, "claim">> \in DOMAIN b.rows =>
         WrittenOnce(b.rows[<<m, "claim">>]) /\ Present(clock'[HomeOf[m]], m, "claim")
  <2> SUFFICES ASSUME NEW b \in UnderWay', NEW m \in Memories, <<m, "claim">> \in DOMAIN b.rows
               PROVE  WrittenOnce(b.rows[<<m, "claim">>])
                      /\ Present(clock'[HomeOf[m]], m, "claim")
    OBVIOUS
  <2>1. CASE b \in UnderWay
    BY <1>1, <1>2, <1>3, <2>1 DEF ClaimsAreCopies
  <2>2. CASE \E p, q \in Peers, n \in Namespaces : b = ExtractBatch(p, q, n)
    <3>1. PICK p \in Peers, q \in Peers, n \in Namespaces : b = ExtractBatch(p, q, n)
      BY <2>2
    <3>2. b.rows[<<m, "claim">>] = clock[p][<<m, "claim">>] /\ Present(clock[p], m, "claim")
      BY <3>1, ExtractedRows DEF TypeOK, Present
    <3> QED  BY <1>1, <1>2, <1>3, <3>2 DEF ClaimsAreCopies
  <2>3. UnderWay' = UnderWay \/ UnderWay' \subseteq UnderWay
        \/ \E p, q \in Peers, n \in Namespaces : UnderWay' = UnderWay \cup {ExtractBatch(p, q, n)}
    BY StepShape DEF LocalStep, SendStep, AcceptStep, QuietStep
  <2> QED  BY <2>1, <2>2, <2>3
<1>6. OwnClaimsLogged'
  <2> SUFFICES ASSUME NEW m \in Memories, clock'[HomeOf[m]][<<m, "claim">>] # Absent
               PROVE  <<clock'[HomeOf[m]][<<m, "claim">>].ver, NsOf[m]>> \in log'[HomeOf[m]]
    BY DEF OwnClaimsLogged
  <2> DEFINE h == HomeOf[m]
             c == <<m, "claim">>
  <2>1. CASE clock'[h][c] = clock[h][c]
    <3>1. <<clock[h][c].ver, NsOf[m]>> \in log[h]
      BY <1>1, <2>1 DEF OwnClaimsLogged
    <3>2. log[h] \subseteq log'[h]
      BY <1>2, LogGrows
    <3> QED  BY <2>1, <3>1, <3>2
  <2>2. CASE clock'[h][c] # clock[h][c]
    BY <1>1, <1>2, <2>2, ClaimStep DEF WrittenClaim
  <2> QED  BY <2>1, <2>2
<1>7. ForeignClaimsVerified'
  <2> SUFFICES ASSUME NEW p \in Peers, NEW m \in Memories, Present(clock'[p], m, "claim")
               PROVE  HomeOf[m] = p \/ Verifies(p, m)
    BY DEF ForeignClaimsVerified, Verifies
  <2>1. CASE clock'[p][<<m, "claim">>] = clock[p][<<m, "claim">>]
    BY <1>1, <2>1 DEF ForeignClaimsVerified, Present
  <2>2. CASE clock'[p][<<m, "claim">>] # clock[p][<<m, "claim">>]
    BY <1>1, <2>2, ClaimStep
  <2> QED  BY <2>1, <2>2
<1>8. ClaimsAreCopies'
  BY <1>4, <1>5 DEF ClaimsAreCopies
<1> QED  BY <1>6, <1>7, <1>8 DEF Claims

\* There are no claims in the empty databases.
LEMMA ClaimsInit == ConstantsAssumption /\ Init => Claims
  BY DEF Init, Claims, ClaimsAreCopies, OwnClaimsLogged, ForeignClaimsVerified, Present,
         UnderWay, Idle, Cells, ConstantsAssumption

\* Claims are copies of what their home wrote, in every state.
LEMMA ClaimsAlways == Spec => []Claims
<1>1. Init => Claims
  BY ConstantsAssumption, ClaimsInit
<1>2. TypeOK /\ Claims /\ [Next]_vars => Claims'
  BY ConstantsAssumption, ClaimsNext
<1> QED  BY <1>1, <1>2, TypeCorrect, PTL DEF Spec

\* A peer's own memories stay extractable under their namespace.
THEOREM OwnClaimsAlwaysLogged == Spec => []OwnClaimsLogged
<1>1. Claims => OwnClaimsLogged
  BY DEF Claims
<1> QED  BY <1>1, ClaimsAlways, PTL

\* No relay, loss or late batch gets an unverified claim into a database.
THEOREM ForeignClaimsAlwaysVerified == Spec => []ForeignClaimsVerified
<1>1. Claims => ForeignClaimsVerified
  BY DEF Claims
<1> QED  BY <1>1, ClaimsAlways, PTL

(***************************************************************************)
(* The refinement.  A cell's last-writer-wins order is that of Replicas,   *)
(* so a local write is an Author_Write, an extracted batch a Send, an      *)
(* accepted one a Receive, and every other step at most loses snapshots.   *)
(***************************************************************************)

\* Every peer's tables map to a function on the peers.
LEMMA AbstractTable ==
    ASSUME DatabaseOK, NEW p \in Peers
    PROVE  /\ DOMAIN clock = Peers /\ DOMAIN clock[p] = Cells
           /\ Stripped(clock[p]) = [c \in Cells |-> [cv |-> clock[p][c].cv, val |-> clock[p][c].val]]
  BY DEF DatabaseOK, Stripped

\* The empty databases are empty replicas.
LEMMA RefinesInit == ConstantsAssumption /\ Init => Replicas!Init
<1> SUFFICES ASSUME ConstantsAssumption, Init PROVE Replicas!Init
  OBVIOUS
<1>1. UnderWay = {}
  BY DEF Init, UnderWay, Idle
<1>2. \A p \in Peers : Stripped(clock[p]) = [c \in Cells |-> [cv |-> 0, val |-> 0]]
  BY DEF Init, Stripped, Absent
<1> QED  BY <1>1, <1>2 DEF Replicas!Init, Replicas!Bottom

\* A local write is a write by an author.
LEMMA RefinesWrite ==
    ASSUME ConstantsAssumption, TypeOK, TypeOK', LocalStep
    PROVE  \E p \in Peers : Replicas!Author_Write(p)
<1>1. PICK p \in Peers, m \in Memories : Store(p, m) \/ Supersede(p, m) \/ Signal(p, m)
  BY DEF LocalStep
<1>2. /\ \A x \in Peers \ {p} : clock'[x] = clock[x]
      /\ \A c \in Cells : clock'[p][c] # clock[p][c] =>
             WritesCell(p, c) /\ clock'[p][c].cv = clock[p][c].cv + 1
  BY <1>1, LocalAdvances DEF TypeOK, Transaction
<1>3. DOMAIN clock[p] = Cells /\ DOMAIN clock'[p] = Cells
  BY DEF TypeOK, DatabaseOK
<1>4. \A x \in Peers \ {p} : Stripped(clock'[x]) = Stripped(clock[x])
  BY <1>2 DEF Stripped
<1>5. \A c \in Cells : Stripped(clock'[p])[c] # Stripped(clock[p])[c] =>
          WritesCell(p, c) /\ Stripped(clock'[p])[c].cv = Stripped(clock[p])[c].cv + 1
  BY <1>2, <1>3 DEF Stripped
<1>6. UnderWay' = UnderWay
  BY DEF LocalStep
<1> QED  BY <1>4, <1>5, <1>6 DEF Replicas!Author_Write, Replicas!OnlyAt

\* An extracted batch is a snapshot that leaves its sender.
LEMMA RefinesSend ==
    ASSUME ConstantsAssumption, TypeOK, SendStep
    PROVE  \E p \in Peers : Replicas!Send(p)
<1>1. PICK p \in Peers, q \in Peers, n \in Namespaces :
         UnderWay' = UnderWay \cup {ExtractBatch(p, q, n)}
  BY DEF SendStep
<1>2. PICK b : b = ExtractBatch(p, q, n)
  OBVIOUS
<1>3. UnderWay' = UnderWay \cup {b} /\ DOMAIN b.rows \subseteq Cells
      /\ \A c \in DOMAIN b.rows : b.rows[c] = clock[p][c]
  BY <1>1, <1>2, ExtractedRows DEF TypeOK
<1>4. \A c \in DOMAIN Stripped(b.rows) : Stripped(b.rows)[c] = Stripped(clock[p])[c]
  BY <1>3, AbstractTable DEF Stripped, TypeOK
<1>5. {Stripped(x.rows) : x \in UnderWay \cup {b}} =
         {Stripped(x.rows) : x \in UnderWay} \cup {Stripped(b.rows)}
  OBVIOUS
<1>6. UNCHANGED [x \in Peers |-> Stripped(clock[x])]
  <2>1. clock' = clock
    BY DEF SendStep, database
  <2>2. \A x \in Peers : Stripped(clock'[x]) = Stripped(clock[x])
    BY <2>1
  <2> QED  BY <2>2
<1>7. \A c \in DOMAIN Stripped(b.rows) :
         Stripped(b.rows)[c] = [x \in Peers |-> Stripped(clock[x])][p][c]
  BY <1>4
<1>8. {Stripped(x.rows) : x \in UnderWay'} =
         {Stripped(x.rows) : x \in UnderWay} \cup {Stripped(b.rows)}
  BY <1>3, <1>5
<1>9. /\ {Stripped(x.rows) : x \in UnderWay}' = {Stripped(x.rows) : x \in UnderWay'}
      /\ Stripped(b.rows) \in {Stripped(x.rows) : x \in UnderWay'}
  BY <1>8
<1>10. Replicas!Send(p)
  BY ONLY <1>6, <1>7, <1>8, <1>9, Zenon DEF Replicas!Send
<1> QED  BY <1>10

\* Merging the rows of a batch joins them.
LEMMA MergeJoins ==
    ASSUME NEW table, DOMAIN table = Cells, NEW v, NEW rows, DOMAIN rows \subseteq Cells
    PROVE  Stripped(Merge(table, v, rows)) = Replicas!Join(Stripped(table), Stripped(rows))
<1> DEFINE merged == Merge(table, v, rows)
<1>1. DOMAIN merged = Cells
  BY DEF Merge
<1>2. ASSUME NEW c \in Cells
      PROVE  [cv |-> merged[c].cv, val |-> merged[c].val] =
                 Replicas!Join(Stripped(table), Stripped(rows))[c]
  <2>1. CASE c \in Won(table, rows)
    <3>1. c \in DOMAIN rows /\ Newer(rows[c], table[c]) /\ merged[c] = Stamped(v, rows[c])
      BY <2>1 DEF Won, Merge
    <3>2. merged[c].cv = rows[c].cv /\ merged[c].val = rows[c].val
      BY <3>1 DEF Stamped
    <3> QED  BY <3>1, <3>2 DEF Newer, Stripped, Replicas!Join, Replicas!Above
  <2>2. CASE c \notin Won(table, rows)
    <3>1. merged[c] = table[c] /\ (c \in DOMAIN rows => ~Newer(rows[c], table[c]))
      BY <2>2 DEF Won, Merge
    <3> QED  BY <3>1 DEF Newer, Stripped, Replicas!Join, Replicas!Above
  <2> QED  BY <2>1, <2>2
<1> QED  BY <1>1, <1>2 DEF Stripped, Replicas!Join

\* An accepted batch is a snapshot that is joined.
LEMMA RefinesAccept ==
    ASSUME ConstantsAssumption, TypeOK, AcceptStep
    PROVE  \E p \in Peers : Replicas!Receive(p)
<1>1. PICK b \in UnderWay : IsBatch(b) /\ Accept(b.to, b.from, b)
  BY DEF AcceptStep
<1>2. PICK p \in Peers : p = b.to
  BY <1>1 DEF IsBatch
<1>3. /\ DOMAIN clock = Peers /\ DOMAIN clock[p] = Cells /\ DOMAIN b.rows \subseteq Cells
      /\ clock' = [clock EXCEPT ![p] = Merge(clock[p], dbv[p], b.rows)]
  BY <1>1, <1>2 DEF Accept, IsBatch, TypeOK, DatabaseOK
<1>4. Stripped(clock'[p]) = Replicas!Join(Stripped(clock[p]), Stripped(b.rows))
  BY <1>3, MergeJoins
<1>5. \A x \in Peers : x # p => clock'[x] = clock[x]
  BY <1>3
<1> DEFINE t == [x \in Peers |-> Stripped(clock[x])]
           u == [x \in Peers |-> Stripped(clock'[x])]
<1>6. u = [t EXCEPT ![p] = Replicas!Join(@, Stripped(b.rows))]
  BY <1>4, <1>5
<1>7. Stripped(b.rows) \in {Stripped(x.rows) : x \in UnderWay}
  BY <1>1
<1>8. {Stripped(x.rows) : x \in UnderWay'} \subseteq {Stripped(x.rows) : x \in UnderWay}
  BY DEF AcceptStep
<1> QED  BY <1>6, <1>7, <1>8 DEF Replicas!Receive

\* A step that changes no table loses snapshots at most.
LEMMA RefinesQuiet ==
    ASSUME QuietStep PROVE Replicas!Lose
<1>1. clock' = clock /\ UnderWay' \subseteq UnderWay
  BY DEF QuietStep, database
<1>2. {Stripped(x.rows) : x \in UnderWay'} \subseteq {Stripped(x.rows) : x \in UnderWay}
  BY <1>1
<1> QED  BY <1>1, <1>2 DEF Replicas!Lose

\* The sync protocol implements last-writer-wins replicas: cells are written by
\* their authors alone, and a peer otherwise changes its tables only by joining
\* a snapshot some peer took of its own, however late or often it arrives.
THEOREM Refinement == Spec => ImplementsReplicas
<1>1. Init => Replicas!Init
  BY ConstantsAssumption, RefinesInit
<1>2. TypeOK /\ TypeOK' /\ [Next]_vars =>
         [Replicas!Next]_<<[p \in Peers |-> Stripped(clock[p])],
                           {Stripped(b.rows) : b \in UnderWay}>>
  <2> SUFFICES ASSUME TypeOK, TypeOK', [Next]_vars PROVE Replicas!Next
    OBVIOUS
  <2>1. CASE LocalStep
    BY <2>1, ConstantsAssumption, RefinesWrite DEF Replicas!Next
  <2>2. CASE SendStep
    BY <2>2, ConstantsAssumption, RefinesSend DEF Replicas!Next
  <2>3. CASE AcceptStep
    BY <2>3, ConstantsAssumption, RefinesAccept DEF Replicas!Next
  <2>4. CASE QuietStep
    BY <2>4, RefinesQuiet DEF Replicas!Next
  <2> QED  BY <2>1, <2>2, <2>3, <2>4, ConstantsAssumption, StepShape
<1> QED  BY <1>1, <1>2, TypeCorrect, PTL DEF Spec, ImplementsReplicas, Replicas!Spec

(***************************************************************************)
(* Authors lead.                                                           *)
(***************************************************************************)

\* Row r of cell c is no newer than what some author of c holds in tables t.
Led(t, c, r) ==
    \/ r.cv = 0 /\ r.val = 0
    \/ \E a \in Peers : WritesCell(a, c) /\ ~Newer(r, t[a][c])

Leads ==
    /\ \A p \in Peers, c \in Cells : Led(clock, c, clock[p][c])
    /\ \A b \in UnderWay : \A c \in DOMAIN b.rows : Led(clock, c, b.rows[c])

\* A row that is led stays so, because the author's cell only advances.
LEMMA LedStays ==
    ASSUME ConstantsAssumption, TypeOK, TypeOK', [Next]_vars, NEW c \in Cells,
           NEW r, r.cv \in Nat, r.val \in Nat, Led(clock, c, r)
    PROVE  Led(clock', c, r)
<1>1. CASE r.cv = 0 /\ r.val = 0
  BY <1>1 DEF Led
<1>2. CASE \E a \in Peers : WritesCell(a, c) /\ ~Newer(r, clock[a][c])
  <2>1. PICK a \in Peers : WritesCell(a, c) /\ ~Newer(r, clock[a][c])
    BY <1>2
  <2>2. /\ clock[a][c].cv \in Nat /\ clock[a][c].val \in Nat
        /\ clock'[a][c].cv \in Nat /\ clock'[a][c].val \in Nat
    BY DEF TypeOK, DatabaseOK, ClockRows
  <2>3. clock'[a][c] = clock[a][c] \/ Advances(a, c)
    BY StepTransaction DEF Transaction, database
  <2>4. ~Newer(r, clock'[a][c])
    BY <2>1, <2>2, <2>3 DEF Newer, Advances
  <2> QED  BY <2>1, <2>4 DEF Led
<1> QED  BY <1>1, <1>2 DEF Led

\* The batches under way carry rows of naturals.
LEMMA WireRows ==
    ASSUME TypeOK, NEW b \in UnderWay
    PROVE  /\ IsBatch(b) /\ DOMAIN b.rows \subseteq Cells
           /\ \A c \in DOMAIN b.rows : b.rows[c].cv \in Nat /\ b.rows[c].val \in Nat
<1>1. IsBatch(b)
  BY DEF UnderWay, TypeOK, SessionsOK, LateOK, IsSession, Idle
<1> QED  BY <1>1 DEF IsBatch, ClockRows

\* Every row, in a table or under way, stays led.
LEMMA LeadsNext ==
    ASSUME ConstantsAssumption, TypeOK, TypeOK', Leads, [Next]_vars
    PROVE  Leads'
<1>1. \A p \in Peers, c \in Cells : /\ clock[p][c].cv \in Nat /\ clock[p][c].val \in Nat
                                    /\ clock'[p][c].cv \in Nat /\ clock'[p][c].val \in Nat
  BY DEF TypeOK, DatabaseOK, ClockRows
<1>2. \A b \in UnderWay : \A c \in DOMAIN b.rows : c \in Cells /\ Led(clock', c, b.rows[c])
  BY WireRows, LedStays DEF Leads
<1>3. \A p \in Peers, c \in Cells : Led(clock', c, clock[p][c])
  BY <1>1, LedStays DEF Leads
<1>4. \A p \in Peers, c \in Cells : Led(clock', c, clock'[p][c])
  <2> SUFFICES ASSUME NEW p \in Peers, NEW c \in Cells, clock'[p][c] # clock[p][c]
               PROVE  Led(clock', c, clock'[p][c])
    BY <1>3
  <2>1. CASE LocalStep
    <3>1. PICK x \in Peers, m \in Memories : Store(x, m) \/ Supersede(x, m) \/ Signal(x, m)
      BY <2>1 DEF LocalStep
    <3>2. x = p
      <4>1. Transaction(x)
        BY <3>1, LocalAdvances DEF TypeOK
      <4> QED  BY <4>1 DEF Transaction
    <3>3. WritesCell(p, c)
      BY <3>1, <3>2, LocalAdvances DEF TypeOK
    <3>4. ~Newer(clock'[p][c], clock'[p][c])
      BY <1>1 DEF Newer
    <3> QED  BY <3>3, <3>4 DEF Led
  <2>2. CASE AcceptStep
    <3>1. PICK b \in UnderWay : IsBatch(b) /\ Accept(b.to, b.from, b)
      BY <2>2 DEF AcceptStep
    <3>2. b.to \in Peers /\ b.from \in Peers
      BY <3>1 DEF IsBatch
    <3>3. b.to = p
      BY <3>1, <3>2, AcceptAdvances DEF Transaction, TypeOK
    <3>4. /\ c \in DOMAIN b.rows
          /\ clock'[p][c].cv = b.rows[c].cv /\ clock'[p][c].val = b.rows[c].val
      BY <3>1, <3>2, <3>3, AcceptAdvances DEF TypeOK
    <3>5. Led(clock', c, b.rows[c])
      BY <1>2, <3>4
    <3> QED  BY <3>4, <3>5 DEF Led, Newer
  <2> QED  BY <2>1, <2>2, StepShape DEF SendStep, QuietStep, database
<1>5. \A b \in UnderWay' : \A c \in DOMAIN b.rows : Led(clock', c, b.rows[c])
  <2>1. ASSUME NEW p \in Peers, NEW q \in Peers, NEW n \in Namespaces, NEW b,
               b = ExtractBatch(p, q, n), NEW c \in DOMAIN b.rows
        PROVE  Led(clock', c, b.rows[c])
    <3>1. c \in Cells /\ b.rows[c] = clock[p][c]
      BY <2>1, ExtractedRows DEF TypeOK
    <3> QED  BY <1>3, <3>1
  <2>2. UnderWay' = UnderWay \/ UnderWay' \subseteq UnderWay
        \/ \E p, q \in Peers, n \in Namespaces : UnderWay' = UnderWay \cup {ExtractBatch(p, q, n)}
    BY StepShape DEF LocalStep, SendStep, AcceptStep, QuietStep
  <2>3. CASE UnderWay' \subseteq UnderWay
    BY <1>2, <2>3
  <2>4. ASSUME NEW p \in Peers, NEW q \in Peers, NEW n \in Namespaces,
               UnderWay' = UnderWay \cup {ExtractBatch(p, q, n)}
        PROVE  \A b \in UnderWay' : \A c \in DOMAIN b.rows : Led(clock', c, b.rows[c])
    <3> SUFFICES ASSUME NEW b \in UnderWay' PROVE \A c \in DOMAIN b.rows : Led(clock', c, b.rows[c])
      OBVIOUS
    <3>1. b \in UnderWay \/ b = ExtractBatch(p, q, n)
      BY <2>4
    <3> QED  BY <1>2, <2>1, <3>1
  <2> QED  BY <2>2, <2>3, <2>4
<1> QED  BY <1>4, <1>5 DEF Leads

\* No peer ever holds a cell that is ahead of what all of its authors hold, for
\* any number of relays, repetitions and late batches.
THEOREM AuthorsAlwaysLead == Spec => []AuthorsLead
<1>1. Init => Leads
  BY DEF Init, Leads, Led, Absent, UnderWay, Idle
<1>2. TypeOK /\ TypeOK' /\ Leads /\ [Next]_vars => Leads'
  BY ConstantsAssumption, LeadsNext
<1>3. TypeOK /\ Leads => AuthorsLead
  <2> SUFFICES ASSUME TypeOK, Leads, NEW p \in Peers, NEW c \in Cells,
                      Stripped(clock[p])[c] # Replicas!Bottom
               PROVE  \E a \in Peers :
                         /\ WritesCell(a, c)
                         /\ ~Replicas!Above(Stripped(clock[p])[c], Stripped(clock[a])[c])
    BY DEF AuthorsLead, Replicas!AuthorsLead
  <2>1. \A x \in Peers : Stripped(clock[x])[c] = [cv |-> clock[x][c].cv, val |-> clock[x][c].val]
    BY AbstractTable DEF TypeOK
  <2>2. ~(clock[p][c].cv = 0 /\ clock[p][c].val = 0)
    BY <2>1 DEF Replicas!Bottom
  <2>3. PICK a \in Peers : WritesCell(a, c) /\ ~Newer(clock[p][c], clock[a][c])
    BY <2>2 DEF Leads, Led
  <2>4. ~Replicas!Above(Stripped(clock[p])[c], Stripped(clock[a])[c])
    <3>1. PICK u : u = Stripped(clock[p])[c]
      OBVIOUS
    <3>2. PICK v : v = Stripped(clock[a])[c]
      OBVIOUS
    <3>3. /\ u.cv = clock[p][c].cv /\ u.val = clock[p][c].val
          /\ v.cv = clock[a][c].cv /\ v.val = clock[a][c].val
      <4>1. u = [cv |-> clock[p][c].cv, val |-> clock[p][c].val]
        BY <2>1, <3>1
      <4>2. v = [cv |-> clock[a][c].cv, val |-> clock[a][c].val]
        BY <2>1, <2>3, <3>2
      <4> QED  BY <4>1, <4>2
    <3>4. ~Replicas!Above(u, v)
      BY <2>3, <3>3 DEF Newer, Replicas!Above
    <3> QED  BY <3>1, <3>2, <3>4
  <2> QED  BY <2>3, <2>4
<1> QED  BY <1>1, <1>2, <1>3, TypeCorrect, PTL DEF Spec

(***************************************************************************)
(* A supersede is never seen in part.                                      *)
(*                                                                         *)
(* In every table and every batch under way a memory is marked superseded  *)
(* exactly when a claim that replaces it is there, and the two rows carry  *)
(* the same database version: a page holds both or neither, and a merge    *)
(* takes both or neither.  That needs the memories that replace one memory *)
(* to be of one home.  When two homes replace it, the mark of one can win  *)
(* where only the claim of the other is known.                             *)
(***************************************************************************)
OneReplacer ==
    \A r1, r2 \in Memories :
        Replaces[r1] = Replaces[r2] /\ Replaces[r1] # None => HomeOf[r1] = HomeOf[r2]

Tables == {clock[p] : p \in Peers} \cup {b.rows : b \in UnderWay}

Fragment(t) ==
    DOMAIN t \subseteq Cells /\ \A c \in DOMAIN t : t[c] \in [cv : Nat, val : Nat, ver : Nat]

ClaimIn(t, r) == <<r, "claim">> \in DOMAIN t /\ t[<<r, "claim">>] # Absent

MarkedIn(t, m) == <<m, "lifecycle">> \in DOMAIN t /\ t[<<m, "lifecycle">>].val = Superseded

\* A lifecycle is unwritten, as it was stored, or superseded.
Plain(t, m) ==
    <<m, "lifecycle">> \in DOMAIN t =>
        LET row == t[<<m, "lifecycle">>]
        IN  \/ row.val = Superseded
            \/ row.cv = 0 /\ row.val = 0
            \/ row.cv = 1 /\ row.val = Active

Apart(t, m) == ~MarkedIn(t, m) /\ \A r \in Memories : Replaces[r] = m => ~ClaimIn(t, r)

Together(t, m, r, k) ==
    /\ ClaimIn(t, r) <=> MarkedIn(t, m)
    /\ MarkedIn(t, m) =>
          /\ t[<<m, "lifecycle">>].ver = t[<<r, "claim">>].ver
          /\ t[<<m, "lifecycle">>].cv = k
          /\ t[<<r, "claim">>].cv = 1 /\ t[<<r, "claim">>].val = Set

\* r is the first memory that replaced m, in a transaction that brought m's
\* lifecycle to column version k.
ReplacedBy(m, r, k) ==
    /\ Replaces[r] = m
    /\ ClaimIn(clock[HomeOf[r]], r)
    /\ \A t \in Tables : Together(t, m, r, k)

Successors ==
    \A m \in Memories :
        /\ \A t \in Tables : Plain(t, m)
        /\ \/ \A t \in Tables : Apart(t, m)
           \/ \E r \in Memories, k \in Nat \ {0} : ReplacedBy(m, r, k)

\* What a merge leaves in a cell.
LEMMA MergedCell ==
    ASSUME NEW t, Fragment(t), DOMAIN t = Cells, NEW u, Fragment(u), NEW v \in Nat, NEW c \in Cells
    PROVE  LET x == Merge(t, v, u)[c]
           IN  \/ x = t[c] /\ (c \in DOMAIN u => ~Newer(u[c], t[c]))
               \/ /\ c \in DOMAIN u /\ Newer(u[c], t[c])
                  /\ x.cv = u[c].cv /\ x.val = u[c].val /\ x.ver = Later(v + 1, u[c].ver)
                  /\ x # Absent
<1>1. CASE c \in Won(t, u)
  <2>1. c \in DOMAIN u /\ Newer(u[c], t[c]) /\ Merge(t, v, u)[c] = Stamped(v, u[c])
    BY <1>1 DEF Won, Merge
  <2>2. u[c] \in [cv : Nat, val : Nat, ver : Nat] /\ t[c] \in [cv : Nat, val : Nat, ver : Nat]
    BY <2>1 DEF Fragment
  <2>3. LET x == Stamped(v, u[c])
        IN  x.cv = u[c].cv /\ x.val = u[c].val /\ x.ver = Later(v + 1, u[c].ver)
    BY <2>2 DEF Stamped
  <2>4. ~(u[c].cv = 0 /\ u[c].val = 0)
    BY <2>1, <2>2 DEF Newer
  <2> QED  BY <2>1, <2>3, <2>4 DEF Absent
<1>2. CASE c \notin Won(t, u)
  BY <1>2 DEF Won, Merge
<1> QED  BY <1>1, <1>2

\* A merge keeps lifecycles plain.
LEMMA MergePlain ==
    ASSUME NEW t, Fragment(t), DOMAIN t = Cells, NEW u, Fragment(u), NEW v \in Nat,
           NEW m \in Memories, Plain(t, m), Plain(u, m)
    PROVE  Plain(Merge(t, v, u), m)
<1> DEFINE L == <<m, "lifecycle">>
           x == Merge(t, v, u)[L]
<1>1. L \in Cells
  BY DEF Cells
<1>2. x = t[L] \/ (L \in DOMAIN u /\ x.cv = u[L].cv /\ x.val = u[L].val)
  BY <1>1, MergedCell
<1>3. x.val = Superseded \/ (x.cv = 0 /\ x.val = 0) \/ (x.cv = 1 /\ x.val = Active)
  <2> HIDE DEF x
  <2> QED  BY <1>1, <1>2 DEF Plain
<1> QED  BY <1>3 DEF Plain

\* A claim is in a merged table when it was in one of the two.
LEMMA MergedClaim ==
    ASSUME NEW t, Fragment(t), DOMAIN t = Cells, NEW u, Fragment(u), NEW v \in Nat,
           NEW r \in Memories, ~ClaimIn(t, r), ~ClaimIn(u, r)
    PROVE  ~ClaimIn(Merge(t, v, u), r)
<1> DEFINE C == <<r, "claim">>
<1>1. C \in Cells
  BY DEF Cells
<1>2. t[C] = Absent /\ (C \in DOMAIN u => u[C] = Absent)
  BY <1>1 DEF ClaimIn
<1>3. ~Newer(Absent, Absent)
  BY DEF Newer, Absent
<1>4. Merge(t, v, u)[C] = t[C]
  BY <1>1, <1>2, <1>3, MergedCell
<1> QED  BY <1>2, <1>4 DEF ClaimIn

\* A merge of tables that know of no replacement knows of none.
LEMMA MergeApart ==
    ASSUME NEW t, Fragment(t), DOMAIN t = Cells, NEW u, Fragment(u), NEW v \in Nat,
           NEW m \in Memories, Apart(t, m), Apart(u, m)
    PROVE  Apart(Merge(t, v, u), m)
<1> DEFINE L == <<m, "lifecycle">>
           x == Merge(t, v, u)[L]
<1>1. L \in Cells
  BY DEF Cells
<1>2. x = t[L] \/ (L \in DOMAIN u /\ x.val = u[L].val)
  BY <1>1, MergedCell
<1>3. x.val # Superseded
  <2> HIDE DEF x
  <2> QED  BY <1>1, <1>2 DEF Apart, MarkedIn
<1>4. \A r \in Memories : Replaces[r] = m => ~ClaimIn(Merge(t, v, u), r)
  BY MergedClaim DEF Apart
<1> QED  BY <1>3, <1>4 DEF Apart, MarkedIn

\* A merge takes the mark and the claim, or neither.
LEMMA MergeTogether ==
    ASSUME NEW t, Fragment(t), DOMAIN t = Cells, NEW u, Fragment(u), NEW v \in Nat,
           NEW m \in Memories, NEW r \in Memories, NEW k \in Nat \ {0},
           Plain(t, m), Plain(u, m), Together(t, m, r, k), Together(u, m, r, k)
    PROVE  Together(Merge(t, v, u), m, r, k)
<1> DEFINE L == <<m, "lifecycle">>
           C == <<r, "claim">>
           w == Merge(t, v, u)
<1>1. L \in Cells /\ C \in Cells /\ DOMAIN w = Cells
  BY DEF Cells, Merge
<1>2. /\ t[L].cv \in Nat /\ t[L].val \in Nat /\ t[C].cv \in Nat /\ t[C].val \in Nat
      /\ L \in DOMAIN u => u[L].cv \in Nat /\ u[L].val \in Nat
  BY <1>1 DEF Fragment
<1>3. CASE ~MarkedIn(u, m)
  <2>1. ~ClaimIn(u, r)
    BY <1>3 DEF Together
  <2>2. w[C] = t[C]
    <3>1. C \in DOMAIN u => ~Newer(u[C], t[C])
      BY <1>2, <2>1 DEF ClaimIn, Newer, Absent
    <3> QED  BY <1>1, <3>1, MergedCell
  <2>3. CASE MarkedIn(t, m)
    <3>1. t[L].cv = k /\ t[L].val = 2
      BY <2>3 DEF Together, MarkedIn, Superseded
    <3>2. L \in DOMAIN u => ~Newer(u[L], t[L])
      BY <1>2, <1>3, <3>1 DEF MarkedIn, Plain, Newer, Active, Superseded
    <3>3. w[L] = t[L]
      BY <1>1, <3>2, MergedCell
    <3> QED  BY <1>1, <2>2, <3>3 DEF Together, MarkedIn, ClaimIn
  <2>4. CASE ~MarkedIn(t, m)
    <3>1. w[L] = t[L] \/ (L \in DOMAIN u /\ w[L].val = u[L].val)
      BY <1>1, MergedCell
    <3>2. w[L].val # Superseded
      <4> HIDE DEF w
      <4> QED  BY <1>1, <1>3, <2>4, <3>1 DEF MarkedIn
    <3>3. ~ClaimIn(t, r)
      BY <2>4 DEF Together
    <3> QED  BY <1>1, <2>2, <3>2, <3>3 DEF Together, MarkedIn, ClaimIn
  <2> QED  BY <2>3, <2>4
<1>4. CASE MarkedIn(u, m)
  <2>1. /\ L \in DOMAIN u /\ C \in DOMAIN u /\ u[L].ver = u[C].ver
        /\ u[L].cv = k /\ u[L].val = 2 /\ u[C].cv = 1 /\ u[C].val = 1
    BY <1>4 DEF Together, MarkedIn, ClaimIn, Superseded, Set
  <2>2. CASE MarkedIn(t, m)
    <3>1. t[L].cv = k /\ t[L].val = 2 /\ t[C].cv = 1 /\ t[C].val = 1
      BY <2>2 DEF Together, MarkedIn, Superseded, Set
    <3>2. ~Newer(u[L], t[L]) /\ ~Newer(u[C], t[C])
      BY <2>1, <3>1 DEF Newer
    <3>3. w[L] = t[L] /\ w[C] = t[C]
      BY <1>1, <3>2, MergedCell
    <3> QED  BY <1>1, <3>3 DEF Together, MarkedIn, ClaimIn
  <2>3. CASE ~MarkedIn(t, m)
    <3>1. t[C].cv = 0 /\ t[C].val = 0
      BY <1>1, <2>3 DEF Together, ClaimIn, Absent
    <3>2. (t[L].cv = 0 /\ t[L].val = 0) \/ (t[L].cv = 1 /\ t[L].val = 1)
      BY <1>1, <2>3 DEF Plain, MarkedIn, Active
    <3>3. Newer(u[L], t[L]) /\ Newer(u[C], t[C])
      BY <2>1, <3>1, <3>2 DEF Newer
    <3>4. /\ w[L].cv = k /\ w[L].val = 2 /\ w[L].ver = Later(v + 1, u[L].ver)
          /\ w[C].cv = 1 /\ w[C].val = 1 /\ w[C].ver = Later(v + 1, u[C].ver) /\ w[C] # Absent
      BY <1>1, <2>1, <3>3, MergedCell
    <3>5. w[L].ver = w[C].ver
      BY <2>1, <3>4
    <3> HIDE DEF w
    <3>6. Together(w, m, r, k)
      BY <1>1, <3>4, <3>5 DEF Together, MarkedIn, ClaimIn, Superseded, Set
    <3> QED  BY <3>6 DEF w
  <2> QED  BY <2>2, <2>3
<1> QED  BY <1>3, <1>4

\* The rows of table t that are at one of the versions S.
RowsAt(t, S) == Restrict(t, {c \in Cells : t[c].ver \in S})

\* A page of a table has all three.
LEMMA PageKeeps ==
    ASSUME NEW t, DOMAIN t = Cells, NEW S, NEW m \in Memories
    PROVE  /\ Plain(t, m) => Plain(RowsAt(t, S), m)
           /\ Apart(t, m) => Apart(RowsAt(t, S), m)
           /\ \A r \in Memories, k \in Nat \ {0} :
                  Together(t, m, r, k) => Together(RowsAt(t, S), m, r, k)
<1> DEFINE u == RowsAt(t, S)
<1>1. /\ \A c \in DOMAIN u : c \in Cells /\ u[c] = t[c]
      /\ \A c \in Cells : c \in DOMAIN u <=> t[c].ver \in S
  BY DEF RowsAt, Restrict
<1>2. \A x \in Memories : <<x, "claim">> \in Cells /\ <<x, "lifecycle">> \in Cells
  BY DEF Cells
<1> HIDE DEF u
<1>3. Plain(t, m) => Plain(u, m)
  BY <1>1 DEF Plain
<1>4. /\ MarkedIn(u, m) => MarkedIn(t, m)
      /\ \A r \in Memories : ClaimIn(u, r) => ClaimIn(t, r)
  BY <1>1 DEF MarkedIn, ClaimIn
<1>5. Apart(t, m) => Apart(u, m)
  BY <1>4 DEF Apart
<1>6. ASSUME NEW r \in Memories, NEW k \in Nat \ {0}, Together(t, m, r, k)
      PROVE  Together(u, m, r, k)
  <2>1. CASE ~MarkedIn(t, m)
    <3>1. ~MarkedIn(u, m) /\ ~ClaimIn(u, r)
      BY <1>4, <1>6, <2>1 DEF Together
    <3> QED  BY <3>1 DEF Together
  <2>2. CASE MarkedIn(t, m)
    <3>1. /\ ClaimIn(t, r)
          /\ t[<<m, "lifecycle">>].ver = t[<<r, "claim">>].ver
          /\ t[<<m, "lifecycle">>].cv = k
          /\ t[<<r, "claim">>].cv = 1 /\ t[<<r, "claim">>].val = Set
      BY <1>6, <2>2 DEF Together
    <3>2. <<m, "lifecycle">> \in DOMAIN u <=> <<r, "claim">> \in DOMAIN u
      BY <1>1, <1>2, <3>1
    <3> QED  BY <1>1, <2>2, <3>1, <3>2 DEF Together, MarkedIn, ClaimIn
  <2> QED  BY <2>1, <2>2
<1> QED  BY <1>3, <1>5, <1>6 DEF u

\* A table that a relaying step leaves: one of before, a page of one, or the
\* merge of two.
Relayed(x) ==
    \/ x \in Tables
    \/ \E t \in Tables, S \in SUBSET Nat : DOMAIN t = Cells /\ x = RowsAt(t, S)
    \/ \E t, u \in Tables, v \in Nat : DOMAIN t = Cells /\ x = Merge(t, v, u)

\* Every table and every batch is a fragment of a clock table.
LEMMA TablesAreFragments == TypeOK => \A t \in Tables : Fragment(t)
<1> SUFFICES ASSUME TypeOK PROVE \A t \in Tables : Fragment(t)
  OBVIOUS
<1>1. ASSUME NEW p \in Peers PROVE Fragment(clock[p])
  BY DEF TypeOK, DatabaseOK, Fragment, ClockRows
<1>2. ASSUME NEW b \in UnderWay PROVE Fragment(b.rows)
  <2>1. IsBatch(b)
    BY WireRows
  <2> QED  BY <2>1 DEF IsBatch, Fragment, ClockRows
<1> QED  BY <1>1, <1>2 DEF Tables

\* Every step but a local write relays.
LEMMA StepRelays ==
    ASSUME TypeOK, SendStep \/ AcceptStep \/ QuietStep
    PROVE  \A x \in Tables' : Relayed(x)
<1>1. CASE SendStep
  <2>1. PICK p \in Peers, q \in Peers, n \in Namespaces :
           UnderWay' = UnderWay \cup {ExtractBatch(p, q, n)}
    BY <1>1 DEF SendStep
  <2>2. clock' = clock
    BY <1>1 DEF SendStep, database
  <2>3. \A x \in Tables' : x \in Tables \/ x = ExtractBatch(p, q, n).rows
    BY <2>1, <2>2 DEF Tables
  <2>4. /\ ExtractBatch(p, q, n).rows = RowsAt(clock[p], Page(p, q, n))
        /\ clock[p] \in Tables /\ DOMAIN clock[p] = Cells
    BY DEF ExtractBatch, RowsAt, ChangedAt, Tables, TypeOK, DatabaseOK
  <2>5. Page(p, q, n) \in SUBSET Nat
    BY DEF Page, Lowest, Pending, TypeOK, DatabaseOK
  <2> QED  BY <2>3, <2>4, <2>5 DEF Relayed
<1>2. CASE AcceptStep
  <2>1. PICK b \in UnderWay : IsBatch(b) /\ Accept(b.to, b.from, b)
    BY <1>2 DEF AcceptStep
  <2>2. PICK p \in Peers : p = b.to
    BY <2>1 DEF IsBatch
  <2>3. /\ clock' = [clock EXCEPT ![p] = Merge(clock[p], dbv[p], b.rows)]
        /\ DOMAIN clock = Peers /\ DOMAIN clock[p] = Cells /\ dbv[p] \in Nat
    BY <2>1, <2>2 DEF Accept, TypeOK, DatabaseOK
  <2>4. \A x \in Tables' : x \in Tables \/ x = Merge(clock[p], dbv[p], b.rows)
    BY <1>2, <2>3 DEF Tables, AcceptStep
  <2>5. clock[p] \in Tables /\ b.rows \in Tables
    BY DEF Tables
  <2> QED  BY <2>3, <2>4, <2>5 DEF Relayed
<1>3. CASE QuietStep
  <2>1. clock' = clock /\ UnderWay' \subseteq UnderWay
    BY <1>3 DEF QuietStep, database
  <2> QED  BY <2>1 DEF Tables, Relayed
<1> QED  BY <1>1, <1>2, <1>3

\* What holds of every table holds of what is relayed.
LEMMA RelayKeeps ==
    ASSUME TypeOK, NEW m \in Memories, \A t \in Tables : Plain(t, m), NEW x, Relayed(x)
    PROVE  /\ Plain(x, m)
           /\ (\A t \in Tables : Apart(t, m)) => Apart(x, m)
           /\ \A r \in Memories, k \in Nat \ {0} :
                  (\A t \in Tables : Together(t, m, r, k)) => Together(x, m, r, k)
<1>1. CASE x \in Tables
  BY <1>1
<1>2. ASSUME NEW t \in Tables, NEW S \in SUBSET Nat, DOMAIN t = Cells, x = RowsAt(t, S)
      PROVE  /\ Plain(x, m)
             /\ (\A y \in Tables : Apart(y, m)) => Apart(x, m)
             /\ \A r \in Memories, k \in Nat \ {0} :
                    (\A y \in Tables : Together(y, m, r, k)) => Together(x, m, r, k)
  BY <1>2, PageKeeps
<1>3. ASSUME NEW t \in Tables, NEW u \in Tables, NEW v \in Nat, DOMAIN t = Cells, x = Merge(t, v, u)
      PROVE  /\ Plain(x, m)
             /\ (\A y \in Tables : Apart(y, m)) => Apart(x, m)
             /\ \A r \in Memories, k \in Nat \ {0} :
                    (\A y \in Tables : Together(y, m, r, k)) => Together(x, m, r, k)
  <2>1. Fragment(t) /\ Fragment(u)
    BY TablesAreFragments
  <2> QED  BY <1>3, <2>1, MergePlain, MergeApart, MergeTogether
<1> QED  BY <1>1, <1>2, <1>3 DEF Relayed

\* A cell that a local write does not touch stays as it was.
LEMMA WriteLeaves ==
    ASSUME DatabaseOK, NEW p \in Peers, NEW vals, LocalWrite(p, vals), NEW c \in Cells
    PROVE  /\ c \notin DOMAIN vals \/ vals[c] = clock[p][c].val => clock'[p][c] = clock[p][c]
           /\ c \in DOMAIN vals /\ vals[c] # clock[p][c].val =>
                 clock'[p][c] = [cv |-> clock[p][c].cv + 1, val |-> vals[c], ver |-> dbv[p] + 1]
           /\ \A x \in Peers \ {p} : clock'[x] = clock[x]
           /\ DOMAIN clock'[p] = Cells
<1>1. clock' = [clock EXCEPT ![p] = Write(clock[p], dbv[p], vals)]
  BY DEF LocalWrite
<1>2. DOMAIN clock = Peers /\ DOMAIN clock[p] = Cells
  BY DEF DatabaseOK
<1> QED  BY <1>1, <1>2 DEF Write

\* Memory s is stored at p and supersedes m.
Replacing(p, s, m) == Supersede(p, s) /\ Replaces[s] = m

\* A local write that does not replace m stores it at most, and leaves the
\* claims that replace it alone.
LEMMA LocalElsewhere ==
    ASSUME ConstantsAssumption, DatabaseOK, NEW p \in Peers, NEW s \in Memories,
           Store(p, s) \/ Supersede(p, s) \/ Signal(p, s),
           NEW m \in Memories, ~Replacing(p, s, m)
    PROVE  LET L == <<m, "lifecycle">>
           IN  /\ \/ clock'[p][L] = clock[p][L]
                  \/ clock[p][L] = Absent /\ clock'[p][L].cv = 1 /\ clock'[p][L].val = Active
               /\ \A r \in Memories : Replaces[r] = m =>
                      clock'[p][<<r, "claim">>] = clock[p][<<r, "claim">>]
               /\ DOMAIN clock'[p] = Cells
               /\ \A x \in Peers \ {p} : clock'[x] = clock[x]
<1> DEFINE L == <<m, "lifecycle">>
<1>1. L \in Cells /\ \A r \in Memories : <<r, "claim">> \in Cells
  BY DEF Cells
<1>2. ASSUME NEW v, LocalWrite(p, v), L \in DOMAIN v => v[L] = Active /\ clock[p][L] = Absent,
             \A r \in Memories : Replaces[r] = m => <<r, "claim">> \notin DOMAIN v
      PROVE  /\ \/ clock'[p][L] = clock[p][L]
                \/ clock[p][L] = Absent /\ clock'[p][L].cv = 1 /\ clock'[p][L].val = Active
             /\ \A r \in Memories : Replaces[r] = m =>
                    clock'[p][<<r, "claim">>] = clock[p][<<r, "claim">>]
             /\ DOMAIN clock'[p] = Cells
             /\ \A x \in Peers \ {p} : clock'[x] = clock[x]
  <2>1. CASE L \in DOMAIN v
    <3>1. v[L] # clock[p][L].val /\ clock[p][L].cv = 0
      BY <1>2, <2>1 DEF Active, Absent
    <3>2. clock'[p][L] = [cv |-> 0 + 1, val |-> v[L], ver |-> dbv[p] + 1]
      BY <1>1, <1>2, <2>1, <3>1, WriteLeaves
    <3>3. clock'[p][L].cv = 1 /\ clock'[p][L].val = Active /\ clock[p][L] = Absent
      BY <1>2, <2>1, <3>2
    <3>4. /\ \A r \in Memories : Replaces[r] = m =>
                 clock'[p][<<r, "claim">>] = clock[p][<<r, "claim">>]
          /\ DOMAIN clock'[p] = Cells
          /\ \A x \in Peers \ {p} : clock'[x] = clock[x]
      BY <1>1, <1>2, WriteLeaves
    <3> QED  BY <3>3, <3>4
  <2>2. CASE L \notin DOMAIN v
    BY <1>1, <1>2, <2>2, WriteLeaves
  <2> QED  BY <2>1, <2>2
<1>3. CASE Store(p, s)
  <2> DEFINE v == Stored(s)
  <2>1. LocalWrite(p, v) /\ Replaces[s] = None /\ clock[p][<<s, "lifecycle">>] = Absent
    BY <1>3 DEF Store, Storable, NodeExists, Present
  <2>2. /\ v[<<s, "lifecycle">>] = Active
        /\ \A x : <<x, "claim">> \in DOMAIN v => x = s
        /\ <<m, "lifecycle">> \in DOMAIN v => m = s
    BY StoredProps, StoredKinds
  <2>3. \A r \in Memories : Replaces[r] = m => r # s
    BY <2>1 DEF ConstantsAssumption
  <2> HIDE DEF v
  <2>4. L \in DOMAIN v => v[L] = Active /\ clock[p][L] = Absent
    BY <2>1, <2>2
  <2>5. ASSUME NEW r \in Memories, Replaces[r] = m PROVE <<r, "claim">> \notin DOMAIN v
    BY <2>2, <2>3, <2>5
  <2> QED  BY <1>2, <2>1, <2>4, <2>5
<1>4. CASE Supersede(p, s)
  <2> DEFINE old == <<Replaces[s], "lifecycle">>
             v == Also(Stored(s), old, Superseded)
  <2>1. LocalWrite(p, v) /\ clock[p][<<s, "lifecycle">>] = Absent
    BY <1>4 DEF Supersede, Storable, NodeExists, Present
  <2>2. /\ Stored(s)[<<s, "lifecycle">>] = Active
        /\ \A x : /\ <<x, "claim">> \in DOMAIN Stored(s) => x = s
                  /\ <<x, "lifecycle">> \in DOMAIN Stored(s) => x = s
    BY StoredProps, StoredKinds
  <2>3. Replaces[s] # m
    BY <1>4 DEF Replacing
  <2>6. L # old /\ \A r : <<r, "claim">> # old
    BY <2>3
  <2>7. /\ DOMAIN v = DOMAIN Stored(s) \cup {old}
        /\ \A c \in DOMAIN Stored(s) : c # old => v[c] = Stored(s)[c]
    BY DEF Also
  <2> HIDE DEF v, old
  <2>4. L \in DOMAIN v => v[L] = Active /\ clock[p][L] = Absent
    BY <2>1, <2>2, <2>6, <2>7
  <2>5. \A r \in Memories : Replaces[r] = m => <<r, "claim">> \notin DOMAIN v
    BY <2>2, <2>3, <2>6, <2>7
  <2> QED  BY <1>2, <2>1, <2>4, <2>5
<1>5. CASE Signal(p, s)
  <2> DEFINE v == [c \in {<<s, "signal">>} |-> Set]
  <2>1. LocalWrite(p, v) /\ DOMAIN v = {<<s, "signal">>}
    BY <1>5 DEF Signal
  <2> HIDE DEF v
  <2>2. L \notin DOMAIN v /\ \A r \in Memories : <<r, "claim">> \notin DOMAIN v
    BY <2>1
  <2> QED  BY <1>2, <2>1, <2>2
<1> QED  BY <1>3, <1>4, <1>5

\* The transaction writes the claim of s, and marks m unless it is marked.
ReplacesNow(p, s, m) ==
    /\ WrittenClaim(p, s)
    /\ LET old == clock[p][<<m, "lifecycle">>]
           new == clock'[p][<<m, "lifecycle">>]
       IN  \/ old.val = Superseded /\ new = old
           \/ /\ old.val # Superseded /\ new.val = Superseded
              /\ new.cv = old.cv + 1 /\ new.ver = dbv[p] + 1

\* Superseding m marks it and writes the claim in one version; a mark that is
\* there already is left as it is.
LEMMA LocalReplaces ==
    ASSUME ConstantsAssumption, DatabaseOK, NEW p \in Peers, NEW s \in Memories,
           NEW m \in Memories, Replacing(p, s, m)
    PROVE  /\ HomeOf[s] = p /\ clock[p][<<s, "claim">>] = Absent
           /\ ReplacesNow(p, s, m)
           /\ \A r \in Memories \ {s} :
                  clock'[p][<<r, "claim">>] = clock[p][<<r, "claim">>]
           /\ DOMAIN clock'[p] = Cells
           /\ \A x \in Peers \ {p} : clock'[x] = clock[x]
<1> DEFINE L == <<m, "lifecycle">>
           C == <<s, "claim">>
           v == Also(Stored(s), L, Superseded)
<1>1. L \in Cells /\ \A r \in Memories : <<r, "claim">> \in Cells
  BY DEF Cells
<1>2. /\ LocalWrite(p, v) /\ HomeOf[s] = p /\ clock[p][C] = Absent
      /\ ~NodeExists(clock[p], s) /\ NodeExists(clock[p], m)
  BY DEF Replacing, Supersede, Storable, NodeExists, Present
<1>4. /\ C \in DOMAIN v /\ v[C] = Set /\ L \in DOMAIN v /\ v[L] = Superseded
      /\ \A x : <<x, "claim">> \in DOMAIN v => x = s
  <2>1. C # L /\ \A x : <<x, "claim">> # L
    OBVIOUS
  <2>2. /\ C \in DOMAIN Stored(s) /\ Stored(s)[C] = Set
        /\ \A x : <<x, "claim">> \in DOMAIN Stored(s) => x = s
    BY StoredProps, StoredKinds
  <2>3. /\ DOMAIN v = DOMAIN Stored(s) \cup {L} /\ v[L] = Superseded
        /\ \A c \in DOMAIN Stored(s) : c # L => v[c] = Stored(s)[c]
    BY DEF Also
  <2> HIDE DEF v, L, C
  <2> QED  BY <2>1, <2>2, <2>3
<1> HIDE DEF v
<1>5. clock'[p][C] = [cv |-> 1, val |-> Set, ver |-> dbv[p] + 1]
  <2>1. v[C] # clock[p][C].val /\ clock[p][C].cv + 1 = 1
    BY <1>2, <1>4 DEF Set, Absent
  <2> QED  BY <1>1, <1>2, <1>4, <2>1, WriteLeaves
<1>6. \/ /\ clock[p][L].val # Superseded
         /\ clock'[p][L] = [cv |-> clock[p][L].cv + 1, val |-> Superseded, ver |-> dbv[p] + 1]
      \/ clock[p][L].val = Superseded /\ clock'[p][L] = clock[p][L]
  BY <1>1, <1>2, <1>4, WriteLeaves
<1>7. \A r \in Memories \ {s} : clock'[p][<<r, "claim">>] = clock[p][<<r, "claim">>]
  <2>1. \A r \in Memories \ {s} : <<r, "claim">> \notin DOMAIN v
    BY <1>4
  <2> QED  BY <1>1, <1>2, <2>1, WriteLeaves
<1>8. DOMAIN clock'[p] = Cells /\ \A x \in Peers \ {p} : clock'[x] = clock[x]
  BY <1>1, <1>2, WriteLeaves
<1>9. ReplacesNow(p, s, m)
  BY <1>5, <1>6 DEF ReplacesNow, WrittenClaim
<1> QED  BY <1>2, <1>7, <1>8, <1>9

\* The tables after a local write of p: p's own, and some of before.
LEMMA LocalTables ==
    ASSUME DatabaseOK, NEW p \in Peers, \A x \in Peers \ {p} : clock'[x] = clock[x],
           UnderWay' = UnderWay
    PROVE  \A x \in Tables' : x = clock'[p] \/ x \in Tables
  BY DEF Tables

\* A claim that is in the table of its home stays there.
LEMMA ClaimStays ==
    ASSUME ConstantsAssumption, TypeOK, TypeOK', [Next]_vars,
           NEW r \in Memories, ClaimIn(clock[HomeOf[r]], r)
    PROVE  ClaimIn(clock'[HomeOf[r]], r)
<1> DEFINE C == <<r, "claim">>
<1>1. PICK p \in Peers : p = HomeOf[r]
  BY DEF ConstantsAssumption
<1>2. C \in Cells /\ DOMAIN clock[p] = Cells /\ DOMAIN clock'[p] = Cells
  BY DEF Cells, TypeOK, DatabaseOK
<1>3. /\ clock[p][C].cv \in Nat /\ clock[p][C].val \in Nat
      /\ clock'[p][C].cv \in Nat /\ clock'[p][C].val \in Nat
  BY <1>2 DEF TypeOK, DatabaseOK, ClockRows
<1>4. clock'[p][C] = clock[p][C] \/ Advances(p, C)
  BY <1>2, StepTransaction DEF Transaction, database
<1>5. clock'[p][C] # Absent
  BY <1>1, <1>3, <1>4 DEF Advances, Absent, ClaimIn
<1> QED  BY <1>1, <1>2, <1>5 DEF ClaimIn

\* Lifecycles stay plain in the table a local write leaves.
LEMMA LocalPlain ==
    ASSUME ConstantsAssumption, DatabaseOK, NEW p \in Peers, NEW s \in Memories,
           Store(p, s) \/ Supersede(p, s) \/ Signal(p, s),
           NEW m \in Memories, Plain(clock[p], m)
    PROVE  Plain(clock'[p], m)
<1> DEFINE L == <<m, "lifecycle">>
<1>1. L \in DOMAIN clock[p]
  BY DEF DatabaseOK, Cells
<1>2. CASE Replacing(p, s, m)
  <2>1. ReplacesNow(p, s, m)
    BY <1>2, LocalReplaces
  <2> QED  BY <2>1 DEF Plain, ReplacesNow
<1>3. CASE ~Replacing(p, s, m)
  <2>1. \/ clock'[p][L] = clock[p][L]
        \/ clock'[p][L].cv = 1 /\ clock'[p][L].val = Active
    BY <1>3, LocalElsewhere
  <2> QED  BY <1>1, <2>1 DEF Plain
<1> QED  BY <1>2, <1>3

\* The table a local write leaves knows of no replacement of m, when none did
\* before and the write is not one.
LEMMA LocalApart ==
    ASSUME ConstantsAssumption, DatabaseOK, NEW p \in Peers, NEW s \in Memories,
           Store(p, s) \/ Supersede(p, s) \/ Signal(p, s),
           NEW m \in Memories, ~Replacing(p, s, m), Apart(clock[p], m)
    PROVE  Apart(clock'[p], m)
<1> DEFINE L == <<m, "lifecycle">>
<1>1. /\ L \in DOMAIN clock[p]
      /\ \A r \in Memories : <<r, "claim">> \in DOMAIN clock[p]
  BY DEF DatabaseOK, Cells
<1>2. /\ clock'[p][L] = clock[p][L] \/ clock'[p][L].val = Active
      /\ \A r \in Memories : Replaces[r] = m =>
             clock'[p][<<r, "claim">>] = clock[p][<<r, "claim">>]
  BY LocalElsewhere
<1>3. ~MarkedIn(clock'[p], m)
  BY <1>1, <1>2 DEF Apart, MarkedIn, Active, Superseded
<1>4. \A r \in Memories : Replaces[r] = m => ~ClaimIn(clock'[p], r)
  BY <1>1, <1>2 DEF Apart, ClaimIn
<1> QED  BY <1>3, <1>4 DEF Apart

\* A local write leaves mark and claim of a memory that is replaced: another
\* one that replaces it is of the same home and finds it marked.
LEMMA LocalTogether ==
    ASSUME ConstantsAssumption, DatabaseOK, OneReplacer, NEW p \in Peers, NEW s \in Memories,
           Store(p, s) \/ Supersede(p, s) \/ Signal(p, s),
           NEW m \in Memories, NEW r \in Memories, NEW k \in Nat \ {0},
           Replaces[r] = m, ClaimIn(clock[HomeOf[r]], r), Together(clock[p], m, r, k)
    PROVE  Together(clock'[p], m, r, k)
<1> DEFINE L == <<m, "lifecycle">>
           C == <<r, "claim">>
<1>1. L \in DOMAIN clock[p] /\ C \in DOMAIN clock[p] /\ DOMAIN clock[p] = Cells
  BY DEF DatabaseOK, Cells
<1>2. CASE Replacing(p, s, m)
  <2>1. HomeOf[s] = p /\ HomeOf[s] = HomeOf[r]
    <3>1. HomeOf[s] = p
      BY <1>2, LocalReplaces
    <3>2. Replaces[s] = Replaces[r] /\ Replaces[r] # None
      BY <1>2 DEF Replacing, Supersede
    <3> QED  BY <3>1, <3>2 DEF OneReplacer
  <2>2. ClaimIn(clock[p], r) /\ MarkedIn(clock[p], m)
    BY <2>1 DEF Together
  <2>3. clock[p][L].val = Superseded
    BY <2>2 DEF MarkedIn
  <2>4. clock'[p][L] = clock[p][L]
    <3>1. ReplacesNow(p, s, m)
      BY <1>2, LocalReplaces
    <3> QED  BY <2>3, <3>1 DEF ReplacesNow
  <2>5. clock[p][<<s, "claim">>] = Absent /\ DOMAIN clock'[p] = Cells
    BY <1>2, LocalReplaces
  <2>6. r # s
    BY <2>2, <2>5 DEF ClaimIn
  <2>7. clock'[p][C] = clock[p][C]
    <3>1. \A x \in Memories \ {s} : clock'[p][<<x, "claim">>] = clock[p][<<x, "claim">>]
      BY <1>2, LocalReplaces
    <3> QED  BY <2>6, <3>1
  <2> QED  BY <1>1, <2>4, <2>5, <2>7 DEF Together, MarkedIn, ClaimIn
<1>3. CASE ~Replacing(p, s, m)
  <2>1. /\ \/ clock'[p][L] = clock[p][L]
           \/ clock[p][L] = Absent /\ clock'[p][L].val = Active
        /\ clock'[p][C] = clock[p][C] /\ DOMAIN clock'[p] = Cells
    BY <1>3, LocalElsewhere
  <2>2. CASE clock'[p][L] = clock[p][L]
    BY <1>1, <2>1, <2>2 DEF Together, MarkedIn, ClaimIn
  <2>3. CASE clock[p][L] = Absent /\ clock'[p][L].val = Active
    <3>1. ~MarkedIn(clock[p], m) /\ ~MarkedIn(clock'[p], m)
      BY <2>3 DEF MarkedIn, Absent, Active, Superseded
    <3>2. ~ClaimIn(clock'[p], r)
      BY <1>1, <2>1, <3>1 DEF Together, ClaimIn
    <3> QED  BY <3>1, <3>2 DEF Together
  <2> QED  BY <2>1, <2>2, <2>3
<1> QED  BY <1>2, <1>3

\* The first replacement of m ties its mark to that claim.
LEMMA FirstReplacement ==
    ASSUME ConstantsAssumption, DatabaseOK, NEW p \in Peers, NEW s \in Memories,
           NEW m \in Memories, Replacing(p, s, m), UnderWay' = UnderWay,
           \A t \in Tables : Apart(t, m)
    PROVE  \E k \in Nat \ {0} : ReplacedBy(m, s, k)'
<1> DEFINE L == <<m, "lifecycle">>
           C == <<s, "claim">>
           k == clock[p][L].cv + 1
<1>1. L \in Cells /\ C \in Cells /\ clock[p] \in Tables /\ DOMAIN clock[p] = Cells
  BY DEF DatabaseOK, Cells, Tables
<1>2. k \in Nat \ {0}
  <2>1. clock[p][L].cv \in Nat
    BY <1>1 DEF DatabaseOK, ClockRows
  <2> QED  BY <2>1
<1>3. clock[p][L].val # Superseded
  BY <1>1 DEF Apart, MarkedIn
<1>4. /\ HomeOf[s] = p /\ ReplacesNow(p, s, m)
      /\ DOMAIN clock'[p] = Cells /\ \A x \in Peers \ {p} : clock'[x] = clock[x]
  BY LocalReplaces
<1>9. LET old == clock'[p][L]
          new == clock'[p][C]
      IN  /\ old.cv = k /\ old.val = Superseded /\ old.ver = new.ver
          /\ new.cv = 1 /\ new.val = Set
  BY <1>3, <1>4 DEF ReplacesNow, WrittenClaim
<1> HIDE DEF k
<1>5. ClaimIn(clock'[p], s)
  BY <1>1, <1>4, <1>9 DEF ClaimIn, Absent
<1>6. Together(clock'[p], m, s, k)
  BY <1>1, <1>4, <1>5, <1>9 DEF Together, MarkedIn
<1>7. \A t \in Tables' : t = clock'[p] \/ t \in Tables
  BY <1>4, LocalTables
<1>8. \A t \in Tables : Together(t, m, s, k)
  BY DEF Apart, Together, Replacing
<1> QED  BY <1>2, <1>4, <1>5, <1>6, <1>7, <1>8 DEF ReplacedBy, Replacing

\* Every step keeps marks and claims together.
LEMMA SuccessorsNext ==
    ASSUME ConstantsAssumption, OneReplacer, TypeOK, TypeOK', Successors, [Next]_vars
    PROVE  Successors'
<1> SUFFICES ASSUME NEW m \in Memories
             PROVE  /\ \A t \in Tables' : Plain(t, m)
                    /\ \/ \A t \in Tables' : Apart(t, m)
                       \/ \E r \in Memories, k \in Nat \ {0} : ReplacedBy(m, r, k)'
  BY DEF Successors
<1>1. /\ \A t \in Tables : Plain(t, m)
      /\ \/ \A t \in Tables : Apart(t, m)
         \/ \E r \in Memories, k \in Nat \ {0} : ReplacedBy(m, r, k)
  BY DEF Successors
<1>2. CASE SendStep \/ AcceptStep \/ QuietStep
  <2>1. \A x \in Tables' : Relayed(x)
    BY <1>2, StepRelays
  <2>2. \A t \in Tables' : Plain(t, m)
    BY <1>1, <2>1, RelayKeeps
  <2>3. (\A t \in Tables : Apart(t, m)) => \A t \in Tables' : Apart(t, m)
    BY <1>1, <2>1, RelayKeeps
  <2>4. ASSUME NEW r \in Memories, NEW k \in Nat \ {0}, ReplacedBy(m, r, k)
        PROVE  ReplacedBy(m, r, k)'
    <3>1. \A t \in Tables' : Together(t, m, r, k)
      BY <1>1, <2>1, <2>4, RelayKeeps DEF ReplacedBy
    <3>2. ClaimIn(clock'[HomeOf[r]], r)
      BY <2>4, ClaimStays DEF ReplacedBy
    <3> QED  BY <2>4, <3>1, <3>2 DEF ReplacedBy
  <2> QED  BY <1>1, <2>2, <2>3, <2>4
<1>3. CASE LocalStep
  <2>1. PICK p \in Peers, s \in Memories : Store(p, s) \/ Supersede(p, s) \/ Signal(p, s)
    BY <1>3 DEF LocalStep
  <2>2. UnderWay' = UnderWay /\ DatabaseOK /\ clock[p] \in Tables
    BY <1>3 DEF LocalStep, TypeOK, Tables
  <2>3. \A x \in Peers \ {p} : clock'[x] = clock[x]
    BY <2>1, <2>2, LocalAdvances DEF Transaction
  <2>4. \A t \in Tables' : t = clock'[p] \/ t \in Tables
    BY <2>2, <2>3, LocalTables
  <2>5. \A t \in Tables' : Plain(t, m)
    <3>1. Plain(clock'[p], m)
      BY <1>1, <2>1, <2>2, LocalPlain
    <3> QED  BY <1>1, <2>4, <3>1
  <2>6. CASE \A t \in Tables : Apart(t, m)
    <3>1. CASE Replacing(p, s, m)
      BY <2>2, <2>5, <2>6, <3>1, FirstReplacement
    <3>2. CASE ~Replacing(p, s, m)
      <4>1. Apart(clock'[p], m)
        BY <2>1, <2>2, <2>6, <3>2, LocalApart
      <4> QED  BY <2>4, <2>5, <2>6, <4>1
    <3> QED  BY <3>1, <3>2
  <2>7. ASSUME NEW r \in Memories, NEW k \in Nat \ {0}, ReplacedBy(m, r, k)
        PROVE  ReplacedBy(m, r, k)'
    <3>1. Together(clock'[p], m, r, k)
      BY <2>1, <2>2, <2>7, LocalTogether DEF ReplacedBy
    <3>2. \A t \in Tables' : Together(t, m, r, k)
      BY <2>4, <2>7, <3>1 DEF ReplacedBy
    <3>3. ClaimIn(clock'[HomeOf[r]], r)
      BY <2>7, ClaimStays DEF ReplacedBy
    <3> QED  BY <2>7, <3>2, <3>3 DEF ReplacedBy
  <2> QED  BY <1>1, <2>5, <2>6, <2>7
<1> QED  BY <1>2, <1>3, StepShape

\* Initially nothing is stored, and nothing is replaced.
LEMMA SuccessorsInit == ConstantsAssumption /\ Init => Successors
<1> SUFFICES ASSUME ConstantsAssumption, Init PROVE Successors
  OBVIOUS
<1>1. UnderWay = {}
  BY DEF Init, UnderWay, Idle
<1>2. \A t \in Tables : \A c \in DOMAIN t : t[c] = Absent
  BY <1>1 DEF Tables, Init
<1>3. \A t \in Tables, m \in Memories : Plain(t, m) /\ Apart(t, m)
  BY <1>2 DEF Plain, Apart, MarkedIn, ClaimIn, Absent, Superseded
<1> QED  BY <1>3 DEF Successors

\* When the memories that replace one memory are of one home, no peer ever sees
\* a memory superseded without a memory that replaces it, however the rows were
\* paged, relayed, lost, repeated or applied late (Supersede's transaction).
THEOREM SupersededAlwaysHasSuccessor ==
    ASSUME OneReplacer
    PROVE  Spec => []SupersededHasSuccessor
<1>1. Init => Successors
  BY ConstantsAssumption, SuccessorsInit
<1>2. TypeOK /\ TypeOK' /\ Successors /\ [Next]_vars => Successors'
  BY ConstantsAssumption, OneReplacer, SuccessorsNext
<1>3. TypeOK /\ Successors => SupersededHasSuccessor
  <2> SUFFICES ASSUME TypeOK, Successors, NEW p \in Peers, NEW m \in Memories,
                      clock[p][<<m, "lifecycle">>].val = Superseded
               PROVE  \E r \in Memories : Replaces[r] = m /\ Present(clock[p], r, "claim")
    BY DEF SupersededHasSuccessor
  <2>1. clock[p] \in Tables /\ <<m, "lifecycle">> \in DOMAIN clock[p]
    BY DEF Tables, TypeOK, DatabaseOK, Cells
  <2>2. MarkedIn(clock[p], m)
    BY <2>1 DEF MarkedIn
  <2>3. PICK r \in Memories, k \in Nat \ {0} : ReplacedBy(m, r, k)
    BY <2>1, <2>2 DEF Successors, Apart
  <2>4. ClaimIn(clock[p], r) /\ Replaces[r] = m
    BY <2>1, <2>2, <2>3 DEF ReplacedBy, Together
  <2> QED  BY <2>4 DEF ClaimIn, Present
<1> QED  BY <1>1, <1>2, <1>3, TypeCorrect, PTL DEF Spec
=============================================================================
