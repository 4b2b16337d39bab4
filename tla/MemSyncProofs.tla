--------------------------- MODULE MemSyncProofs -----------------------------
(***************************************************************************)
(* Theorems about MemSync for every set of peers, memories and namespaces, *)
(* every allowlist, keyring and batch limit.                               *)
(***************************************************************************)
EXTENDS MemSync, WellFoundedInduction, TLAPS

(***************************************************************************)
(* The clock-table operators of CRSqlite, for every table and change set.  *)
(***************************************************************************)
LessThan == {ss \in Nat \X Nat : ss[1] < ss[2]}

\* The order of the naturals, as a relation, is well founded.
LEMMA LessThanWellFounded == IsWellFoundedOn(LessThan, Nat)
  BY NatLessThanWellFounded DEF OpToRel, LessThan

\* A non-empty set of naturals with an upper bound has a maximum, which is what
\* Max returns.
LEMMA MaxOfBounded ==
    ASSUME NEW N \in Nat, NEW S \in SUBSET (0 .. N), S # {}
    PROVE  Max(S) \in S /\ \A x \in S : Max(S) >= x
<1> DEFINE T == {N - x : x \in S}
<1>1. T \subseteq Nat /\ T # {}
  OBVIOUS
<1>2. PICK t \in T : \A y \in T : ~ (<<y, t>> \in LessThan)
  <2> HIDE DEF T
  <2> QED  BY <1>1, WFMin, LessThanWellFounded
<1>3. PICK x \in S : t = N - x
  OBVIOUS
<1>4. ASSUME NEW y \in S PROVE x >= y
  <2>1. N - y \in T /\ N - y \in Nat /\ t \in Nat
    BY <1>1
  <2>2. ~ (N - y < t)
    BY <1>2, <2>1 DEF LessThan
  <2> QED  BY <2>2, <1>3
<1>5. \E z \in S : \A y \in S : z >= y
  BY <1>4
<1> QED  BY <1>5 DEF Max

\* Stamping a row received from a database at version w gives it a version
\* that is new to a database at version v.
LEMMA StampedProps ==
    ASSUME NEW v \in Nat, NEW w \in Nat, NEW row \in ClockRows(w)
    PROVE  /\ Stamped(v, row) \in [cv : Nat, val : Nat, ver : Nat]
           /\ Stamped(v, row).ver > v /\ Stamped(v, row).ver <= v + 1 + w
           /\ Stamped(v, row).cv = row.cv /\ Stamped(v, row).val = row.val
  BY DEF Stamped, Later, ClockRows

\* Merging a change set never lowers the database version, raises it exactly
\* when some row wins, and leaves no cell beyond it.
LEMMA MergeProps ==
    ASSUME NEW v \in Nat, NEW w \in Nat, NEW cells,
           NEW table \in [cells -> ClockRows(v)],
           NEW rows, DOMAIN rows \subseteq cells,
           \A c \in DOMAIN rows : rows[c] \in ClockRows(w)
    PROVE  /\ MergedVersion(table, v, rows) \in Nat
           /\ MergedVersion(table, v, rows) >= v
           /\ Won(table, rows) = {} => MergedVersion(table, v, rows) = v
           /\ Won(table, rows) # {} => MergedVersion(table, v, rows) >= v + 1
           /\ Merge(table, v, rows) \in [cells -> ClockRows(MergedVersion(table, v, rows))]
           /\ \A c \in Won(table, rows) : Merge(table, v, rows)[c].ver > v
<1> DEFINE W == Won(table, rows)
           S == {v} \cup {Stamped(v, rows[c]).ver : c \in W}
           top == Max(S)
<1>1. MergedVersion(table, v, rows) = top
  BY DEF MergedVersion
<1>2. W \subseteq DOMAIN rows /\ W \subseteq cells
  BY DEF Won
<1>3. \A c \in W : /\ Stamped(v, rows[c]) \in [cv : Nat, val : Nat, ver : Nat]
                   /\ Stamped(v, rows[c]).ver > v
                   /\ Stamped(v, rows[c]).ver <= v + 1 + w
  BY <1>2, StampedProps
<1> HIDE DEF W
<1>4. S \in SUBSET (0 .. v + 1 + w) /\ S # {} /\ v + 1 + w \in Nat
  BY <1>3
<1>5. top \in S /\ \A x \in S : top >= x
  <2> HIDE DEF S
  <2> QED  BY <1>4, MaxOfBounded
<1>6. top \in Nat /\ top >= v
  BY <1>4, <1>5
<1>7. W = {} => top = v
  BY <1>5
<1>8. W # {} => top >= v + 1
  BY <1>3, <1>5, <1>6
<1>9. ASSUME NEW c \in cells
      PROVE  /\ Merge(table, v, rows)[c] \in ClockRows(top)
             /\ c \in W => Merge(table, v, rows)[c].ver > v
  <2>1. Merge(table, v, rows)[c] = IF c \in W THEN Stamped(v, rows[c]) ELSE table[c]
    BY DEF Merge, W
  <2>2. CASE c \in W
    <3>1. Stamped(v, rows[c]).ver \in S
      BY <2>2
    <3> QED  BY <2>1, <2>2, <3>1, <1>3, <1>5, <1>6 DEF ClockRows
  <2>3. CASE c \notin W
    <3>1. table[c] \in ClockRows(v)
      OBVIOUS
    <3> QED  BY <2>1, <2>3, <3>1, <1>6 DEF ClockRows
  <2> QED  BY <2>2, <2>3
<1>10. Merge(table, v, rows) \in [cells -> ClockRows(top)]
  BY <1>9 DEF Merge
<1> QED  BY <1>1, <1>2, <1>6, <1>7, <1>8, <1>9, <1>10 DEF W

\* A change set that wins nothing leaves the database version where it is.
LEMMA MergeNothing ==
    ASSUME NEW v \in Nat, NEW table, NEW rows, Won(table, rows) = {}
    PROVE  MergedVersion(table, v, rows) = v
<1>1. {v} \cup {Stamped(v, rows[c]).ver : c \in Won(table, rows)} = {v}
  OBVIOUS
<1>2. {v} \in SUBSET (0 .. v) /\ {v} # {}
  OBVIOUS
<1>3. Max({v}) = v
  BY <1>2, MaxOfBounded
<1> QED  BY <1>1, <1>3 DEF MergedVersion

\* A local write stamps the cells it changes with the next version.
LEMMA WriteProps ==
    ASSUME NEW v \in Nat, NEW cells, NEW table \in [cells -> ClockRows(v)],
           NEW vals, DOMAIN vals \subseteq cells, \A c \in DOMAIN vals : vals[c] \in Nat
    PROVE  /\ Write(table, v, vals) \in [cells -> ClockRows(v + 1)]
           /\ \A c \in cells : Write(table, v, vals)[c] # table[c] =>
                  c \in DOMAIN vals /\ Write(table, v, vals)[c].ver = v + 1
<1>1. ASSUME NEW c \in cells
      PROVE  /\ Write(table, v, vals)[c] \in ClockRows(v + 1)
             /\ Write(table, v, vals)[c] # table[c] =>
                  c \in DOMAIN vals /\ Write(table, v, vals)[c].ver = v + 1
  <2>1. table[c] \in ClockRows(v)
    OBVIOUS
  <2> QED  BY <2>1 DEF Write, ClockRows
<1> QED  BY <1>1 DEF Write

(***************************************************************************)
(* Types.                                                                  *)
(***************************************************************************)

\* A batch stays well formed while database versions only grow.
LEMMA BatchMonotone ==
    ASSUME DatabaseOK, DatabaseOK', \A p \in Peers : dbv'[p] >= dbv[p],
           NEW b, IsBatch(b)
    PROVE  IsBatch(b)'
<1>1. dbv[b.from] \in Nat /\ dbv'[b.from] \in Nat /\ dbv'[b.from] >= dbv[b.from]
  BY DEF DatabaseOK, IsBatch
<1> QED  BY <1>1 DEF IsBatch, ClockRows

\* So does a session.
LEMMA SessionMonotone ==
    ASSUME DatabaseOK, DatabaseOK', \A p \in Peers : dbv'[p] >= dbv[p],
           NEW p, NEW s, IsSession(p, s)
    PROVE  IsSession(p, s)'
  BY BatchMonotone DEF IsSession

\* What ExtractBatch builds is a batch.
LEMMA ExtractIsBatch ==
    ASSUME DatabaseOK, NEW p \in Peers, NEW q \in Peers, NEW n \in Namespaces
    PROVE  IsBatch(ExtractBatch(p, q, n))
<1> DEFINE S == Page(p, q, n) \cup {0}
           rows == Restrict(clock[p], ChangedAt(p, Page(p, q, n)))
<1>1. dbv[p] \in Nat /\ log[p] \subseteq (1 .. dbv[p]) \X Namespaces
      /\ clock[p] \in [Cells -> ClockRows(dbv[p])]
  BY DEF DatabaseOK
<1>2. Page(p, q, n) \subseteq {e[1] : e \in log[p]}
  BY DEF Page, Lowest, Pending
<1>3. S \in SUBSET (0 .. dbv[p]) /\ S # {}
  BY <1>1, <1>2
<1>4. Max(S) \in 0 .. dbv[p]
  <2> HIDE DEF S
  <2> QED  BY <1>1, <1>3, MaxOfBounded
<1>5. DOMAIN rows \subseteq Cells /\ \A c \in DOMAIN rows : rows[c] \in ClockRows(dbv[p])
  BY <1>1 DEF Restrict, ChangedAt
<1> QED  BY <1>4, <1>5 DEF IsBatch, ExtractBatch

\* What storeTx writes: the row of m, and the artifacts it describes.
LEMMA StoredCell ==
    ASSUME ConstantsAssumption, NEW m \in Memories, NEW c \in DOMAIN Stored(m)
    PROVE  \/ c \in {<<m, "claim">>, <<m, "lifecycle">>} /\ Stored(m)[c] = Set
           \/ \E a \in Describes[m] : /\ a \in Artifacts /\ c = <<a, "namespace">>
                                      /\ Stored(m)[c] = Rank[NsOf[m]]
<1>1. /\ Describes[m] \subseteq Artifacts
      /\ DOMAIN Stored(m) = {<<m, "claim">>, <<m, "lifecycle">>} \cup (Describes[m] \X {"namespace"})
  BY DEF ConstantsAssumption, Stored, NodeCells
<1>2. Stored(m)[c] = IF c[2] = "namespace" THEN Rank[NsOf[m]] ELSE Set
  BY DEF Stored
<1>3. CASE c \in {<<m, "claim">>, <<m, "lifecycle">>}
  BY <1>2, <1>3
<1>4. CASE c \in Describes[m] \X {"namespace"}
  <2>1. PICK a \in Describes[m] : c = <<a, "namespace">>
    BY <1>4
  <2> QED  BY <1>1, <1>2, <2>1
<1> QED  BY <1>1, <1>3, <1>4

\* The claim and the lifecycle are among them, and all are cells with a value.
LEMMA StoredProps ==
    ASSUME ConstantsAssumption, NEW m \in Memories
    PROVE  /\ DOMAIN Stored(m) \subseteq Cells
           /\ \A c \in DOMAIN Stored(m) : Stored(m)[c] \in Nat
           /\ <<m, "claim">> \in DOMAIN Stored(m) /\ Stored(m)[<<m, "claim">>] = Set
           /\ <<m, "lifecycle">> \in DOMAIN Stored(m) /\ Stored(m)[<<m, "lifecycle">>] = Active
<1>1. ASSUME NEW c \in DOMAIN Stored(m) PROVE c \in Cells /\ Stored(m)[c] \in Nat
  <2>1. Rank[NsOf[m]] \in Nat
    BY DEF ConstantsAssumption
  <2> QED  BY <2>1, StoredCell DEF Cells, Set
<1>2. /\ <<m, "claim">> \in DOMAIN Stored(m) /\ Stored(m)[<<m, "claim">>] = Set
      /\ <<m, "lifecycle">> \in DOMAIN Stored(m) /\ Stored(m)[<<m, "lifecycle">>] = Active
  BY DEF Stored, NodeCells, Set, Active
<1> QED  BY <1>1, <1>2

\* What the triggers log names a namespace, at the one version they are given:
LEMMA LoggedProps ==
    ASSUME ConstantsAssumption, NEW t, NEW v, NEW cells \in SUBSET Cells
    PROVE  /\ Logged(t, v, cells) \subseteq {v} \X Namespaces
           /\ cells = {} => Logged(t, v, cells) = {}
<1>1. ASSUME NEW c \in cells PROVE RowNs(t, c) \subseteq Namespaces
  <2>1. c[2] # "namespace" => c[1] \in Memories
    BY DEF Cells
  <2> QED  BY <2>1 DEF RowNs, MemoryNs, ArtifactNs, ConstantsAssumption
<1> QED  BY <1>1 DEF Logged

\* also what the triggers of edges and spans log,
LEMMA BorrowedProps ==
    ASSUME ConstantsAssumption, NEW t, NEW v, NEW rows, NEW m \in Memories
    PROVE  Borrowed(t, v, rows, m) \subseteq Namespaces
<1>1. \A k \in Targets(m) : k \in Memories
  BY DEF Targets, ConstantsAssumption
<1>2. \A u, k : k \in Memories => MemoryNs(u, k) \subseteq Namespaces
  BY DEF MemoryNs, ConstantsAssumption
<1>3. \A u, a : ArtifactNs(u, a) \subseteq Namespaces
  BY DEF ArtifactNs
<1> QED  BY <1>1, <1>2, <1>3 DEF Borrowed

\* and nothing is logged for a batch that wins nothing.
LEMMA LoggedByMergeProps ==
    ASSUME ConstantsAssumption, NEW p, NEW rows, DOMAIN rows \subseteq Cells
    PROVE  /\ LoggedByMerge(p, rows) \subseteq {dbv[p] + 1} \X Namespaces
           /\ Won(clock[p], rows) = {} => LoggedByMerge(p, rows) = {}
<1> DEFINE v == dbv[p] + 1
           won == Won(clock[p], rows)
           borrowed == UNION {Borrowed(clock[p], dbv[p], rows, m) :
                                 m \in {k \in Memories : <<k, "claim">> \in won}}
<1>1. won \in SUBSET Cells
  BY DEF Won
<1>2. borrowed \subseteq Namespaces
  <2> DEFINE B(m) == Borrowed(clock[p], dbv[p], rows, m)
  <2>1. \A m \in Memories : B(m) \subseteq Namespaces
    BY BorrowedProps
  <2> DEFINE M == {k \in Memories : <<k, "claim">> \in won}
  <2>2. M \subseteq Memories
    OBVIOUS
  <2> HIDE DEF B, M
  <2>3. UNION {B(m) : m \in M} \subseteq Namespaces
    BY <2>1, <2>2
  <2> QED  BY <2>3 DEF B, M
<1>3. won = {} => borrowed = {}
  OBVIOUS
<1>4. LoggedByMerge(p, rows) =
         Logged(Merge(clock[p], dbv[p], rows), v, won) \cup ({v} \X borrowed)
  BY DEF LoggedByMerge
<1> HIDE DEF won, borrowed, v
<1>5. {v} \X borrowed \subseteq {v} \X Namespaces /\ (borrowed = {} => {v} \X borrowed = {})
  BY <1>2
<1>6. /\ Logged(Merge(clock[p], dbv[p], rows), v, won) \subseteq {v} \X Namespaces
      /\ won = {} => Logged(Merge(clock[p], dbv[p], rows), v, won) = {}
  BY <1>1, LoggedProps
<1> QED  BY <1>3, <1>4, <1>5, <1>6 DEF won, v

\* Raising one database to a version w that covers its new rows and log.
LEMMA DatabaseStep ==
    ASSUME DatabaseOK, NEW p \in Peers, NEW w \in Nat, w >= dbv[p],
           NEW table \in [Cells -> ClockRows(w)], NEW entries \in SUBSET ((1 .. w) \X Namespaces),
           clock' = [clock EXCEPT ![p] = table], dbv' = [dbv EXCEPT ![p] = w],
           log' = [log EXCEPT ![p] = @ \cup entries],
           cursor' \in [Peers -> [Peers -> [Namespaces -> Nat]]],
           health' \in [Peers -> [Peers -> [Namespaces -> {"none", "ok", "error"}]]]
    PROVE  DatabaseOK' /\ \A x \in Peers : dbv'[x] >= dbv[x]
<1>1. dbv' \in [Peers -> Nat] /\ \A x \in Peers : dbv'[x] >= dbv[x]
  BY DEF DatabaseOK
<1>2. DOMAIN clock' = Peers /\ \A x \in Peers : clock'[x] \in [Cells -> ClockRows(dbv'[x])]
  BY DEF DatabaseOK
<1>3. DOMAIN log' = Peers /\ \A x \in Peers : log'[x] \subseteq (1 .. dbv'[x]) \X Namespaces
  <2>1. ASSUME NEW x \in Peers PROVE log'[x] \subseteq (1 .. dbv'[x]) \X Namespaces
    <3>1. dbv[x] \in Nat /\ log[x] \subseteq (1 .. dbv[x]) \X Namespaces
      BY DEF DatabaseOK
    <3>2. (1 .. dbv[x]) \X Namespaces \subseteq (1 .. dbv'[x]) \X Namespaces
      BY <1>1, <3>1
    <3> QED  BY <3>1, <3>2 DEF DatabaseOK
  <2> QED  BY <2>1 DEF DatabaseOK
<1> QED  BY <1>1, <1>2, <1>3 DEF DatabaseOK

\* A local write keeps the tables of a database well typed and moves its
\* version forward (Store, Supersede, Signal).
LEMMA LocalWriteOK ==
    ASSUME ConstantsAssumption, DatabaseOK, NEW p \in Peers,
           NEW vals, DOMAIN vals \subseteq Cells, \A c \in DOMAIN vals : vals[c] \in Nat,
           LocalWrite(p, vals)
    PROVE  DatabaseOK' /\ \A x \in Peers : dbv'[x] >= dbv[x]
<1> DEFINE written == Write(clock[p], dbv[p], vals)
           w == dbv[p] + 1
           cells == DOMAIN vals
           entries == Logged(written, w, cells)
<1>1. dbv[p] \in Nat /\ clock[p] \in [Cells -> ClockRows(dbv[p])]
  BY DEF DatabaseOK
<1>2. written \in [Cells -> ClockRows(dbv[p] + 1)]
  BY <1>1, WriteProps
<1>4. entries \in SUBSET ((1 .. dbv[p] + 1) \X Namespaces)
  <2>1. w \in 1 .. dbv[p] + 1
    BY <1>1
  <2>2. entries \subseteq {w} \X Namespaces
    <3> HIDE DEF w, written
    <3> QED  BY LoggedProps
  <2> HIDE DEF entries, w
  <2> QED  BY <2>1, <2>2
<1>5. /\ clock' = [clock EXCEPT ![p] = written] /\ dbv' = [dbv EXCEPT ![p] = dbv[p] + 1]
      /\ log' = [log EXCEPT ![p] = @ \cup entries] /\ cursor' = cursor /\ health' = health
  BY DEF LocalWrite
<1> QED
  <2> HIDE DEF written, entries
  <2>1. dbv[p] + 1 \in Nat /\ dbv[p] + 1 >= dbv[p]
    BY <1>1
  <2>2. /\ cursor' \in [Peers -> [Peers -> [Namespaces -> Nat]]]
        /\ health' \in [Peers -> [Peers -> [Namespaces -> {"none", "ok", "error"}]]]
    BY <1>5 DEF DatabaseOK
  <2> QED  BY <1>2, <1>4, <1>5, <2>1, <2>2, DatabaseStep

\* So does merging a batch (ApplyBatch, accepted).
LEMMA AcceptOK ==
    ASSUME ConstantsAssumption, DatabaseOK, NEW p \in Peers, NEW q \in Peers,
           NEW b, IsBatch(b), Accept(p, q, b)
    PROVE  DatabaseOK' /\ \A x \in Peers : dbv'[x] >= dbv[x]
<1> DEFINE merged == Merge(clock[p], dbv[p], b.rows)
           w == MergedVersion(clock[p], dbv[p], b.rows)
           won == Won(clock[p], b.rows)
           entries == LoggedByMerge(p, b.rows)
<1>1. /\ dbv[p] \in Nat /\ clock[p] \in [Cells -> ClockRows(dbv[p])]
      /\ dbv[b.from] \in Nat /\ DOMAIN b.rows \subseteq Cells
      /\ \A c \in DOMAIN b.rows : b.rows[c] \in ClockRows(dbv[b.from])
  BY DEF DatabaseOK, IsBatch
<1>2. /\ w \in Nat /\ w >= dbv[p] /\ (won # {} => w >= dbv[p] + 1)
      /\ merged \in [Cells -> ClockRows(w)]
  BY <1>1, MergeProps
<1>4. entries \in SUBSET ((1 .. w) \X Namespaces)
  <2>0. entries \subseteq {dbv[p] + 1} \X Namespaces /\ (won = {} => entries = {})
    BY <1>1, LoggedByMergeProps
  <2> HIDE DEF entries, won, w
  <2>1. CASE won = {}
    BY <2>0, <2>1
  <2>2. CASE won # {}
    <3>1. dbv[p] + 1 \in 1 .. w
      BY <1>1, <1>2, <2>2
    <3> QED  BY <2>0, <3>1
  <2> QED  BY <2>1, <2>2
<1>5. /\ clock' = [clock EXCEPT ![p] = merged] /\ dbv' = [dbv EXCEPT ![p] = w]
      /\ log' = [log EXCEPT ![p] = @ \cup entries]
      /\ cursor' = (IF b.max > 0 THEN [cursor EXCEPT ![p][q][b.ns] = b.max] ELSE cursor)
      /\ health' = [health EXCEPT ![p][q][b.ns] = "ok"]
  BY DEF Accept
<1>6. b.max \in Nat /\ b.ns \in Namespaces
  BY <1>1 DEF IsBatch
<1>7. cursor' \in [Peers -> [Peers -> [Namespaces -> Nat]]]
  BY <1>5, <1>6 DEF DatabaseOK
<1>8. health' \in [Peers -> [Peers -> [Namespaces -> {"none", "ok", "error"}]]]
  BY <1>5, <1>6 DEF DatabaseOK
<1> QED
  <2> HIDE DEF merged, w, won, entries
  <2> QED  BY <1>2, <1>4, <1>5, <1>7, <1>8, DatabaseStep

\* So does refusing one (quarantineBatch).
LEMMA QuarantineOK ==
    ASSUME DatabaseOK, NEW p \in Peers, NEW q \in Peers, NEW b, IsBatch(b), Quarantine(p, q, b)
    PROVE  DatabaseOK' /\ \A x \in Peers : dbv'[x] >= dbv[x]
<1>1. b.ns \in Namespaces
  BY DEF IsBatch
<1>2. health' \in [Peers -> [Peers -> [Namespaces -> {"none", "ok", "error"}]]]
  BY <1>1 DEF DatabaseOK, Quarantine
<1> QED  BY <1>2 DEF DatabaseOK, Quarantine

\* The sessions and late batches that a step does not touch stay well formed.
LEMMA SessionStep ==
    ASSUME DatabaseOK, DatabaseOK', \A x \in Peers : dbv'[x] >= dbv[x], SessionsOK,
           NEW p \in Peers, NEW s, IsSession(p, s)', sess' = [sess EXCEPT ![p] = s]
    PROVE  SessionsOK'
<1>1. DOMAIN sess' = Peers /\ \A x \in Peers \ {p} : sess'[x] = sess[x]
  BY DEF SessionsOK
<1>2. sess'[p] = s
  BY DEF SessionsOK
<1>3. ASSUME NEW x \in Peers PROVE IsSession(x, sess[x])'
  <2>1. CASE x = p
    BY <1>2, <2>1 DEF IsSession, IsBatch
  <2>2. CASE x # p
    <3>1. IsSession(x, sess[x]) /\ sess'[x] = sess[x]
      BY <1>1, <2>2 DEF SessionsOK
    <3> QED  BY <3>1, SessionMonotone
  <2> QED  BY <2>1, <2>2
<1> QED  BY <1>1, <1>3 DEF SessionsOK

\* And so do the batches whose clients are gone.
LEMMA LateStep ==
    ASSUME DatabaseOK, DatabaseOK', \A x \in Peers : dbv'[x] >= dbv[x], LateOK,
           \A b \in late' : b \in late \/ IsBatch(b)
    PROVE  LateOK'
<1>1. ASSUME NEW b \in late' PROVE IsBatch(b)'
  <2>1. IsBatch(b)
    BY DEF LateOK
  <2> QED  BY <2>1, BatchMonotone
<1> QED  BY <1>1 DEF LateOK

\* A step that leaves every database alone leaves batches and sessions alone.
LEMMA DatabaseUnchanged ==
    ASSUME DatabaseOK, UNCHANGED <<database, cursor, health>>
    PROVE  /\ DatabaseOK' /\ \A x \in Peers : dbv'[x] >= dbv[x]
           /\ \A b : IsBatch(b) => IsBatch(b)'
<1>1. DatabaseOK' /\ \A x \in Peers : dbv'[x] >= dbv[x]
  BY DEF DatabaseOK, database
<1>2. dbv' = dbv
  BY DEF database
<1> QED  BY <1>1, <1>2 DEF IsBatch

\* The session that is left after a namespace is done.
LEMMA AfterIsSession ==
    ASSUME NEW p \in Peers, NEW s, IsSession(p, s), s.pc = "reply", NEW n
    PROVE  IsSession(p, After(s, n))
<1>1. s.todo \in (SUBSET Namespaces) \ {{}} /\ s.peer \in Peers
  BY DEF IsSession, Idle
<1> QED  BY <1>1 DEF IsSession, After, Idle

\* One session moves on and the databases only grow: types are preserved.
LEMMA TypeStep ==
    ASSUME TypeOK, DatabaseOK', \A x \in Peers : dbv'[x] >= dbv[x],
           NEW p \in Peers, NEW s, IsSession(p, s), sess' = [sess EXCEPT ![p] = s],
           \A b \in late' : b \in late \/ IsBatch(b)
    PROVE  TypeOK'
<1>1. IsSession(p, s)'
  BY SessionMonotone DEF TypeOK
<1>2. SessionsOK'
  BY <1>1, SessionStep DEF TypeOK
<1>3. LateOK'
  BY LateStep DEF TypeOK
<1> QED  BY <1>2, <1>3 DEF TypeOK

\* No session moves and the databases only grow: types are preserved.
LEMMA TypeQuiet ==
    ASSUME TypeOK, DatabaseOK', \A x \in Peers : dbv'[x] >= dbv[x],
           sess' = sess, \A b \in late' : b \in late
    PROVE  TypeOK'
<1>1. SessionsOK'
  <2>1. ASSUME NEW x \in Peers PROVE IsSession(x, sess[x])'
    BY SessionMonotone DEF TypeOK, SessionsOK
  <2> QED  BY <2>1 DEF TypeOK, SessionsOK
<1>2. LateOK'
  BY LateStep DEF TypeOK
<1> QED  BY <1>1, <1>2 DEF TypeOK

\* Type correctness, action by action: the local writes,
LEMMA TypeLocal ==
    ASSUME ConstantsAssumption, TypeOK, NEW p \in Peers, NEW m \in Memories,
           Store(p, m) \/ Supersede(p, m) \/ Signal(p, m)
    PROVE  TypeOK'
<1>1. PICK vals : /\ DOMAIN vals \subseteq Cells /\ \A c \in DOMAIN vals : vals[c] \in Nat
                  /\ LocalWrite(p, vals)
  <2>1. CASE Store(p, m)
    BY <2>1, StoredProps DEF Store
  <2>2. CASE Supersede(p, m)
    <3> DEFINE old == <<Replaces[m], "lifecycle">>
               v == Also(Stored(m), old, Superseded)
    <3>1. old \in Cells
      BY <2>2 DEF Supersede, ConstantsAssumption, Cells
    <3>2. DOMAIN v \subseteq Cells /\ \A c \in DOMAIN v : v[c] \in Nat
      <4> HIDE DEF old
      <4>1. /\ DOMAIN v = DOMAIN Stored(m) \cup {old} /\ v[old] = Superseded
            /\ \A c \in DOMAIN Stored(m) : c # old => v[c] = Stored(m)[c]
        BY DEF Also
      <4>2. DOMAIN Stored(m) \subseteq Cells /\ \A c \in DOMAIN Stored(m) : Stored(m)[c] \in Nat
        BY StoredProps
      <4> HIDE DEF v
      <4> QED  BY <3>1, <4>1, <4>2 DEF Superseded
    <3> QED  BY <2>2, <3>2 DEF Supersede
  <2>3. CASE Signal(p, m)
    <3> DEFINE v == [c \in {<<m, "signal">>} |-> Set]
    <3>1. DOMAIN v \subseteq Cells /\ \A c \in DOMAIN v : v[c] \in Nat
      BY DEF Cells, Set
    <3> QED  BY <2>3, <3>1 DEF Signal
  <2> QED  BY <2>1, <2>2, <2>3
<1>2. DatabaseOK' /\ \A x \in Peers : dbv'[x] >= dbv[x]
  BY <1>1, LocalWriteOK DEF TypeOK
<1> QED  BY <1>1, <1>2, TypeQuiet DEF LocalWrite

\* the start of a session,
LEMMA TypeBeginSync ==
    ASSUME ConstantsAssumption, TypeOK, NEW p \in Peers, NEW q \in Peers, BeginSync(p, q)
    PROVE  TypeOK'
<1> DEFINE s == [pc |-> "next", peer |-> q, todo |-> Local[p] \cap Allow[p][q]]
<1>1. DatabaseOK' /\ \A x \in Peers : dbv'[x] >= dbv[x]
  BY DatabaseUnchanged DEF BeginSync, TypeOK
<1>2. IsSession(p, s)
  <2>1. Local[p] \cap Allow[p][q] \in (SUBSET Namespaces) \ {{}}
    BY DEF BeginSync, ConstantsAssumption, NamespacesAllowed
  <2> QED  BY <2>1 DEF IsSession
<1>3. sess' = [sess EXCEPT ![p] = s] /\ late' = late
  BY DEF BeginSync, Become
<1> HIDE DEF s
<1> QED  BY <1>1, <1>2, <1>3, TypeStep

\* the extraction of a batch to push,
LEMMA TypePushBatch ==
    ASSUME ConstantsAssumption, TypeOK, NEW p \in Peers, PushBatch(p)
    PROVE  TypeOK'
<1>1. IsSession(p, sess[p]) /\ sess[p].pc = "next"
  BY DEF PushBatch, TypeOK, SessionsOK
<1>2. sess[p].peer \in Peers /\ sess[p].todo \in (SUBSET Namespaces) \ {{}}
  BY <1>1 DEF IsSession, Idle
<1>3. PICK n \in sess[p].todo :
         Become(p, [pc |-> "sent", peer |-> sess[p].peer, todo |-> sess[p].todo,
                    batch |-> ExtractBatch(p, sess[p].peer, n)])
  BY DEF PushBatch
<1> DEFINE b == ExtractBatch(p, sess[p].peer, n)
           s == [pc |-> "sent", peer |-> sess[p].peer, todo |-> sess[p].todo, batch |-> b]
<1>4. IsBatch(b) /\ b.from = p /\ b.to = sess[p].peer /\ b.ns = n
  <2>1. IsBatch(b)
    BY <1>2, <1>3, ExtractIsBatch DEF TypeOK
  <2> QED  BY <2>1 DEF ExtractBatch
<1>5. DatabaseOK' /\ \A x \in Peers : dbv'[x] >= dbv[x]
  BY DatabaseUnchanged DEF PushBatch, TypeOK
<1>6. IsSession(p, s)
  <2> HIDE DEF b
  <2> QED  BY <1>2, <1>3, <1>4 DEF IsSession
<1>7. sess' = [sess EXCEPT ![p] = s] /\ late' = late
  BY <1>3 DEF PushBatch, Become
<1> HIDE DEF s
<1> QED  BY <1>5, <1>6, <1>7, TypeStep

\* its arrival at the peer,
LEMMA TypeServePush ==
    ASSUME ConstantsAssumption, TypeOK, NEW p \in Peers, ServePush(p)
    PROVE  TypeOK'
<1> DEFINE b == sess[p].batch
           s == [pc |-> "pull", peer |-> b.to, todo |-> sess[p].todo, ns |-> b.ns]
<1>1. IsSession(p, sess[p]) /\ sess[p].pc = "sent" /\ late' = late
  BY DEF ServePush, TypeOK, SessionsOK
<1>2. IsBatch(b) /\ b.to \in Peers /\ b.ns \in sess[p].todo
      /\ sess[p].todo \in (SUBSET Namespaces) \ {{}}
  BY <1>1 DEF IsSession, Idle, IsBatch
<1>3. CASE Accept(b.to, p, b) /\ Become(p, s)
  <2>1. DatabaseOK' /\ \A x \in Peers : dbv'[x] >= dbv[x]
    BY <1>2, <1>3, AcceptOK DEF TypeOK
  <2>2. IsSession(p, s)
    BY <1>2 DEF IsSession
  <2>3. sess' = [sess EXCEPT ![p] = s]
    BY <1>3 DEF Become
  <2> HIDE DEF s
  <2> QED  BY <1>1, <2>1, <2>2, <2>3, TypeStep
<1>4. CASE Quarantine(b.to, p, b) /\ Become(p, Idle)
  <2>1. DatabaseOK' /\ \A x \in Peers : dbv'[x] >= dbv[x]
    BY <1>2, <1>4, QuarantineOK DEF TypeOK
  <2>2. IsSession(p, Idle) /\ sess' = [sess EXCEPT ![p] = Idle]
    BY <1>4 DEF IsSession, Become
  <2> QED  BY <1>1, <2>1, <2>2, TypeStep
<1> QED  BY <1>3, <1>4 DEF ServePush

\* the extraction of a batch at the peer,
LEMMA TypeServePull ==
    ASSUME ConstantsAssumption, TypeOK, NEW p \in Peers, ServePull(p)
    PROVE  TypeOK'
<1> DEFINE b == ExtractBatch(sess[p].peer, p, sess[p].ns)
           s == [pc |-> "reply", peer |-> sess[p].peer, todo |-> sess[p].todo, batch |-> b]
<1>1. IsSession(p, sess[p]) /\ sess[p].pc = "pull"
  BY DEF ServePull, TypeOK, SessionsOK
<1>2. sess[p].peer \in Peers /\ sess[p].todo \in (SUBSET Namespaces) \ {{}}
      /\ sess[p].ns \in sess[p].todo
  BY <1>1 DEF IsSession, Idle
<1>3. IsBatch(b) /\ b.from = sess[p].peer /\ b.to = p /\ b.ns = sess[p].ns
  <2>1. IsBatch(b)
    BY <1>2, ExtractIsBatch DEF TypeOK
  <2> QED  BY <2>1 DEF ExtractBatch
<1>4. DatabaseOK' /\ \A x \in Peers : dbv'[x] >= dbv[x]
  BY DatabaseUnchanged DEF ServePull, TypeOK
<1>5. IsSession(p, s)
  <2> HIDE DEF b
  <2> QED  BY <1>2, <1>3 DEF IsSession
<1>6. sess' = [sess EXCEPT ![p] = s] /\ late' = late
  BY DEF ServePull, Become
<1> HIDE DEF s
<1> QED  BY <1>4, <1>5, <1>6, TypeStep

\* its arrival here,
LEMMA TypeApplyReply ==
    ASSUME ConstantsAssumption, TypeOK, NEW p \in Peers, ApplyReply(p)
    PROVE  TypeOK'
<1> DEFINE b == sess[p].batch
           s == After(sess[p], b.ns)
<1>1. IsSession(p, sess[p]) /\ sess[p].pc = "reply" /\ late' = late
  BY DEF ApplyReply, TypeOK, SessionsOK
<1>2. IsBatch(b) /\ b.from \in Peers
  BY <1>1 DEF IsSession, Idle, IsBatch
<1>3. CASE Accept(p, b.from, b) /\ Become(p, s)
  <2>1. DatabaseOK' /\ \A x \in Peers : dbv'[x] >= dbv[x]
    BY <1>2, <1>3, AcceptOK DEF TypeOK
  <2>2. IsSession(p, s)
    BY <1>1, AfterIsSession
  <2>3. sess' = [sess EXCEPT ![p] = s]
    BY <1>3 DEF Become
  <2> HIDE DEF s
  <2> QED  BY <1>1, <2>1, <2>2, <2>3, TypeStep
<1>4. CASE Quarantine(p, b.from, b) /\ Become(p, Idle)
  <2>1. DatabaseOK' /\ \A x \in Peers : dbv'[x] >= dbv[x]
    BY <1>2, <1>4, QuarantineOK DEF TypeOK
  <2>2. IsSession(p, Idle) /\ sess' = [sess EXCEPT ![p] = Idle]
    BY <1>4 DEF IsSession, Become
  <2> QED  BY <1>1, <2>1, <2>2, TypeStep
<1> QED  BY <1>3, <1>4 DEF ApplyReply

\* the end of a session before its time,
LEMMA TypeAbort ==
    ASSUME ConstantsAssumption, TypeOK, NEW p \in Peers, Abort(p)
    PROVE  TypeOK'
<1>1. IsSession(p, sess[p])
  BY DEF TypeOK, SessionsOK
<1>2. DatabaseOK' /\ \A x \in Peers : dbv'[x] >= dbv[x]
  BY DatabaseUnchanged DEF Abort, TypeOK
<1>3. IsSession(p, Idle) /\ sess' = [sess EXCEPT ![p] = Idle]
  BY DEF Abort, IsSession, Become
<1>4. \A b \in late' : b \in late \/ IsBatch(b)
  <2>1. CASE late' = late
    BY <2>1
  <2>2. CASE sess[p].pc = "sent" /\ late' = late \cup {sess[p].batch}
    <3>1. IsBatch(sess[p].batch)
      BY <1>1, <2>2 DEF IsSession, Idle
    <3> QED  BY <2>2, <3>1
  <2> QED  BY <2>1, <2>2 DEF Abort
<1> QED  BY <1>2, <1>3, <1>4, TypeStep

\* and the arrival of a batch after it.
LEMMA TypeServeLate ==
    ASSUME ConstantsAssumption, TypeOK, NEW b \in late, ServeLate(b)
    PROVE  TypeOK'
<1>1. IsBatch(b) /\ b.from \in Peers /\ b.to \in Peers
  BY DEF TypeOK, LateOK, IsBatch
<1>2. DatabaseOK' /\ \A x \in Peers : dbv'[x] >= dbv[x]
  BY <1>1, AcceptOK, QuarantineOK DEF ServeLate, TypeOK
<1> QED  BY <1>2, TypeQuiet DEF ServeLate

\* The empty databases are well typed.
LEMMA TypeInit == ConstantsAssumption /\ Init => TypeOK
  BY DEF Init, TypeOK, DatabaseOK, SessionsOK, LateOK, IsSession, ClockRows, Absent

\* Every step keeps the types.
LEMMA TypeNext == ConstantsAssumption /\ TypeOK /\ [Next]_vars => TypeOK'
<1> SUFFICES ASSUME ConstantsAssumption, TypeOK, [Next]_vars PROVE TypeOK'
  OBVIOUS
<1>1. ASSUME NEW p \in Peers, NEW m \in Memories,
             Store(p, m) \/ Supersede(p, m) \/ Signal(p, m)
      PROVE  TypeOK'
  BY <1>1, TypeLocal
<1>2. ASSUME NEW p \in Peers, NEW q \in Peers, BeginSync(p, q) PROVE TypeOK'
  BY <1>2, TypeBeginSync
<1>3. ASSUME NEW p \in Peers, PushBatch(p) \/ ServePush(p) \/ ServePull(p)
      PROVE  TypeOK'
  BY <1>3, TypePushBatch, TypeServePush, TypeServePull
<1>4. ASSUME NEW p \in Peers, ApplyReply(p) \/ Abort(p) PROVE TypeOK'
  BY <1>4, TypeApplyReply, TypeAbort
<1>5. ASSUME NEW b \in late, ServeLate(b) PROVE TypeOK'
  BY <1>5, TypeServeLate
<1>6. CASE UNCHANGED vars
  <2>1. DatabaseOK' /\ SessionsOK' /\ LateOK'
    BY <1>6 DEF vars, TypeOK, DatabaseOK, SessionsOK, LateOK, IsSession, IsBatch
  <2> QED  BY <2>1 DEF TypeOK
<1> QED  BY <1>1, <1>2, <1>3, <1>4, <1>5, <1>6 DEF Next

\* Type correctness, with the bound on versions: whatever is lost, repeated or
\* reordered, no clock row, log entry or batch is ahead of its database.
THEOREM TypeCorrect == Spec => []TypeOK
<1>1. Init => TypeOK
  BY ConstantsAssumption, TypeInit
<1>2. TypeOK /\ [Next]_vars => TypeOK'
  BY ConstantsAssumption, TypeNext
<1> QED  BY <1>1, <1>2, PTL DEF Spec

(***************************************************************************)
(* Namespace isolation.  The invariant is not inductive by itself: what a  *)
(* batch carries depends on the change log, so the log has to keep the     *)
(* namespaces apart, and sessions and batches under way have to stay       *)
(* within what both peers allow.  What a receiver logs depends on the rows *)
(* its edges and spans find, so artifacts have to keep the namespace of    *)
(* the memories that describe them.                                        *)
(***************************************************************************)

\* The row of an artifact names the namespace of a memory that describes it.
Coherent(t) ==
    \A a \in Artifacts :
        LET c == <<a, "namespace">>
        IN  c \in DOMAIN t =>
                \/ t[c] = Absent
                \/ \E m \in Memories : a \in Describes[m] /\ t[c].val = Rank[NsOf[m]]

ConfinedBatch(b) ==
    /\ b.ns \in Shared(b.from, b.to)
    /\ \A c \in DOMAIN b.rows : NamespacesOf(c) \subseteq {b.ns}
    /\ Coherent(b.rows)

ConfinedSession(p, s) ==
    /\ s.pc # "idle" => s.todo \subseteq Shared(p, s.peer)
    /\ s.pc \in {"sent", "reply"} => ConfinedBatch(s.batch)

\* The cells at a version logged under a namespace are all of that namespace.
LogSeparates(p) ==
    \A e \in log[p], c \in Cells : clock[p][c].ver = e[1] => NamespacesOf(c) \subseteq {e[2]}

DatabaseConfined(p) == LogSeparates(p) /\ Coherent(clock[p])

Confined ==
    /\ NamespaceIsolation
    /\ \A p \in Peers : DatabaseConfined(p)
    /\ \A p \in Peers : ConfinedSession(p, sess[p])
    /\ \A b \in late : ConfinedBatch(b)

\* No supersede and no relation reaches over to another namespace, and no
\* artifact is shared by memories of two.
StaysWithin ==
    \A m \in Memories :
        /\ \A k \in Targets(m) : NsOf[k] = NsOf[m]
        /\ \A k \in Memories : Mentions[k] \cap Mentions[m] # {} => NsOf[k] = NsOf[m]

\* p holds cell c rightly.
Entitled(p, c) == Stores(p, c) \/ \E q \in Peers : NamespacesOf(c) \cap Shared(p, q) # {}

\* A batch ExtractBatch builds from a log that separates namespaces is about
\* memories of the namespace that was asked for.
LEMMA ExtractConfined ==
    ASSUME DatabaseOK, NEW p \in Peers, NEW q \in Peers, NEW n, DatabaseConfined(p),
           n \in Shared(p, q)
    PROVE  ConfinedBatch(ExtractBatch(p, q, n))
<1> DEFINE page == Page(p, q, n)
           rows == Restrict(clock[p], ChangedAt(p, page))
<1>1. ASSUME NEW c \in ChangedAt(p, page) PROVE NamespacesOf(c) \subseteq {n}
  <2>1. c \in Cells /\ clock[p][c].ver \in Pending(p, q, n)
    BY DEF ChangedAt, Page, Lowest
  <2>2. PICK e \in log[p] : e[2] = n /\ e[1] = clock[p][c].ver
    BY <2>1 DEF Pending
  <2> QED  BY <2>1, <2>2 DEF DatabaseConfined, LogSeparates
<1>2. /\ DOMAIN rows = ChangedAt(p, page)
      /\ \A c \in DOMAIN rows : rows[c] = clock[p][c] /\ c \in Cells
  BY DEF Restrict, ChangedAt
<1>3. Coherent(rows)
  <2>1. DOMAIN clock[p] = Cells
    BY DEF DatabaseOK
  <2> HIDE DEF rows
  <2> QED  BY <1>2, <2>1 DEF DatabaseConfined, Coherent
<1> QED  BY <1>1, <1>2, <1>3 DEF ConfinedBatch, ExtractBatch

\* Merging coherent rows into a coherent table leaves it coherent.
LEMMA CoherentMerge ==
    ASSUME NEW t, NEW v, NEW rows, Coherent(t), Coherent(rows),
           \A c \in DOMAIN t : t[c].cv \in Nat /\ t[c].val \in Nat
    PROVE  Coherent(Merge(t, v, rows))
<1> DEFINE u == Merge(t, v, rows)
<1> SUFFICES ASSUME NEW a \in Artifacts, <<a, "namespace">> \in DOMAIN u
             PROVE  \/ u[<<a, "namespace">>] = Absent
                    \/ \E m \in Memories : /\ a \in Describes[m]
                                           /\ u[<<a, "namespace">>].val = Rank[NsOf[m]]
  BY DEF Coherent
<1> DEFINE c == <<a, "namespace">>
<1>1. c \in DOMAIN t
  BY DEF Merge
<1>2. CASE c \notin Won(t, rows)
  <2>1. u[c] = t[c]
    BY <1>1, <1>2 DEF Merge
  <2> QED  BY <1>1, <2>1 DEF Coherent
<1>3. CASE c \in Won(t, rows)
  <2>1. c \in DOMAIN rows /\ Newer(rows[c], t[c]) /\ u[c].val = rows[c].val
    BY <1>1, <1>3 DEF Merge, Won, Stamped
  <2>2. rows[c] # Absent
    BY <1>1, <2>1 DEF Newer, Absent
  <2> QED  BY <2>1, <2>2 DEF Coherent
<1> QED  BY <1>2, <1>3

\* The namespace a coherent table gives an artifact is a describing memory's.
LEMMA ArtifactNsProps ==
    ASSUME ConstantsAssumption, NEW t, Coherent(t), NEW a \in Artifacts,
           <<a, "namespace">> \in DOMAIN t, NEW n \in ArtifactNs(t, a)
    PROVE  \E m \in Memories : a \in Describes[m] /\ n = NsOf[m]
<1>1. n \in Namespaces /\ Rank[n] = t[<<a, "namespace">>].val /\ Rank[n] # 0
  BY DEF ArtifactNs, ConstantsAssumption
<1>2. PICK m \in Memories : a \in Describes[m] /\ t[<<a, "namespace">>].val = Rank[NsOf[m]]
  BY <1>1 DEF Coherent, Absent
<1>3. NsOf[m] \in Namespaces
  BY DEF ConstantsAssumption
<1>4. \A i, j \in Namespaces : Rank[i] = Rank[j] => i = j
  BY DEF ConstantsAssumption
<1> QED  BY <1>1, <1>2, <1>3, <1>4

\* A cell of kind "namespace" is an artifact's.
LEMMA ArtifactCell ==
    ASSUME NEW c \in Cells, c[2] = "namespace"
    PROVE  c[1] \in Artifacts /\ c = <<c[1], "namespace">>
<1>1. c \notin Memories \X {"claim", "lifecycle", "signal"}
  OBVIOUS
<1>2. c \in Artifacts \X {"namespace"}
  BY <1>1 DEF Cells
<1> QED  BY <1>2

\* Rows of one namespace are logged under it.
LEMMA LoggedWithin ==
    ASSUME ConstantsAssumption, NEW t, DOMAIN t = Cells, Coherent(t), NEW v,
           NEW n \in Namespaces, NEW cells \in SUBSET {c \in Cells : NamespacesOf(c) \subseteq {n}}
    PROVE  \A e \in Logged(t, v, cells) : e[1] = v /\ e[2] = n
<1>1. ASSUME NEW c \in cells, NEW o \in RowNs(t, c) PROVE o = n
  <2>1. CASE c[2] = "namespace"
    <3>1. c[1] \in Artifacts /\ c = <<c[1], "namespace">>
      BY <2>1, ArtifactCell
    <3>2. o \in ArtifactNs(t, c[1])
      BY <2>1 DEF RowNs
    <3>3. PICK m \in Memories : c[1] \in Describes[m] /\ o = NsOf[m]
      BY <3>1, <3>2, ArtifactNsProps
    <3>4. o \in NamespacesOf(c)
      BY <2>1, <3>3 DEF NamespacesOf
    <3> QED  BY <3>4
  <2>2. CASE c[2] # "namespace"
    BY <2>2 DEF RowNs, MemoryNs, NamespacesOf
  <2> QED  BY <2>1, <2>2
<1>2. \A o \in UNION {RowNs(t, c) : c \in cells} : o = n
  BY <1>1
<1> QED  BY <1>2 DEF Logged

\* Edges and spans that stay within a namespace are logged under it, also while
\* the memory they belong to is not there yet.
LEMMA BorrowedWithin ==
    ASSUME ConstantsAssumption, StaysWithin, NEW t, DOMAIN t = Cells, Coherent(t), NEW v,
           \A c \in Cells : t[c].cv \in Nat /\ t[c].val \in Nat,
           NEW rows, Coherent(rows), NEW m \in Memories
    PROVE  Borrowed(t, v, rows, m) \subseteq {NsOf[m]}
<1> DEFINE early == Restrict(rows, Before(rows, m))
           seen == Merge(t, v, early)
<1>1. Coherent(early)
  BY DEF Restrict, Before, Coherent
<1>2. Coherent(seen)
  <2> HIDE DEF early
  <2> QED  BY <1>1, CoherentMerge
<1>3. DOMAIN seen = Cells
  BY DEF Merge
<1> HIDE DEF seen, early
<1>4. ASSUME NEW k \in Targets(m) PROVE MemoryNs(seen, k) \subseteq {NsOf[m]}
  BY DEF StaysWithin, MemoryNs
<1>5. ASSUME NEW a \in Mentions[m], NEW n \in ArtifactNs(seen, a) PROVE n = NsOf[m]
  <2>1. a \in Artifacts /\ <<a, "namespace">> \in DOMAIN seen
    BY <1>3 DEF ConstantsAssumption, Cells
  <2>2. PICK k \in Memories : a \in Describes[k] /\ n = NsOf[k]
    BY <1>2, <2>1, ArtifactNsProps
  <2>3. a \in Mentions[k]
    BY <2>2 DEF ConstantsAssumption
  <2> QED  BY <2>2, <2>3 DEF StaysWithin
<1> DEFINE lent == UNION ({MemoryNs(seen, k) : k \in Targets(m)} \cup
                          {ArtifactNs(seen, a) : a \in Mentions[m]})
<1>6. Borrowed(t, v, rows, m) \subseteq lent
  BY DEF Borrowed, seen, early
<1>7. ASSUME NEW n \in lent PROVE n = NsOf[m]
  BY <1>4, <1>5, <1>7
<1> HIDE DEF lent
<1> QED  BY <1>6, <1>7

\* One transaction of p that writes the table and the log entries given, about
\* the memories of a single namespace and at versions that are new to p.
ConfinedTransaction(p, n, table, entries) ==
    /\ clock' = [clock EXCEPT ![p] = table]
    /\ log' = [log EXCEPT ![p] = @ \cup entries]
    /\ \A c \in Cells : \/ table[c] = clock[p][c]
                        \/ table[c].ver > dbv[p] /\ NamespacesOf(c) \subseteq {n}
    /\ \A c \in Cells : table[c] # clock[p][c] => Entitled(p, c)
    /\ \A e \in entries : e[1] > dbv[p] /\ e[2] = n
    /\ Coherent(table)

\* It keeps p's log separate and p isolated.
LEMMA ConfinedStep ==
    ASSUME DatabaseOK, NamespaceIsolation, \A x \in Peers : DatabaseConfined(x),
           NEW p \in Peers, NEW n, NEW table, NEW entries,
           ConfinedTransaction(p, n, table, entries)
    PROVE  NamespaceIsolation' /\ \A x \in Peers : DatabaseConfined(x)'
<1>0. /\ clock' = [clock EXCEPT ![p] = table]
      /\ log' = [log EXCEPT ![p] = @ \cup entries]
      /\ \A c \in Cells : \/ table[c] = clock[p][c]
                          \/ table[c].ver > dbv[p] /\ NamespacesOf(c) \subseteq {n}
      /\ \A c \in Cells : table[c] # clock[p][c] => Entitled(p, c)
      /\ \A e \in entries : e[1] > dbv[p] /\ e[2] = n
      /\ Coherent(table)
  BY DEF ConfinedTransaction
<1>1. /\ \A x \in Peers \ {p} : clock'[x] = clock[x] /\ log'[x] = log[x]
      /\ clock'[p] = table /\ log'[p] = log[p] \cup entries
  BY <1>0 DEF DatabaseOK
<1>2. NamespaceIsolation'
  <2> SUFFICES ASSUME NEW x \in Peers, NEW c \in Cells, clock'[x][c] # Absent
               PROVE  Entitled(x, c)
    BY DEF NamespaceIsolation, Entitled, Stores, NamespacesOf, Shared
  <2>1. CASE clock'[x][c] = clock[x][c]
    BY <2>1 DEF NamespaceIsolation, Entitled
  <2>2. CASE clock'[x][c] # clock[x][c]
    <3>1. x = p /\ table[c] # clock[p][c]
      BY <1>1, <2>2
    <3> QED  BY <1>0, <3>1
  <2> QED  BY <2>1, <2>2
<1>3. ASSUME NEW x \in Peers PROVE LogSeparates(x)'
  <2>0. LogSeparates(x)
    BY DEF DatabaseConfined
  <2>1. CASE x # p
    BY <1>1, <2>0, <2>1 DEF LogSeparates, NamespacesOf
  <2>2. CASE x = p
    <3> SUFFICES ASSUME NEW e \in log[p] \cup entries, NEW c \in Cells, table[c].ver = e[1]
                 PROVE  NamespacesOf(c) \subseteq {e[2]}
      BY <1>1, <2>2 DEF LogSeparates, NamespacesOf
    <3>1. /\ dbv[p] \in Nat /\ log[p] \subseteq (1 .. dbv[p]) \X Namespaces
          /\ clock[p][c] \in ClockRows(dbv[p])
      BY DEF DatabaseOK
    <3>2. e \in log[p] => e[1] \in 1 .. dbv[p]
      BY <3>1
    <3>3. clock[p][c].ver \in 0 .. dbv[p]
      BY <3>1 DEF ClockRows
    <3>4. CASE e \in log[p] /\ table[c] = clock[p][c]
      BY <2>0, <2>2, <3>4 DEF LogSeparates
    <3>5. CASE e \in entries /\ NamespacesOf(c) \subseteq {n}
      BY <1>0, <3>5
    <3> QED  BY <1>0, <3>1, <3>2, <3>3, <3>4, <3>5
  <2> QED  BY <2>1, <2>2
<1>4. ASSUME NEW x \in Peers PROVE Coherent(clock'[x])
  <2>1. CASE x = p
    BY <1>0, <1>1, <2>1
  <2>2. CASE x # p
    BY <1>1, <2>2 DEF DatabaseConfined
  <2> QED  BY <2>1, <2>2
<1> QED  BY <1>2, <1>3, <1>4 DEF DatabaseConfined, Coherent

\* The values of artifact cells are namespaces of memories that describe them.
CoherentValues(vals) ==
    \A a \in Artifacts : <<a, "namespace">> \in DOMAIN vals =>
        \E m \in Memories : a \in Describes[m] /\ vals[<<a, "namespace">>] = Rank[NsOf[m]]

\* A local write to cells of one namespace keeps its peer isolated.
LEMMA ConfinedWrite ==
    ASSUME ConstantsAssumption, DatabaseOK, NamespaceIsolation,
           \A x \in Peers : DatabaseConfined(x),
           NEW p \in Peers, NEW n \in Namespaces, NEW vals, DOMAIN vals \subseteq Cells,
           \A c \in DOMAIN vals : NamespacesOf(c) \subseteq {n},
           \A c \in DOMAIN vals : Entitled(p, c),
           CoherentValues(vals),
           LocalWrite(p, vals)
    PROVE  NamespaceIsolation' /\ \A x \in Peers : DatabaseConfined(x)'
<1> DEFINE table == Write(clock[p], dbv[p], vals)
           w == dbv[p] + 1
           cells == DOMAIN vals
           entries == Logged(table, w, cells)
<1>1. dbv[p] \in Nat /\ DOMAIN clock[p] = Cells
  BY DEF DatabaseOK
<1>2. /\ DOMAIN table = Cells
      /\ \A c \in Cells : table[c] # clock[p][c] =>
             c \in DOMAIN vals /\ table[c].ver = dbv[p] + 1 /\ table[c].val = vals[c]
  BY <1>1 DEF Write
<1>3. clock' = [clock EXCEPT ![p] = table] /\ log' = [log EXCEPT ![p] = @ \cup entries]
  BY DEF LocalWrite
<1> HIDE DEF table
<1>4. Coherent(table)
  <2> SUFFICES ASSUME NEW a \in Artifacts
               PROVE  \/ table[<<a, "namespace">>] = Absent
                      \/ \E m \in Memories : /\ a \in Describes[m]
                                             /\ table[<<a, "namespace">>].val = Rank[NsOf[m]]
    BY DEF Coherent
  <2> DEFINE c == <<a, "namespace">>
  <2>1. c \in Cells
    BY DEF Cells
  <2>2. CASE table[c] = clock[p][c]
    BY <1>1, <2>1, <2>2 DEF DatabaseConfined, Coherent
  <2>3. CASE table[c] # clock[p][c]
    <3>1. c \in DOMAIN vals /\ table[c].val = vals[c]
      BY <1>2, <2>1, <2>3
    <3> QED  BY <3>1 DEF CoherentValues
  <2> QED  BY <2>2, <2>3
<1>5. \A e \in entries : e[1] > dbv[p] /\ e[2] = n
  <2>1. \A e \in entries : e[1] = w /\ e[2] = n
    <3>1. cells \in SUBSET {c \in Cells : NamespacesOf(c) \subseteq {n}}
      OBVIOUS
    <3>3. DOMAIN table = Cells
      BY <1>2
    <3> HIDE DEF w, cells
    <3>4. \A e \in Logged(table, w, cells) : e[1] = w /\ e[2] = n
      BY <1>4, <3>1, <3>3, LoggedWithin
    <3> QED  BY <3>4
  <2> HIDE DEF entries
  <2> QED  BY <1>1, <2>1
<1>6. /\ \A c \in Cells : \/ table[c] = clock[p][c]
                          \/ table[c].ver > dbv[p] /\ NamespacesOf(c) \subseteq {n}
      /\ \A c \in Cells : table[c] # clock[p][c] => Entitled(p, c)
  BY <1>1, <1>2
<1> HIDE DEF entries
<1>7. ConfinedTransaction(p, n, table, entries)
  BY <1>3, <1>4, <1>5, <1>6 DEF ConfinedTransaction
<1> QED  BY <1>7, ConfinedStep

\* Merging a batch about memories of a shared namespace keeps the peer isolated.
LEMMA ConfinedAccept ==
    ASSUME ConstantsAssumption, StaysWithin, DatabaseOK, NamespaceIsolation,
           \A x \in Peers : DatabaseConfined(x),
           NEW p \in Peers, NEW q \in Peers, NEW b, IsBatch(b), ConfinedBatch(b),
           p \in {b.from, b.to}, Accept(p, q, b)
    PROVE  NamespaceIsolation' /\ \A x \in Peers : DatabaseConfined(x)'
<1> DEFINE table == Merge(clock[p], dbv[p], b.rows)
           won == Won(clock[p], b.rows)
           stored == {m \in Memories : <<m, "claim">> \in won}
           w == dbv[p] + 1
           borrowed == UNION {Borrowed(clock[p], dbv[p], b.rows, m) : m \in stored}
           entries == LoggedByMerge(p, b.rows)
<1>1. /\ dbv[p] \in Nat /\ clock[p] \in [Cells -> ClockRows(dbv[p])]
      /\ dbv[b.from] \in Nat /\ DOMAIN b.rows \subseteq Cells
      /\ \A c \in DOMAIN b.rows : b.rows[c] \in ClockRows(dbv[b.from])
  BY DEF DatabaseOK, IsBatch
<1>2. \A c \in won : table[c].ver > dbv[p]
  BY <1>1, MergeProps
<1>3. DOMAIN table = Cells /\ \A c \in Cells : c \notin won => table[c] = clock[p][c]
  BY <1>1 DEF Merge
<1>4. won \subseteq DOMAIN b.rows /\ \A c \in won : b.rows[c] # Absent
  <2>1. \A c \in Cells : clock[p][c].cv \in Nat /\ clock[p][c].val \in Nat
    BY <1>1 DEF ClockRows
  <2> QED  BY <1>1, <2>1 DEF Won, Newer, Absent
<1>5. ASSUME NEW c \in won PROVE NamespacesOf(c) = {b.ns} /\ Entitled(p, c)
  <2>1. b.ns \in Shared(p, b.from) \/ b.ns \in Shared(p, b.to)
    BY DEF ConfinedBatch, Shared
  <2>2. b.from \in Peers /\ b.to \in Peers
    BY DEF IsBatch
  <2>3. NamespacesOf(c) \subseteq {b.ns} /\ c \in Cells
    BY <1>1, <1>4 DEF ConfinedBatch
  <2>4. NamespacesOf(c) # {}
    <3>1. CASE c[2] = "namespace"
      <4>1. c[1] \in Artifacts /\ c = <<c[1], "namespace">>
        BY <2>3, <3>1, ArtifactCell
      <4>2. PICK m \in Memories : c[1] \in Describes[m]
        BY <1>4, <4>1 DEF ConfinedBatch, Coherent
      <4>3. NsOf[m] \in NamespacesOf(c)
        BY <3>1, <4>2 DEF NamespacesOf
      <4> QED  BY <4>3
    <3>2. CASE c[2] # "namespace"
      BY <3>2 DEF NamespacesOf
    <3> QED  BY <3>1, <3>2
  <2>5. NamespacesOf(c) = {b.ns}
    BY <2>3, <2>4
  <2> QED  BY <2>1, <2>2, <2>5 DEF Entitled
<1>6. Coherent(table)
  <2>1. \A c \in DOMAIN clock[p] : clock[p][c].cv \in Nat /\ clock[p][c].val \in Nat
    BY <1>1 DEF ClockRows
  <2> QED  BY <2>1, CoherentMerge DEF DatabaseConfined, ConfinedBatch
<1>7. ASSUME NEW m \in stored PROVE Borrowed(clock[p], dbv[p], b.rows, m) \subseteq {b.ns}
  <2>1. NsOf[m] = b.ns
    <3>1. NamespacesOf(<<m, "claim">>) = {b.ns} /\ <<m, "claim">>[2] # "namespace"
      BY <1>5
    <3> QED  BY <3>1 DEF NamespacesOf
  <2>2. \A c \in Cells : clock[p][c].cv \in Nat /\ clock[p][c].val \in Nat
    BY <1>1 DEF ClockRows
  <2>3. DOMAIN clock[p] = Cells /\ Coherent(clock[p]) /\ Coherent(b.rows) /\ m \in Memories
    BY <1>1 DEF DatabaseConfined, ConfinedBatch
  <2> QED  BY <2>1, <2>2, <2>3, BorrowedWithin
<1>8. \A e \in entries : e[1] = dbv[p] + 1 /\ e[2] = b.ns
  <2>1. \A e \in Logged(table, w, won) : e[1] = w /\ e[2] = b.ns
    <3>1. won \in SUBSET {c \in Cells : NamespacesOf(c) \subseteq {b.ns}} /\ b.ns \in Namespaces
      BY <1>1, <1>4, <1>5 DEF IsBatch
    <3> HIDE DEF table, won, w
    <3> QED  BY <1>3, <1>6, <3>1, LoggedWithin
  <2>2. ASSUME NEW n \in borrowed PROVE n = b.ns
    <3> DEFINE B(m) == Borrowed(clock[p], dbv[p], b.rows, m)
    <3>1. \A m \in stored : B(m) \subseteq {b.ns}
      BY <1>7
    <3> HIDE DEF B, stored
    <3>2. \A o \in UNION {B(m) : m \in stored} : o = b.ns
      BY <3>1
    <3> QED  BY <2>2, <3>2 DEF B
  <2>3. entries = Logged(table, w, won) \cup ({w} \X borrowed)
    BY DEF LoggedByMerge
  <2> HIDE DEF entries, table, won, borrowed
  <2> QED  BY <2>1, <2>2, <2>3
<1>9. clock' = [clock EXCEPT ![p] = table] /\ log' = [log EXCEPT ![p] = @ \cup entries]
  BY DEF Accept
<1> HIDE DEF table, won, entries
<1>10. ConfinedTransaction(p, b.ns, table, entries)
  <2>1. \A e \in entries : e[1] > dbv[p] /\ e[2] = b.ns
    BY <1>1, <1>8
  <2> QED  BY <1>2, <1>3, <1>5, <1>6, <1>9, <2>1 DEF ConfinedTransaction
<1> QED  BY <1>10, ConfinedStep

\* A refused batch leaves the clock tables and the log alone.
LEMMA ConfinedQuiet ==
    ASSUME NamespaceIsolation, \A x \in Peers : DatabaseConfined(x), clock' = clock, log' = log
    PROVE  NamespaceIsolation' /\ \A x \in Peers : DatabaseConfined(x)'
  BY DEF NamespaceIsolation, DatabaseConfined, LogSeparates, Coherent, Stores, NamespacesOf, Shared

\* What storeTx writes is of the memory's namespace, and its peer's own.
LEMMA StoredConfined ==
    ASSUME ConstantsAssumption, StaysWithin, NEW p \in Peers, NEW m \in Memories, HomeOf[m] = p
    PROVE  /\ \A c \in DOMAIN Stored(m) : NamespacesOf(c) \subseteq {NsOf[m]} /\ Entitled(p, c)
           /\ CoherentValues(Stored(m))
<1>1. ASSUME NEW c \in DOMAIN Stored(m)
      PROVE  NamespacesOf(c) \subseteq {NsOf[m]} /\ Entitled(p, c)
  <2>1. CASE c \in {<<m, "claim">>, <<m, "lifecycle">>}
    BY <2>1 DEF NamespacesOf, Entitled, Stores
  <2>2. ASSUME NEW a \in Describes[m], c = <<a, "namespace">>
        PROVE  NamespacesOf(c) \subseteq {NsOf[m]} /\ Entitled(p, c)
    <3>1. \A k \in Memories : a \in Describes[k] => NsOf[k] = NsOf[m]
      <4>1. \A k \in Memories : Describes[k] \subseteq Mentions[k]
        BY DEF ConstantsAssumption
      <4> QED  BY <4>1 DEF StaysWithin
    <3>2. NamespacesOf(c) \subseteq {NsOf[m]}
      BY <2>2, <3>1 DEF NamespacesOf
    <3>3. Stores(p, c)
      BY <2>2 DEF Stores
    <3> QED  BY <3>2, <3>3 DEF Entitled
  <2> QED  BY <2>1, <2>2, StoredCell
<1>2. CoherentValues(Stored(m))
  <2> SUFFICES ASSUME NEW a \in Artifacts, <<a, "namespace">> \in DOMAIN Stored(m)
               PROVE  a \in Describes[m] /\ Stored(m)[<<a, "namespace">>] = Rank[NsOf[m]]
    BY DEF CoherentValues
  <2>1. <<a, "namespace">> \notin {<<m, "claim">>, <<m, "lifecycle">>}
    OBVIOUS
  <2>2. PICK d \in Describes[m] : /\ <<a, "namespace">> = <<d, "namespace">>
                                  /\ Stored(m)[<<a, "namespace">>] = Rank[NsOf[m]]
    BY <2>1, StoredCell
  <2> QED  BY <2>2
<1> QED  BY <1>1, <1>2

\* Store, Supersede and Signal are such local writes.
LEMMA ConfinedLocal ==
    ASSUME ConstantsAssumption, StaysWithin, TypeOK, Confined,
           NEW p \in Peers, NEW m \in Memories,
           Store(p, m) \/ Supersede(p, m) \/ Signal(p, m)
    PROVE  NamespaceIsolation' /\ \A x \in Peers : DatabaseConfined(x)'
<1>0. DatabaseOK /\ NamespaceIsolation /\ \A x \in Peers : DatabaseConfined(x)
  BY DEF TypeOK, Confined
<1>1. ASSUME NEW o \in Memories, NodeExists(clock[p], o), NEW k \in {"signal", "lifecycle"}
      PROVE  <<o, k>> \in Cells /\ Entitled(p, <<o, k>>) /\ NamespacesOf(<<o, k>>) = {NsOf[o]}
  <2>1. /\ <<o, "claim">> \in Cells /\ <<o, "lifecycle">> \in Cells /\ <<o, "signal">> \in Cells
        /\ \A j \in {"claim", "lifecycle", "signal"} :
               NamespacesOf(<<o, j>>) = {NsOf[o]} /\ (Stores(p, <<o, j>>) <=> HomeOf[o] = p)
    BY DEF Cells, NamespacesOf, Stores
  <2>2. Entitled(p, <<o, "claim">>) \/ Entitled(p, <<o, "lifecycle">>)
    BY <1>0, <1>1, <2>1 DEF NamespaceIsolation, NodeExists, Present, Entitled
  <2> QED  BY <2>1, <2>2 DEF Entitled
<1>2. CASE Store(p, m)
  <2> DEFINE v == Stored(m)
  <2>1. HomeOf[m] = p /\ LocalWrite(p, v)
    BY <1>2 DEF Store, Storable
  <2>2. DOMAIN v \subseteq Cells
    BY StoredProps
  <2>3. /\ \A c \in DOMAIN v : NamespacesOf(c) \subseteq {NsOf[m]} /\ Entitled(p, c)
        /\ CoherentValues(v)
    BY <2>1, StoredConfined
  <2> HIDE DEF v
  <2> QED  BY <1>0, <2>1, <2>2, <2>3, ConfinedWrite
<1>3. CASE Supersede(p, m)
  <2> DEFINE old == <<Replaces[m], "lifecycle">>
             v == Also(Stored(m), old, Superseded)
  <2>1. /\ Replaces[m] \in Memories /\ Replaces[m] \in Targets(m)
        /\ NodeExists(clock[p], Replaces[m]) /\ HomeOf[m] = p /\ LocalWrite(p, v)
    BY <1>3 DEF Supersede, Storable, ConstantsAssumption, Targets
  <2>2. old \in Cells /\ Entitled(p, old) /\ NamespacesOf(old) = {NsOf[m]}
    BY <1>1, <2>1 DEF StaysWithin
  <2>3. /\ \A c \in DOMAIN Stored(m) : NamespacesOf(c) \subseteq {NsOf[m]} /\ Entitled(p, c)
        /\ CoherentValues(Stored(m))
    BY <2>1, StoredConfined
  <2>4. DOMAIN v = DOMAIN Stored(m) \cup {old} /\ DOMAIN Stored(m) \subseteq Cells
    BY StoredProps DEF Also
  <2>5. ASSUME NEW a, <<a, "namespace">> \in DOMAIN v
        PROVE  /\ <<a, "namespace">> \in DOMAIN Stored(m)
               /\ v[<<a, "namespace">>] = Stored(m)[<<a, "namespace">>]
    <3>1. <<a, "namespace">> # old
      OBVIOUS
    <3> HIDE DEF old
    <3> QED  BY <2>5, <3>1 DEF Also
  <2> HIDE DEF v
  <2>6. CoherentValues(v)
    <3> HIDE DEF old
    <3> QED  BY <2>3, <2>5 DEF CoherentValues
  <2>7. DOMAIN v \subseteq Cells
        /\ \A c \in DOMAIN v : NamespacesOf(c) \subseteq {NsOf[m]} /\ Entitled(p, c)
    BY <2>2, <2>3, <2>4
  <2> QED  BY <1>0, <2>1, <2>6, <2>7, ConfinedWrite
<1>4. CASE Signal(p, m)
  <2> DEFINE k == <<m, "signal">>
             v == [c \in {k} |-> Set]
  <2>1. NodeExists(clock[p], m) /\ LocalWrite(p, v) /\ DOMAIN v = {k}
    BY <1>4 DEF Signal
  <2>2. k \in Cells /\ Entitled(p, k) /\ NamespacesOf(k) = {NsOf[m]}
    BY <1>1, <2>1
  <2> HIDE DEF v
  <2>3. CoherentValues(v)
    BY <2>1 DEF CoherentValues
  <2>4. DOMAIN v \subseteq Cells
        /\ \A c \in DOMAIN v : NamespacesOf(c) \subseteq {NsOf[m]} /\ Entitled(p, c)
    BY <2>1, <2>2
  <2> QED  BY <1>0, <2>1, <2>3, <2>4, ConfinedWrite
<1> QED  BY <1>2, <1>3, <1>4

\* Replacing one session by a confined one keeps all of them confined.
LEMMA ConfinedSessionStep ==
    ASSUME SessionsOK, \A x \in Peers : ConfinedSession(x, sess[x]),
           NEW p \in Peers, NEW s, ConfinedSession(p, s), sess' = [sess EXCEPT ![p] = s]
    PROVE  \A x \in Peers : ConfinedSession(x, sess'[x])
  BY DEF SessionsOK

\* A peer that is in no session holds no batch.
LEMMA ConfinedIdle == ASSUME NEW p PROVE ConfinedSession(p, Idle)
  BY DEF ConfinedSession, Idle

\* Every step keeps batches within a namespace the two peers share.
LEMMA ConfinedNext ==
    ASSUME ConstantsAssumption, StaysWithin, TypeOK, Confined, [Next]_vars
    PROVE  Confined'
<1> USE DEF TypeOK
<1>a. /\ NamespaceIsolation /\ \A x \in Peers : DatabaseConfined(x)
      /\ \A x \in Peers : ConfinedSession(x, sess[x])
      /\ \A b \in late : ConfinedBatch(b)
  BY DEF Confined
<1>b. SUFFICES /\ NamespaceIsolation' /\ \A x \in Peers : DatabaseConfined(x)'
               /\ \A x \in Peers : ConfinedSession(x, sess'[x])
               /\ \A b \in late' : ConfinedBatch(b)
  BY DEF Confined
<1>1. ASSUME NEW p \in Peers, NEW m \in Memories,
             Store(p, m) \/ Supersede(p, m) \/ Signal(p, m)
      PROVE  /\ NamespaceIsolation' /\ \A x \in Peers : DatabaseConfined(x)'
             /\ sess' = sess /\ late' = late
  <2>1. NamespaceIsolation' /\ \A x \in Peers : DatabaseConfined(x)'
    BY <1>1, ConfinedLocal
  <2> QED  BY <1>1, <2>1 DEF Store, Supersede, Signal, LocalWrite
<1>2. ASSUME NEW p \in Peers, NEW q \in Peers, BeginSync(p, q)
      PROVE  /\ clock' = clock /\ log' = log /\ late' = late
             /\ \A x \in Peers : ConfinedSession(x, sess'[x])
  <2> DEFINE s == [pc |-> "next", peer |-> q, todo |-> Local[p] \cap Allow[p][q]]
  <2>1. ConfinedSession(p, s)
    BY <1>2 DEF BeginSync, NamespacesAllowed, ConfinedSession, Shared
  <2>2. sess' = [sess EXCEPT ![p] = s]
    BY <1>2 DEF BeginSync, Become
  <2>3. \A x \in Peers : ConfinedSession(x, sess'[x])
    <3> HIDE DEF s
    <3> QED  BY <1>a, <2>1, <2>2, ConfinedSessionStep
  <2> QED  BY <1>2, <2>3 DEF BeginSync, database
<1>3. ASSUME NEW p \in Peers, PushBatch(p)
      PROVE  /\ clock' = clock /\ log' = log /\ late' = late
             /\ \A x \in Peers : ConfinedSession(x, sess'[x])
  <2>1. PICK n \in sess[p].todo :
           Become(p, [pc |-> "sent", peer |-> sess[p].peer, todo |-> sess[p].todo,
                      batch |-> ExtractBatch(p, sess[p].peer, n)])
    BY <1>3 DEF PushBatch
  <2> DEFINE b == ExtractBatch(p, sess[p].peer, n)
             s == [pc |-> "sent", peer |-> sess[p].peer, todo |-> sess[p].todo, batch |-> b]
  <2>2. sess[p].peer \in Peers /\ sess[p].todo \subseteq Shared(p, sess[p].peer)
    BY <1>3, <1>a DEF PushBatch, SessionsOK, IsSession, ConfinedSession, Idle
  <2>3. ConfinedBatch(b)
    BY <1>a, <2>1, <2>2, ExtractConfined
  <2>4. ConfinedSession(p, s)
    BY <2>2, <2>3 DEF ConfinedSession
  <2>5. sess' = [sess EXCEPT ![p] = s]
    BY <2>1 DEF Become
  <2>6. \A x \in Peers : ConfinedSession(x, sess'[x])
    <3> HIDE DEF s
    <3> QED  BY <1>a, <2>4, <2>5, ConfinedSessionStep
  <2> QED  BY <1>3, <2>6 DEF PushBatch, database
<1>4. ASSUME NEW p \in Peers, ServePush(p)
      PROVE  /\ NamespaceIsolation' /\ \A x \in Peers : DatabaseConfined(x)' /\ late' = late
             /\ \A x \in Peers : ConfinedSession(x, sess'[x])
  <2> DEFINE b == sess[p].batch
             s == [pc |-> "pull", peer |-> b.to, todo |-> sess[p].todo, ns |-> b.ns]
  <2>1. /\ IsBatch(b) /\ b.to \in Peers /\ b.from = p /\ sess[p].peer = b.to
        /\ sess[p].todo \subseteq Shared(p, b.to) /\ ConfinedBatch(b)
    BY <1>4, <1>a DEF ServePush, SessionsOK, IsSession, IsBatch, ConfinedSession, Idle
  <2>2. CASE Accept(b.to, p, b) /\ Become(p, s)
    <3>1. NamespaceIsolation' /\ \A x \in Peers : DatabaseConfined(x)'
      BY <1>a, <2>1, <2>2, ConfinedAccept
    <3>2. ConfinedSession(p, s)
      BY <2>1 DEF ConfinedSession
    <3>3. sess' = [sess EXCEPT ![p] = s]
      BY <2>2 DEF Become
    <3> HIDE DEF s
    <3> QED  BY <1>4, <1>a, <3>1, <3>2, <3>3, ConfinedSessionStep DEF ServePush
  <2>3. CASE Quarantine(b.to, p, b) /\ Become(p, Idle)
    <3>1. NamespaceIsolation' /\ \A x \in Peers : DatabaseConfined(x)'
      BY <1>a, <2>3, ConfinedQuiet DEF Quarantine
    <3>2. sess' = [sess EXCEPT ![p] = Idle]
      BY <2>3 DEF Become
    <3> QED  BY <1>4, <1>a, <3>1, <3>2, ConfinedIdle, ConfinedSessionStep DEF ServePush
  <2> QED  BY <1>4, <2>2, <2>3 DEF ServePush
<1>5. ASSUME NEW p \in Peers, ServePull(p)
      PROVE  /\ clock' = clock /\ log' = log /\ late' = late
             /\ \A x \in Peers : ConfinedSession(x, sess'[x])
  <2> DEFINE q == sess[p].peer
             b == ExtractBatch(q, p, sess[p].ns)
             s == [pc |-> "reply", peer |-> q, todo |-> sess[p].todo, batch |-> b]
  <2>1. /\ q \in Peers /\ sess[p].todo \subseteq Shared(p, q)
        /\ sess[p].ns \in Shared(q, p)
    <3>1. sess[p].pc = "pull" /\ IsSession(p, sess[p]) /\ ConfinedSession(p, sess[p])
      BY <1>5, <1>a DEF ServePull, SessionsOK
    <3>2. q \in Peers /\ sess[p].ns \in sess[p].todo /\ sess[p].todo \subseteq Shared(p, q)
      BY <3>1 DEF IsSession, ConfinedSession, Idle
    <3>3. Shared(p, q) = Shared(q, p)
      BY DEF Shared
    <3> HIDE DEF q
    <3> QED  BY <3>2, <3>3
  <2>2. ConfinedBatch(b)
    BY <1>a, <2>1, ExtractConfined
  <2>3. ConfinedSession(p, s)
    BY <2>1, <2>2 DEF ConfinedSession
  <2>4. sess' = [sess EXCEPT ![p] = s]
    BY <1>5 DEF ServePull, Become
  <2>5. \A x \in Peers : ConfinedSession(x, sess'[x])
    <3> HIDE DEF s
    <3> QED  BY <1>a, <2>3, <2>4, ConfinedSessionStep
  <2> QED  BY <1>5, <2>5 DEF ServePull, database
<1>6. ASSUME NEW p \in Peers, ApplyReply(p)
      PROVE  /\ NamespaceIsolation' /\ \A x \in Peers : DatabaseConfined(x)' /\ late' = late
             /\ \A x \in Peers : ConfinedSession(x, sess'[x])
  <2> DEFINE b == sess[p].batch
             s == After(sess[p], b.ns)
  <2>1. /\ IsBatch(b) /\ b.from \in Peers /\ b.to = p /\ ConfinedBatch(b)
        /\ sess[p].todo \subseteq Shared(p, sess[p].peer)
    <3>1. sess[p].pc = "reply" /\ IsSession(p, sess[p]) /\ ConfinedSession(p, sess[p])
      BY <1>6, <1>a DEF ApplyReply, SessionsOK
    <3>2. IsBatch(b) /\ b.to = p /\ b.from = sess[p].peer /\ sess[p].peer \in Peers
      BY <3>1 DEF IsSession, Idle
    <3> QED  BY <3>1, <3>2 DEF ConfinedSession
  <2>2. CASE Accept(p, b.from, b) /\ Become(p, s)
    <3>1. NamespaceIsolation' /\ \A x \in Peers : DatabaseConfined(x)'
      BY <1>a, <2>1, <2>2, ConfinedAccept
    <3>2. ConfinedSession(p, s)
      BY <2>1 DEF ConfinedSession, After, Idle
    <3>3. sess' = [sess EXCEPT ![p] = s]
      BY <2>2 DEF Become
    <3> HIDE DEF s
    <3> QED  BY <1>6, <1>a, <3>1, <3>2, <3>3, ConfinedSessionStep DEF ApplyReply
  <2>3. CASE Quarantine(p, b.from, b) /\ Become(p, Idle)
    <3>1. NamespaceIsolation' /\ \A x \in Peers : DatabaseConfined(x)'
      BY <1>a, <2>3, ConfinedQuiet DEF Quarantine
    <3>2. sess' = [sess EXCEPT ![p] = Idle]
      BY <2>3 DEF Become
    <3> QED  BY <1>6, <1>a, <3>1, <3>2, ConfinedIdle, ConfinedSessionStep DEF ApplyReply
  <2> QED  BY <1>6, <2>2, <2>3 DEF ApplyReply
<1>7. ASSUME NEW p \in Peers, Abort(p)
      PROVE  /\ clock' = clock /\ log' = log
             /\ \A b \in late' : ConfinedBatch(b)
             /\ \A x \in Peers : ConfinedSession(x, sess'[x])
  <2>1. sess' = [sess EXCEPT ![p] = Idle]
    BY <1>7 DEF Abort, Become
  <2>2. \A x \in Peers : ConfinedSession(x, sess'[x])
    BY <1>a, <2>1, ConfinedIdle, ConfinedSessionStep
  <2>3. sess[p].pc = "sent" => ConfinedBatch(sess[p].batch)
    BY <1>a DEF ConfinedSession
  <2> QED  BY <1>7, <1>a, <2>2, <2>3 DEF Abort, database
<1>8. ASSUME NEW b \in late, ServeLate(b)
      PROVE  /\ NamespaceIsolation' /\ \A x \in Peers : DatabaseConfined(x)'
             /\ sess' = sess /\ late' \subseteq late
  <2>1. IsBatch(b) /\ ConfinedBatch(b) /\ b.to \in Peers /\ b.from \in Peers
    BY <1>a DEF LateOK, IsBatch
  <2>2. CASE Accept(b.to, b.from, b)
    <3>1. NamespaceIsolation' /\ \A x \in Peers : DatabaseConfined(x)'
      BY <1>a, <2>1, <2>2, ConfinedAccept
    <3> QED  BY <1>8, <3>1 DEF ServeLate
  <2>3. CASE Quarantine(b.to, b.from, b)
    <3>1. NamespaceIsolation' /\ \A x \in Peers : DatabaseConfined(x)'
      BY <1>a, <2>3, ConfinedQuiet DEF Quarantine
    <3> QED  BY <1>8, <3>1 DEF ServeLate
  <2> QED  BY <1>8, <2>2, <2>3 DEF ServeLate
<1>9. CASE UNCHANGED vars
  <2>1. clock' = clock /\ log' = log /\ sess' = sess /\ late' = late
    BY <1>9 DEF vars
  <2> QED  BY <1>a, <2>1, ConfinedQuiet
<1> QED
  BY <1>1, <1>2, <1>3, <1>4, <1>5, <1>6, <1>7, <1>8, <1>9, <1>a, ConfinedQuiet DEF Next

\* Initially there is nothing to confine.
LEMMA ConfinedInit == Init => Confined
  BY DEF Init, Confined, NamespaceIsolation, DatabaseConfined, LogSeparates, Coherent,
         ConfinedSession, Idle, Cells

\* When no supersede, relation or artifact crosses namespaces, no sequence of
\* writes, sessions, losses and late deliveries, over any number of relays,
\* brings a peer rows of a namespace it shares with nobody.
THEOREM Isolation ==
    ASSUME StaysWithin
    PROVE  Spec => []NamespaceIsolation
<1>1. Init => TypeOK /\ Confined
  BY ConstantsAssumption, TypeInit, ConfinedInit
<1>2. TypeOK /\ Confined /\ [Next]_vars => (TypeOK /\ Confined)'
  BY ConstantsAssumption, StaysWithin, TypeNext, ConfinedNext
<1>3. TypeOK /\ Confined => NamespaceIsolation
  BY DEF Confined
<1> QED  BY <1>1, <1>2, <1>3, PTL DEF Spec
=============================================================================
