------------------------------ MODULE MemSync -------------------------------
(***************************************************************************)
(* Replication of the shared memory tables between the syncd daemons of a  *)
(* set of peers (internal/memsync, cmd/syncd) together with the local      *)
(* writes that feed it (internal/memory: Store, Supersede, Signal).        *)
(*                                                                         *)
(* Every peer has one SQLite database.  A local write stamps the cells it  *)
(* touches with the next database version and a trigger logs that version  *)
(* under the memory's namespace.  A sync session of p with q takes the     *)
(* namespaces both sides allow and, one namespace at a time, pushes a      *)
(* batch to q's HTTP server, pulls one back and applies it.  Requests can  *)
(* be lost, answered after the client gave up, or cut short by a crash.    *)
(***************************************************************************)
EXTENDS CRSqlite, Naturals, FiniteSets

CONSTANTS
    Peers,
    Memories,
    Namespaces,
    None,        \* no memory
    NsOf,        \* the namespace a memory is stored in
    HomeOf,      \* the peer whose memoryd stores it, and signs it
    OriginOf,    \* the origin_peer_id of the store request
    Replaces,    \* the memory it supersedes, or None
    RelatesTo,   \* the memories its relations[] point at
    Artifacts,
    Mentions,    \* the artifacts its artifact_spans[] name
    Describes,   \* those with a uri, whose artifact_refs row it writes
    SignallerOf, \* the peer that signals (reinforces, contradicts...) it, or None
    Rank,        \* how SQLite compares the namespaces' names
    Local,       \* cfg.Namespaces of a peer
    Allow,       \* Allow[p][q]: namespace_allowlist of q in p's peer_registry
    Keyring,     \* the peer ids whose signing key is in p's peer_policies
    BatchLimit,  \* cfg.Sync.BatchLimit
    MaxLate      \* bound: apply requests still in flight after their client left

\* What replicates of a memory, and of an artifact: the column that names its
\* namespace.  A memory's edges, spans and first signal are rows of their own,
\* written once in the transaction of its claim, and share the claim's fate.
Cells == (Memories \X {"claim", "lifecycle", "signal"}) \cup (Artifacts \X {"namespace"})

\* Values, in the order SQLite compares them ('active' < 'superseded').
Set        == 1
Active     == 1
Superseded == 2

ASSUME ConstantsAssumption ==
    /\ NsOf \in [Memories -> Namespaces]
    /\ HomeOf \in [Memories -> Peers]
    /\ Replaces \in [Memories -> Memories \cup {None}]
    /\ RelatesTo \in [Memories -> SUBSET Memories]
    /\ \A m \in Memories : m \notin RelatesTo[m]
    /\ Mentions \in [Memories -> SUBSET Artifacts]
    /\ Describes \in [Memories -> SUBSET Artifacts]
    /\ \A m \in Memories : Describes[m] \subseteq Mentions[m]
    /\ SignallerOf \in [Memories -> Peers \cup {None}]
    /\ Rank \in [Namespaces -> Nat \ {0}]
    /\ \A n, o \in Namespaces : Rank[n] = Rank[o] => n = o
    /\ Local \in [Peers -> SUBSET Namespaces]
    /\ Allow \in [Peers -> [Peers -> SUBSET Namespaces]]
    /\ None \notin Memories \cup Peers
    /\ BatchLimit \in Nat \ {0}
    /\ MaxLate \in Nat

VARIABLES
    clock,   \* clock[p][c]: the cr-sqlite clock row of cell c in p's database
    dbv,     \* dbv[p]: crsql_db_version()
    log,     \* log[p]: the <<db_version, namespace>> pairs of sync_change_log
    cursor,  \* cursor[p][q][n]: sync_cursors of p for peer q, 0 when no row
    health,  \* health[p][q][n]: last_error of peer_sync_state; "error" also
             \* means a row of sync_quarantine
    sess,    \* sess[p]: the session syncPeer of p's daemon is in
    late     \* batches posted to /v1/sync/apply whose client has gone away

vars == <<clock, dbv, log, cursor, health, sess, late>>
database == <<clock, dbv, log>>

Present(t, m, kind) == t[<<m, kind>>] # Absent
NodeExists(t, m) == Present(t, m, "claim") \/ Present(t, m, "lifecycle")

(***************************************************************************)
(* Local writes.  Each is one transaction of memoryd on p's database.      *)
(***************************************************************************)

\* The namespace that a memory's row, an artifact's row and a cell's row name:
\* none when there is no row, or when it has no claim yet ('', nobody syncs it).
MemoryNs(t, m) == IF Present(t, m, "claim") THEN {NsOf[m]} ELSE {}
ArtifactNs(t, a) == {n \in Namespaces : Rank[n] = t[<<a, "namespace">>].val}
RowNs(t, c) == IF c[2] = "namespace" THEN ArtifactNs(t, c[1]) ELSE MemoryNs(t, c[1])

\* What the sync triggers log for the cells touched at version v.
Logged(t, v, cells) == {v} \X UNION {RowNs(t, c) : c \in cells}

\* The triggers log crsql_db_version() instead of the version being written.
LocalWrite_LogsCurrent(p, vals) ==
    LET written == Write(clock[p], dbv[p], vals)
    IN  /\ clock' = [clock EXCEPT ![p] = written]
        /\ dbv' = [dbv EXCEPT ![p] = dbv[p] + 1]
        /\ log' = [log EXCEPT ![p] = @ \cup
                     {e \in Logged(written, dbv[p], DOMAIN vals) : e[1] > 0}]
        /\ UNCHANGED <<cursor, health, sess, late>>

LocalWrite(p, vals) ==
    LET written == Write(clock[p], dbv[p], vals)
    IN  /\ clock' = [clock EXCEPT ![p] = written]
        /\ dbv' = [dbv EXCEPT ![p] = dbv[p] + 1]
        /\ log' = [log EXCEPT ![p] = @ \cup Logged(written, dbv[p] + 1, DOMAIN vals)]
        /\ UNCHANGED <<cursor, health, sess, late>>

\* The memory_nodes row of a memory, and all that storeTx writes: the signed
\* claim with its edges, spans and signal, lifecycle_state 'active', and over
\* whatever row there is, the artifacts it describes.
NodeCells(m) == {<<m, "claim">>, <<m, "lifecycle">>}
Stored(m) ==
    [c \in NodeCells(m) \cup (Describes[m] \X {"namespace"}) |->
        IF c[2] = "namespace" THEN Rank[NsOf[m]] ELSE Set]

\* storeTx goes through: m is new here and what it relates to exists, in
\* whatever namespace.
Storable(p, m) ==
    /\ HomeOf[m] = p
    /\ ~NodeExists(clock[p], m)
    /\ \A k \in RelatesTo[m] : NodeExists(clock[p], k)

\* Store with visibility shared, in one transaction.
Store(p, m) ==
    /\ Replaces[m] = None
    /\ Storable(p, m)
    /\ LocalWrite(p, Stored(m))

\* The old row's update commits in a transaction of its own, first.
Supersede_TwoTransactions(p, m) ==
    LET old == Replaces[m]
    IN  /\ old # None
        /\ Storable(p, m)
        /\ NodeExists(clock[p], old)
        /\ \/ /\ clock[p][<<old, "lifecycle">>].val # Superseded
              /\ LocalWrite(p, [c \in {<<old, "lifecycle">>} |-> Superseded])
           \/ /\ clock[p][<<old, "lifecycle">>].val = Superseded
              /\ LocalWrite(p, Stored(m))

\* The values vals, and val for cell d.
Also(vals, d, val) == [c \in DOMAIN vals \cup {d} |-> IF c = d THEN val ELSE vals[c]]

\* Supersede: the old row must exist; the new memory, the old one's lifecycle
\* and the 'supersedes' edge commit together.
Supersede(p, m) ==
    LET old == <<Replaces[m], "lifecycle">>
    IN  /\ Replaces[m] # None
        /\ Storable(p, m)
        /\ NodeExists(clock[p], Replaces[m])
        /\ LocalWrite(p, Also(Stored(m), old, Superseded))

\* Signal: a row of memory_signals about a memory whose row exists here.
Signal(p, m) ==
    /\ SignallerOf[m] = p
    /\ ~Present(clock[p], m, "signal")
    /\ NodeExists(clock[p], m)
    /\ LocalWrite(p, [c \in {<<m, "signal">>} |-> Set])

(***************************************************************************)
(* Batches.                                                                *)
(***************************************************************************)

\* The first version above the cursor is passed over.
Pending_OffByOne(p, q, n) ==
    {e[1] : e \in {x \in log[p] : x[2] = n /\ x[1] > cursor[p][q][n] + 1}}

\* The database versions ExtractBatch of p picks for peer q: the lowest
\* BatchLimit logged ones of the namespace above the cursor.
Pending(p, q, n) == {e[1] : e \in {x \in log[p] : x[2] = n /\ x[1] > cursor[p][q][n]}}
Lowest(S) == {v \in S : Cardinality({w \in S : w < v}) < BatchLimit}
Page(p, q, n) == Lowest(Pending(p, q, n))

ChangedAt(p, versions) == {c \in Cells : clock[p][c].ver \in versions}

\* The high-water mark is the database version, not the last one of the page.
ExtractBatch_MaxIsDbVersion(p, q, n) ==
    [from |-> p, to |-> q, ns |-> n,
     max  |-> IF Page(p, q, n) = {} THEN 0 ELSE dbv[p],
     rows |-> Restrict(clock[p], ChangedAt(p, Page(p, q, n)))]

\* The rows are selected by a version range, without the namespace.
ExtractBatch_VersionRange(p, q, n) ==
    [from |-> p, to |-> q, ns |-> n,
     max  |-> Max(Page(p, q, n) \cup {0}),
     rows |-> Restrict(clock[p], ChangedAt(p, cursor[p][q][n] + 1 .. Max(Page(p, q, n) \cup {0})))]

\* ExtractBatch: every changed cell at one of those versions, whatever memory
\* it is about.
ExtractBatch(p, q, n) ==
    [from |-> p, to |-> q, ns |-> n,
     max  |-> Max(Page(p, q, n) \cup {0}),
     rows |-> Restrict(clock[p], ChangedAt(p, Page(p, q, n)))]

\* A claim verifies at p when p knows the key of the origin it names and that
\* is the key it was signed with.
Verifies(p, m) == OriginOf[m] \in Keyring[p] /\ OriginOf[m] = HomeOf[m]

\* Only the local row is looked at, not the columns of the batch.
Refused_LocalRowOnly(p, b) ==
    \E m \in Memories :
        /\ NodeCells(m) \cap DOMAIN b.rows # {}
        /\ Present(clock[p], m, "claim")
        /\ ~Verifies(p, m)

\* evaluateBatchVerification: every memory with a memory_nodes row in the batch
\* is checked with the batch's columns laid over the local row; one without a
\* signature on either side passes as missing_signature.
Refused(p, b) ==
    \E m \in Memories :
        /\ NodeCells(m) \cap DOMAIN b.rows # {}
        /\ <<m, "claim">> \in DOMAIN b.rows \/ Present(clock[p], m, "claim")
        /\ ~Verifies(p, m)

\* ApplyBatch, refused: quarantineBatch and markSyncError.
Quarantine(p, q, b) ==
    /\ Refused(p, b)
    /\ health' = [health EXCEPT ![p][q][b.ns] = "error"]
    /\ UNCHANGED <<clock, dbv, log, cursor>>

\* A batch is merged in the order of version and table name, so m's edges and
\* spans come before its own row, and after these cells.
Before(rows, m) ==
    LET v == rows[<<m, "claim">>].ver
    IN  {c \in DOMAIN rows : rows[c].ver < v \/ (rows[c].ver = v /\ c[2] = "namespace")}

\* The memories m's edges point at.
Targets(m) == RelatesTo[m] \cup ({Replaces[m]} \ {None})

\* The triggers of m's edges and spans look for m's own row first; while there
\* is none they log the namespace of the target, or of the artifact.
Borrowed(t, v, rows, m) ==
    LET seen == Merge(t, v, Restrict(rows, Before(rows, m)))
    IN  IF NodeExists(seen, m) THEN {}
        ELSE UNION ({MemoryNs(seen, k) : k \in Targets(m)} \cup
                    {ArtifactNs(seen, a) : a \in Mentions[m]})

\* What the triggers log while p merges rows.
LoggedByMerge(p, rows) ==
    LET v == dbv[p] + 1
        won == Won(clock[p], rows)
        stored == {m \in Memories : <<m, "claim">> \in won}
    IN  Logged(Merge(clock[p], dbv[p], rows), v, won) \cup
        ({v} \X UNION {Borrowed(clock[p], dbv[p], rows, m) : m \in stored})

\* ApplyBatch, accepted: merge the rows, let the triggers log what won, move
\* the cursor when the batch was not empty, clear the error.
Accept(p, q, b) ==
    /\ ~Refused(p, b)
    /\ clock' = [clock EXCEPT ![p] = Merge(clock[p], dbv[p], b.rows)]
    /\ dbv' = [dbv EXCEPT ![p] = MergedVersion(clock[p], dbv[p], b.rows)]
    /\ log' = [log EXCEPT ![p] = @ \cup LoggedByMerge(p, b.rows)]
    /\ cursor' = IF b.max > 0 THEN [cursor EXCEPT ![p][q][b.ns] = b.max] ELSE cursor
    /\ health' = [health EXCEPT ![p][q][b.ns] = "ok"]

(***************************************************************************)
(* Sessions: syncPeer of p's daemon against q's HTTP server.               *)
(***************************************************************************)
Idle == [pc |-> "idle"]

Become(p, s) == sess' = [sess EXCEPT ![p] = s]

\* The namespaces that are left after n; the session ends with the last one.
After(s, n) ==
    IF s.todo = {n} THEN Idle ELSE [pc |-> "next", peer |-> s.peer, todo |-> s.todo \ {n}]

NamespacesAllowed(server, client, ns) == ns # {} /\ ns \subseteq Allow[server][client]

\* IntersectNamespaces and the handshake.
BeginSync(p, q) ==
    LET ns == Local[p] \cap Allow[p][q]
    IN  /\ sess[p] = Idle
        /\ p # q
        /\ NamespacesAllowed(q, p, ns)
        /\ Become(p, [pc |-> "next", peer |-> q, todo |-> ns])
        /\ UNCHANGED <<database, cursor, health, late>>

PushBatch(p) ==
    /\ sess[p].pc = "next"
    /\ \E n \in sess[p].todo :
          Become(p, [pc |-> "sent", peer |-> sess[p].peer, todo |-> sess[p].todo,
                     batch |-> ExtractBatch(p, sess[p].peer, n)])
    /\ UNCHANGED <<database, cursor, health, late>>

\* handleApply at the peer while the client waits: an error ends the session.
ServePush(p) ==
    /\ sess[p].pc = "sent"
    /\ LET b == sess[p].batch
       IN  /\ NamespacesAllowed(b.to, p, {b.ns})
           /\ \/ Accept(b.to, p, b) /\ Become(p, [pc |-> "pull", peer |-> b.to,
                                                  todo |-> sess[p].todo, ns |-> b.ns])
              \/ Quarantine(b.to, p, b) /\ Become(p, Idle)
    /\ UNCHANGED late

\* handlePull at the peer.
ServePull(p) ==
    /\ sess[p].pc = "pull"
    /\ NamespacesAllowed(sess[p].peer, p, {sess[p].ns})
    /\ Become(p, [pc |-> "reply", peer |-> sess[p].peer, todo |-> sess[p].todo,
                  batch |-> ExtractBatch(sess[p].peer, p, sess[p].ns)])
    /\ UNCHANGED <<database, cursor, health, late>>

\* svc.ApplyBatch of the pulled batch at the client.
ApplyReply(p) ==
    /\ sess[p].pc = "reply"
    /\ LET b == sess[p].batch
       IN  \/ Accept(p, b.from, b) /\ Become(p, After(sess[p], b.ns))
           \/ Quarantine(p, b.from, b) /\ Become(p, Idle)
    /\ UNCHANGED late

\* A timeout, a lost response or a crash of p's daemon: the session is gone,
\* the databases are not.  A posted batch is lost or still on its way.
Abort(p) ==
    /\ sess[p] # Idle
    /\ Become(p, Idle)
    /\ \/ UNCHANGED late
       \/ /\ sess[p].pc = "sent"
          /\ Cardinality(late) < MaxLate
          /\ late' = late \cup {sess[p].batch}
    /\ UNCHANGED <<database, cursor, health>>

\* handleApply after the client is gone: nobody reads the status code.
ServeLate(b) ==
    /\ NamespacesAllowed(b.to, b.from, {b.ns})
    /\ Accept(b.to, b.from, b) \/ Quarantine(b.to, b.from, b)
    /\ late' = late \ {b}
    /\ UNCHANGED sess

(***************************************************************************)
(* The specification.                                                      *)
(***************************************************************************)
Init ==
    /\ clock = [p \in Peers |-> [c \in Cells |-> Absent]]
    /\ dbv = [p \in Peers |-> 0]
    /\ log = [p \in Peers |-> {}]
    /\ cursor = [p \in Peers |-> [q \in Peers |-> [n \in Namespaces |-> 0]]]
    /\ health = [p \in Peers |-> [q \in Peers |-> [n \in Namespaces |-> "none"]]]
    /\ sess = [p \in Peers |-> Idle]
    /\ late = {}

Next ==
    \/ \E p \in Peers, m \in Memories : Store(p, m) \/ Supersede(p, m) \/ Signal(p, m)
    \/ \E p, q \in Peers : BeginSync(p, q)
    \/ \E p \in Peers : \/ PushBatch(p) \/ ServePush(p) \/ ServePull(p)
                        \/ ApplyReply(p) \/ Abort(p)
    \/ \E b \in late : ServeLate(b)

Spec == Init /\ [][Next]_vars

\* The pairs whose daemons get past the namespace checks.
Syncs == {e \in Peers \X Peers :
             e[1] # e[2] /\ NamespacesAllowed(e[2], e[1], Local[e[1]] \cap Allow[e[1]][e[2]])}

\* The ticker of syncd visits every peer of the registry again and again, and a
\* request that is retried often enough gets through.
Fairness ==
    /\ \A e \in Syncs : SF_vars(BeginSync(e[1], e[2]))
    /\ \A p \in {e[1] : e \in Syncs} :
           /\ SF_vars(PushBatch(p)) /\ SF_vars(ServePush(p))
           /\ SF_vars(ServePull(p)) /\ SF_vars(ApplyReply(p))

FairSpec == Spec /\ Fairness

(***************************************************************************)
(* Properties.                                                             *)
(***************************************************************************)

\* What a batch is: rows the sender has held, none later than its database.
IsBatch(b) ==
    /\ DOMAIN b = {"from", "to", "ns", "max", "rows"}
    /\ b.from \in Peers /\ b.to \in Peers /\ b.ns \in Namespaces
    /\ b.max \in 0 .. dbv[b.from]
    /\ DOMAIN b.rows \subseteq Cells
    /\ \A c \in DOMAIN b.rows : b.rows[c] \in ClockRows(dbv[b.from])

IsSession(p, s) ==
    \/ s = Idle
    \/ /\ s.peer \in Peers
       /\ s.todo \in (SUBSET Namespaces) \ {{}}
       /\ \/ s.pc = "next" /\ DOMAIN s = {"pc", "peer", "todo"}
          \/ s.pc = "pull" /\ DOMAIN s = {"pc", "peer", "todo", "ns"} /\ s.ns \in s.todo
          \/ /\ s.pc \in {"sent", "reply"}
             /\ DOMAIN s = {"pc", "peer", "todo", "batch"}
             /\ IsBatch(s.batch)
             /\ s.batch.ns \in s.todo
             /\ s.pc = "sent" => s.batch.from = p /\ s.batch.to = s.peer
             /\ s.pc = "reply" => s.batch.from = s.peer /\ s.batch.to = p

DatabaseOK ==
    /\ dbv \in [Peers -> Nat]
    /\ DOMAIN clock = Peers /\ \A p \in Peers : clock[p] \in [Cells -> ClockRows(dbv[p])]
    /\ DOMAIN log = Peers /\ \A p \in Peers : log[p] \subseteq (1 .. dbv[p]) \X Namespaces
    /\ cursor \in [Peers -> [Peers -> [Namespaces -> Nat]]]
    /\ health \in [Peers -> [Peers -> [Namespaces -> {"none", "ok", "error"}]]]

SessionsOK == DOMAIN sess = Peers /\ \A p \in Peers : IsSession(p, sess[p])

LateOK == \A b \in late : IsBatch(b)

\* Every variable has its type, and no clock row, log entry or batch carries a
\* version its database has not reached: a version is never handed out twice.
TypeOK == DatabaseOK /\ SessionsOK /\ LateOK

\* A cursor is a version the remote peer really logged under that namespace,
\* whatever was lost, repeated or applied late (sync_cursors, ApplyBatch).
CursorIsLogged ==
    \A p, q \in Peers, n \in Namespaces :
        cursor[p][q][n] > 0 => <<cursor[p][q][n], n>> \in log[q]

\* A peer's own memories stay extractable: the version their claim has in the
\* clock table is one the change log lists under their namespace, also after
\* the claim has come back from other peers (sync triggers, ExtractBatch).
OwnClaimsLogged ==
    \A m \in Memories :
        LET c == clock[HomeOf[m]][<<m, "claim">>]
        IN  c # Absent => <<c.ver, NsOf[m]>> \in log[HomeOf[m]]

\* No reader sees a memory superseded without a memory that replaces it:
\* Supersede's transaction survives paging, relaying, loss and reordering.  It
\* does where the memories that replace one memory are of one home: see
\* OneReplacer in MemSyncRefinementProofs for what two homes can do.
SupersededHasSuccessor ==
    \A p \in Peers, m \in Memories :
        clock[p][<<m, "lifecycle">>].val = Superseded =>
            \E r \in Memories : Replaces[r] = m /\ Present(clock[p], r, "claim")

\* Two peers exchange a namespace only if each has allowlisted it for the other.
Shared(p, q) == Allow[p][q] \cap Allow[q][p]

\* The namespaces of the memories whose writers write the cell.
NamespacesOf(c) ==
    IF c[2] = "namespace" THEN {NsOf[m] : m \in {k \in Memories : c[1] \in Describes[k]}}
    ELSE {NsOf[c[1]]}

\* A memory or an artifact is p's own business when p stores it.
Stores(p, c) ==
    \E m \in Memories : /\ HomeOf[m] = p
                         /\ IF c[2] = "namespace" THEN c[1] \in Describes[m] ELSE c[1] = m

\* A peer holds rows about a memory or an artifact only if it is its own or in a
\* namespace it shares with some peer: an allowlist is never bypassed, directly,
\* by a relay or by a batch that was under way (namespacesAllowed, ExtractBatch).
\* It is where relations, supersedes and spans stay within one namespace.
NamespaceIsolation ==
    \A p \in Peers, c \in Cells :
        clock[p][c] # Absent =>
            Stores(p, c) \/ \E q \in Peers : NamespacesOf(c) \cap Shared(p, q) # {}

\* A foreign claim in the shared tables was verified with the key of the peer
\* it names as its origin, whoever relayed it (evaluateBatchVerification).
ForeignClaimsVerified ==
    \A p \in Peers, m \in Memories :
        Present(clock[p], m, "claim") => HomeOf[m] = p \/ Verifies(p, m)

Content(p, c) == [cv |-> clock[p][c].cv, val |-> clock[p][c].val]
Advances(p, c) ==
    \/ clock'[p][c].cv > clock[p][c].cv
    \/ clock'[p][c].cv = clock[p][c].cv /\ clock'[p][c].val > clock[p][c].val

\* A cell only moves up the last-writer-wins order, so a late or repeated batch
\* never brings an overwritten value back.
CellsOnlyAdvance ==
    [][\A p \in Peers, c \in Cells : Content(p, c)' # Content(p, c) => Advances(p, c)]_vars

\* Only news mints a database version or a log entry: echoes and redeliveries
\* do not, or two peers would keep sending each other their own versions.
OnlyNewsMintsVersions ==
    [][\A p \in Peers : dbv'[p] # dbv[p] \/ log'[p] # log[p] =>
            \E c \in Cells : Advances(p, c)]_vars

\* The peers agree on every cell of the namespaces they share.
Agree(p, q) ==
    \A c \in Cells : NamespacesOf(c) \subseteq Shared(p, q) => Content(p, c) = Content(q, c)

\* Peers that keep syncing end up with the same content.
Convergence == \A p, q \in Peers : <>[]Agree(p, q)
=============================================================================
