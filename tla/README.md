# crdt-agent-memory in TLA+

crdt-agent-memory keeps the memories of coding agents in one SQLite database
per node and replicates the shared ones between nodes with the cr-sqlite
extension. This directory holds TLA+ models of the parts of it where the order
of steps matters, the TLC runs that check them and TLAPS proofs of the results
that matter most. `PROJECT.json` maps every definition to the lines it models,
lists the runs, the mutants (one planted bug for each property, which the run
must notice), the hazards of the code and the places where code and
documentation disagree.

    tlc -workers 2 -config sync_pair.cfg MCMemSync
    tlapm MemSyncProofs.tla

## 1. The system

### Components

**Shared tables and cr-sqlite** (`migrations/0001_base.sql`). State: the tables
`memory_nodes`, `memory_edges`, `memory_signals` and `artifact_refs` as CRRs,
each with a clock table (column version, database version); triggers copy the
version of each write into `sync_change_log`, with the memory's namespace.
Operations: local writes and `INSERT INTO crsql_changes`, the merge. Correct
when cells only move up the last-writer-wins order, versions are not reused and
whatever a node wrote stays extractable.

**Memory service** (`internal/memory`). Operations that write: Store,
Supersede, Signal, Promote, Publish, candidate approval. Each is one
transaction over the claim, its edges and signals, the retrieval unit and the
index queues. Operations that read: Recall, Explain, TraceDecision,
ContextBuild. Correct when a reader sees a write whole or not at all, here and
on every peer, and when ranking never lets something unverified pass something
verified.

**Replication service** (`internal/memsync`). State: `sync_cursors` per peer
and namespace, `peer_sync_state` (last error, schema fence),
`sync_quarantine`, `memory_verification_state`. Operations: Handshake,
ExtractBatch, ApplyBatch (compare schemas, verify signatures, merge, move the
cursor, enqueue for indexing), quarantine. Hard: batches are lost, repeated,
applied late and interleaved with local writes; a batch is relayed by peers
that did not write it; rows are verified before the transaction that merges
them. Correct when peers converge, allowlists hold and no unverified claim gets
in or is called valid.

**Sync daemon** (`cmd/syncd`). State: the schema hashes read at start, the peer
registry. A ticker starts a round; a round visits the peers in order and
exchanges the common namespaces, one push and one pull each. The same process
serves the other peers' requests. Hard: upgrades and restarts between the
steps of a round, one failing peer. Correct when rows are merged only into a
database of their schema, and every peer is served in the end.

**Index worker** (`internal/indexer`, run by indexd, and by memoryd with
`--with-indexer`). State: `index_queue`, `retrieval_index_queue`, the embedding
tables. Hard: two workers on the same queues, items that fail, page limits,
crashes; the sync daemon adds rows after its commit. Correct when nothing drops
out of the queues before it is indexed, and everything is indexed in the end.

**Ingest, candidates, promotion** (`internal/ingest`,
`internal/memory/candidates.go`, `retrieval_units.go`). Transcripts become
chunks and candidates, candidates are approved or rejected, chunks are promoted
to private memories, private memories published as shared ones. Hard: retries,
sessions that are ingested again after they grew, two reviewers. Correct when a
memory says what its chunks say, and a candidate yields one memory.

**Scrubber** (`internal/scrubber`). Suspends edges and signals whose memory is
missing and resolves the suspension when it arrives. Hard: batches arrive in any
order. Correct when nothing stays hidden whose memories are there.

**Storage** (`internal/storage`). Opens the database, runs the migrations,
rebuilds triggers and indexes, computes the schema and CRR manifest hashes.
Hard: every program does this when it starts, with the settings it was started
with. Correct when indexes, metadata and the programs that use them agree.

**cam** (`internal/cam`, `cmd/cam`). State: a profile's config file and its
runtime file. Up starts memoryd, indexd and perhaps syncd in the background and
records their pids; Stop ends them; PeerAdd and PeerRemove edit the registry;
ProfileRemove deletes the profile. Hard: a program that exits or never answers
half way, a config file that changes under running programs. Correct when no
program is lost and every command comes to an end.

**Policy and signing** (`internal/policy`, `internal/signing`). The keys and
trust of peers, upserted from the config file by programs that start; Ed25519
signatures of claims.

**HTTP API, MCP server, embedding clients, configuration, extension assets**.
Decoding and routing, calls to outside services, files.

### How they interact

memoryd, indexd and syncd are separate processes on one database; SQLite's
transactions are all the synchronisation they have. syncd talks to the syncd of
a peer over HTTP. Store and the sync daemon talk to the index worker only
through the queue tables. memoryd runs a scrubber ticker beside its HTTP
server. cam starts the programs and afterwards knows them only by their pids.

## 2. The modules

| module | models | proofs |
| --- | --- | --- |
| `CRSqlite` | clock tables: merge, versions (external, from how it is used) | (with `MemSync`) |
| `MemSync` | Store, Supersede, Signal, the change log, batches, cursors, verification, sessions over a lossy network | `MemSyncProofs` |
| `LWWReplicas` | abstract: replicas of last-writer-wins cells on an unreliable wire | |
| `MemSyncRefinement` | the mapping from MemSync to LWWReplicas | `MemSyncRefinementProofs` |
| `SyncDaemon` | rounds, handshake, schema fence, upgrades and restarts | `SyncDaemonProofs` |
| `IndexQueue` | the two queues, their writers and workers | `IndexQueueProofs` |
| `Curation` | ingest, candidates, promotion and publication | `CurationProofs` |
| `Storage` | the migrations, the settings a database records, the word and vector indexes | (with `Node`) |
| `Node` | `Storage` with the programs that open it and the cam commands that start and stop them | `NodeProofs` |
| `MemoryGraph` | shared memories, edges and signals while batches arrive, the scrubber repairs and TraceDecision walks | `MemoryGraphProofs` |
| `Recall` | on `MemoryGraph`: candidates, scores and order of Recall, the sections of ContextBuild | `RecallProofs` |
| `MC...` | the instances TLC checks | |

`Node` EXTENDS `Storage` and `Recall` EXTENDS `MemoryGraph`; the other modules
meet at the tables they share. `MemSync` says which batches exist, and
`MemoryGraph`, `SyncDaemon` and `IndexQueue` look at what one batch does to
three other parts of a node: the graph, the fence, the queues. `IndexQueue` has
the queues in full, with pages and workers; `Node` keeps of them only which
units still have a row, and adds what migrations do to the indexes.

A definition with a name like `Refused_LocalRowOnly` is `Refused` with one
mistake in it. No specification uses it; it is the body of a mutant.

### CRSqlite and MemSync

The extension is a binary, so its clock rules were modelled from how the
repository uses them, and compared with what the extension does: a cell is
`[cv, val, ver]`; a merge takes the larger column version, then the larger
value; a cell that wins gets `max(next version, sender's version)`; a change set
that wins nothing changes nothing, the database version included.

A memory is three cells: its *claim* (the signed columns with the edges, the
spans and the initial signal of the same transaction, which share its fate and
its version), its *lifecycle* (the column Supersede updates) and one later
*signal*. An artifact is one cell, the *namespace* column of `artifact_refs`,
which every memory that describes the artifact overwrites; the other columns are
written with it or log the same namespace. The triggers compute
`crsql_db_version() + 1`, which is why `Logged` takes the version as a
parameter. Text, identifiers and times are abstracted; what a memory is about is
given by the constants (`NsOf`, `HomeOf`, `OriginOf`, `Replaces`, `RelatesTo`,
`Mentions`, `Describes`, `SignallerOf`).

The namespace a trigger logs is that of the row for nodes and artifacts
(`RowNs`). An edge or a span has no namespace of its own: its trigger takes the
memory's, and as long as the memory has no row, that of the memory or artifact it
points at. A local write has the memory's row first. A batch is merged in the
order of version and table name, which puts artifacts, spans and edges before
nodes (`Before`), so there it happens (`Borrowed`); `LoggedByMerge` has both.

| variable | code |
| --- | --- |
| `clock`, `dbv` | clock tables, `crsql_db_version()` |
| `log` | `sync_change_log`, as a set of version and namespace |
| `cursor` | `sync_cursors`: one row per peer and namespace, used by ExtractBatch and by ApplyBatch |
| `health` | `last_error` of `peer_sync_state`, `sync_quarantine` |
| `sess` | where `syncPeer` of a daemon is |
| `late` | requests to `/v1/sync/apply` whose client has given up |

`BeginSync` is the intersection of namespaces and the handshake; `PushBatch`,
`ServePush`, `ServePull`, `ApplyReply` are the steps of one namespace, each
running to its commit; `Abort` is a timeout, a lost answer or a crash, and may
leave the request on its way, to be served by `ServeLate` at any later time.
The order of the namespaces is left open (the code sorts them).
ExtractBatch is one step, although it is three statements: a cell that a
concurrent write moves to a later version in between is in a later batch.
Handshake and schema are left to SyncDaemon.

`LWWReplicas` says what replication promises to the tables: authors write
their cells, parts of a table travel, a peer changes its table only by
joining such a part. `MemSyncRefinement` maps a MemSync state to it by
dropping versions, logs, cursors and sessions.

### SyncDaemon

`schema[p]` counts the migrations of p's database, `meta[p]` is the Metadata p's
syncd read at its start. A batch has a label, the schema its daemon knows, and
rows of the schema its database has; `drifted` collects the schemas of merged
rows that were not the database's own. `state` is `last_error` and
`schema_fenced` of `peer_sync_state`. The constant `Staged` says whether an
upgrade leaves a running syncd alone; `Refuses` says which peers refuse each
other's batches for a reason of MemSync's. The daemon's answer to a request for
a namespace that is not allowed is not told apart from a lost request: `Common`
is taken to be what both sides allow.

### IndexQueue

One namespace of one node. `Store` is the transaction of storeTx. A batch is
applied in the steps the code has: the commit, the query of the 32 latest
memories, and one INSERT at a time, with a possible crash between any two.
`ProcessOnce` of a worker is `ReadUnits`, an item at a time, `ReadItems`, an
item at a time. Embeddings and vector tables are written in one transaction
and are one set. A queue row that is done disappears from the model; the table
keeps it with a timestamp. The random queue_id of a row is any number nobody
holds, in the queue or in a worker's list.

### Curation

`messages`, `chunks`, `candidates`, `refs`, `memories`, `promoted`, `edges` and
`published` are the tables of the same names, with the prefixes dropped.
`Ingest`, `Promote`, `Approve`, `Reject` and `Publish` are one transaction each,
as in the code, and any client may send any request again. A reviewer may give
the memory another type or namespace than the candidate's. A memory's author,
subject and source are left out; `via` tells which request made it, for the
properties. The interest is in what they do to each other: chunks are built anew
from the whole session whenever it is ingested, and their ids say only their
position in it, so `ON CONFLICT DO NOTHING` keeps the older text of a chunk that
would be longer today. What a text is reduced to is what the code reads from it:
the kind its words show, whether it contradicts, the artifact it mentions.

### Storage and Node

`Storage` has the database file: the number of migrations (`schema`), the
settings in `app_metadata` (`meta`), the word index (`fts`), the vector table
(`vec`), the embeddings and the pending rows. `Migrate` is
RunMigrationsWithOptions, which is one transaction: new migrations, triggers,
the indexes that are rebuilt when a setting changed, the metadata.

`Node` adds the config file (`config`), `peer_policies` (`policies`), the
runtime file (`runtime`), the processes (`procs`) and where the cam command is
(`cmd`). Up is a step for the runtime file and the ports, a step to start each
program, a step to find it healthy, the record at the end, and the way out when
any of these fails; a program is `new`, `migrated` or `up`, and may exit at any
moment. Up releases a program it has started and never waits for it, so on Unix
one that has exited still takes a signal: Up may see it gone or not. A Stop that
may not signal one of the programs stops the others and leaves the runtime file.
Assumed, and said in the module: one operator runs one command at a time and lets
it end, starts no program by hand, pids are not reused while they are recorded, a
program has read its config file within the 300 ms after which Up looks for it,
and an Up that fails may signal what it has started itself.

### MemoryGraph and Recall

`MemoryGraph` is the graph of one node: which memories have their signed
columns (`claimed`), which their lifecycle column says are superseded, the edges,
the signals, the verification state and the suspensions. A row exists as soon
as any of its columns was merged. `Verify` and `Merge` are the two halves of
ApplyBatch, so several batches may be verified against a row that none of them
has changed yet. `RunActiveRepair` is the scrubber's transaction.
`TraceDecision` takes a step for each query it makes, because it runs in no
transaction: a level of edges, then one memory for each of them.

`Recall` computes answers from such a state. The two lists of candidates, the
fallback from FTS5 to LIKE, the weights of both ranking profiles, the bucket,
the order and the limits are the code's. Scores, floating point numbers in the
code, are multiples of 1/`Precision`, cut off below. Which units match, and in which
order the indexes return them, is given with the query.

## 3. What the runs check

| run | instance and bounds | result |
| --- | --- | --- |
| `sync_pair` | 2 writers; 3 memories, two of which supersede the third on different peers, and a signal; pages of 2 versions; 1 late batch | safety of the protocol, refinement of LWWReplicas (240,211 states) |
| `sync_line` | 3 peers in a line, 2 namespaces, one shared by only two of them; a memory whose key nobody has, a relation into the less shared namespace, two artifacts | isolation and verification across a relay (734,418 states) |
| `sync_single_writer` | 1 writer, 2 memories, pages of 2, 1 late batch | convergence |
| `sync_two_writers` | 2 writers, 1 memory each | convergence fails |
| `sync_crossing` | the same line; a memory of y with a relation to one of x, nothing superseded | isolation fails |
| `daemon_upgrade` | 3 nodes, two of which share 2 namespaces, 2 schemas, 1 late request | no drift (75,952 states) |
| `daemon_service` | 3 nodes in a star, 2 schemas, 1 late request, handshakes included | every peer is served, fences are lifted (12,656 states) |
| `queue_workers` | 2 workers, 2 stored and 1 received memory, pages of 2, 1 row enqueued per batch, one body that never embeds, crashes | nothing stored drops out of the queues (602,187 states) |
| `queue_indexing` | 1 worker, 1 stored and 2 received memories, pages of 1, 1 row enqueued per batch, crashes | what is stored gets into both indexes, what is received is embedded (8,283 states) |
| `curation` | 2 sessions of 3 messages in 2 namespaces, sent in any number of parts, a forged first message; types and namespaces of the reviewer's; at most 3 memories | provenance, one memory per candidate, reviews are final (166,596 states) |
| `node` | 3 programs, 3 settings that differ in the schema, the tokenizer or the dimension, 1 unit, 1 peer | indexes and programs fit, none is lost, commands end (104,685 states) |
| `reads` | 2 local and 2 received memories, 1 of an unknown peer; 3 batches, 2 applied at one time; walks of depth 2; 3 queries on 5 units | traces and verification states are faithful, trust decides the order, orphans recover (273,997 states) |

The bounds are named: `MaxLate` (requests in flight without a client),
`MaxSchema`, `MaxPending`, `MaxMemories` (of Curation), `MaxApplying` (batches
between verification and merge), `Depth` (of a walk). `Pids` is no bound: six
are always enough for three programs, which `NodeProofs` shows. `Precision` is
600, with which all quotients in the scores of the instance are whole.
Memories are stored once, so versions are bounded without a constraint.

Why they are enough: two peers give concurrent supersedes and every order of
push, pull and late delivery; three in a line are the smallest relay; pages of
two versions and backlogs of up to three make `Page` leave something out. Two
schemas are enough for a drift; three nodes for a peer behind another in a
registry. Pages of one row, a row per batch and two kinds of memories make rows
compete; two workers with pages of two hold the same rows in different
positions. Three memories are enough for a promotion that relates to an earlier
one, an approval, and a publication. The three settings differ pairwise in
everything a migration reacts to. Two batches between verification and merge
are enough to verify both against a row the other one changes; an edge in each
direction between two received memories makes either order of arrival leave
orphans, and a cycle for walks.

Deadlock is checked in all runs but `curation`, whose clients may have nothing
left to ask for once MaxMemories memories exist and both sessions are complete.

Some configurations that belong to no listed run are kept because they show
what does *not* hold, as the last part of this section says: `sync_superseding`,
`sync_artifact`, `daemon_refusal`, `queue_recall`, `recall_superseded`.

### Properties

* `CursorIsLogged`, `OwnClaimsLogged`: cursors and logs agree with the clock
  tables they speak of, also after a peer's own claim has come back to it.
* `SupersededHasSuccessor`: the transaction of Supersede survives paging,
  relaying and reordering.
* `NamespaceIsolation`, `ForeignClaimsVerified`: allowlists and signatures hold
  whoever relayed a batch. Isolation needs more than that, see below and section
  4.
* `CellsOnlyAdvance`, `OnlyNewsMintsVersions`: late and repeated batches undo
  nothing, and echoes do not keep two peers busy for ever.
* `AuthorsLead`, `ImplementsReplicas`: nothing is invented on the way.
* `Convergence`: peers end up with the same content of what they share.
* `DriftContained`, `FencesLift`, `EveryPeerServed`: the schema fence, and
  rounds that are cut short.
* `StoredCovered`, `StoredIndexed`, `ReceivedIndexed`: what gets into the
  indexes, whoever stops, fails or is faster.
* `Provenance`, `ApprovedOnce`, `RelationsExplained`, `ChunksDisjoint`,
  `ReviewIsFinal`: what a memory says was said, once, and stays decided, across
  sessions that grow and requests that are repeated.
* `IndexesFollowSettings`, `NothingForgotten`: what programs with different
  settings do to one database in turn.
* `ServicesAccounted`, `ProgramsFitDatabase`, `CommandsEnd`: Up and Stop lose no
  program, leave none with other settings than its database, and end.
* `ValidIsSigned`: no interleaving of verifications, merges and stores leaves an
  unsigned memory with the state 'valid'.
* `TraceFaithful`: an answer of TraceDecision has at least what was reachable
  when it began and at most what is reachable when it ends.
* `OnlyOrphansHidden`, `EdgesRecover`: what the scrubber hides and shows again.
* `TrustDecides`: no sum of ranks, graph, artifacts and bonuses outweighs the
  trust bucket, in either profile.

### Fairness

*MemSync.* The ticker visits every peer of the registry again and again and a
request that is retried often enough gets an answer: strong fairness of
`BeginSync` for each pair and of the steps of a session. Local writes, aborts
and late deliveries are not fair.

*SyncDaemon.* A stopped daemon is started again (weak fairness), the ticker
starts rounds, and each step of an exchange with each peer that is possible
again and again happens (strong fairness). Upgrades, stops and lost requests
are not fair, and the properties speak only of behaviours in which upgrades and
stops come to an end (`Settled`).

*IndexQueue.* The workers' loops and the daemon's rounds go on (weak fairness
of a worker's step), and a call that is tried again and again succeeds if it
can (strong fairness of each item). Arrivals and crashes are not fair; rounds
with empty batches are, since every round applies its batch, empty or not.

*Node.* The command that is running takes its next step (weak fairness): each
is a system call or a wait with a timeout. The programs are not fair: they may
never become healthy and never exit.

*MemoryGraph.* The scrubber's ticker fires once a minute (weak fairness of
`RunActiveRepair`). Clients, batches and walks are not fair.

### Where code and documents disagree

Two runs end in a violation: `sync_two_writers` and `sync_crossing`. The lines in
question are in `PROJECT.json`. While the models were written, further things
showed up that a reader of the documents would not expect; where a
configuration or a definition shows one, it is named.

Replication:

* convergence also fails with one writer when its backlog exceeds the batch
  limit and the other side has nothing to send: the sender's cursor does not
  move by sending (`internal/memsync/service.go:75`). It fails in a line in
  which only the middle peer starts sessions, because a merged cell may keep a
  version that the relay's log does not name (`service.go:126`). And it fails
  when B revises a memory of A's, because the batch names A as the origin and
  A's own key is not among its policies (`service.go:413`,
  `internal/policy/repository.go:32`);
* isolation fails wherever something crosses namespaces: a relation, at a relay
  (`sync_crossing`); a supersede, at once, because the old row is written at the
  new one's version (`sync_superseding.cfg`); a span without a uri of an artifact
  of another namespace, at a relay (`sync_artifact.cfg`). In `sync_line` a
  relation does cross, from the namespace all share into the one that two share,
  and does no harm, because whoever could get the claim by it has it anyway;
* a daemon that keeps running while another program migrates its database
  labels new rows with the old schema (`cmd/syncd/main.go:43`): with
  `Staged = TRUE`, `DriftContained` fails;
* a batch of another schema is quarantined with the reason "incompatible batch
  metadata", which does not raise the schema fence and lowers one that is up
  (`service.go:172`, `service.go:356`), although REL-005 asks for a fence;
* an error at one peer ends the round (`cmd/syncd/main.go:83`): a peer that
  always refuses starves those behind it (`daemon_refusal.cfg`);
* when the signature of a memory is merged between the verification and the
  merge of another batch, the memory is left with 'missing_signature' over
  'valid' until it is touched again (`SignedIsValid` fails). 'invalid_signature'
  and 'unknown_peer', which Recall's buckets know, are never written.

Indexing and recall:

* a received memory is not embedded when more than 32 memories are received
  before the daemon enqueues them (`service.go:250`): `ReceivedIndexed` exempts
  what that limit leaves out. A stored one is not embedded while a retrieval
  item keeps failing (`internal/indexer/worker.go:57`) or as many items as a
  page has always fail (`worker.go:206`): in `queue_indexing` every body can be
  embedded;
* no retrieval unit is made for a received memory, so Recall never finds it
  (`queue_recall.cfg`: `ReceivedRecallable` fails);
* the state of a retrieval unit is 'active' for good, so Recall gives a memory
  that was superseded as active, and the test for 'superseded' in ContextBuild
  never fires (`recall_superseded.cfg`: `SupersededReported` fails);
* edges the scrubber suspended still count in the graph score; and the bonus of
  a transcript is smaller than the gap between two buckets, so a transcript
  chunk, which has no verification state, always comes after a memory that is
  private or verified;
* a change of the embedding dimension drops all vectors and enqueues nothing
  (`VectorsRecomputed` fails); an older binary that migrates a newer database
  stamps its own settings.

Curation:

* a session that is ingested before a turn is over never gets the rest of that
  turn into a chunk (`MessagesChunked` fails);
* Publish makes another shared memory each time it is called; an artifact
  belongs to the namespace that mentioned it last, and a promotion in another
  one no longer finds it.

cam:

* Ctrl-C during Up, or two Ups at a time, leave programs that no file records
  (both are outside Node's assumptions);
* PeerRemove leaves the policy row at 'allow', and SyncRegistry resets a trust
  state that was changed by hand to 'allow'; ProfileRemove deletes the signing
  key, so a profile of the same name has a new identity.

## 4. What is proved

All theorems hold for every value of the constants that satisfies the module's
assumptions; where a theorem needs more, it is said here.

**MemSync** (`MemSyncProofs`). `TypeCorrect`: `TypeOK` is inductive as it
stands, because it bounds every version in a clock row, a log entry, a batch or
a session by the version of the database it comes from. The proof rests on two
facts about the extension (a merge never lowers the database version and leaves
no cell beyond it) and on lemmas that say how one database may move while
batches made before are still under way. `Isolation`: if no memory supersedes or
relates to one of another namespace and memories of two namespaces mention no
artifact in common (`StaysWithin`), then `Spec => []NamespaceIsolation`, for any
number of peers and relays. The invariant is not inductive: what a batch carries
depends on the log of its sender. `Confined` adds that a log keeps namespaces
apart (the cells at a version logged under a namespace are of that namespace),
that an artifact's row, in a table or on the wire, names the namespace of a
memory that describes it (`Coherent`), and that sessions and batches under way
stay within what both peers allow. Each part of the assumption is needed:
`sync_crossing`, `sync_superseding` and `sync_artifact` are counterexamples
without it.

**The refinement** (`MemSyncRefinementProofs`). Every step of MemSync is a
local write of one peer, the extraction of a batch, the acceptance of a batch
that is under way, or changes no database: `LocalStep`, `SendStep`,
`AcceptStep`, `QuietStep`. All theorems of the module are shown for these four.
`CellsAlwaysAdvance` and `OnlyNewsIsLogged` follow directly. `CursorsAreLogged`
needs `Ledger`, which says the same of batches under way: their versions are
logged by their sender. `OwnClaimsAlwaysLogged` and
`ForeignClaimsAlwaysVerified` need each other and `ClaimsAreCopies`: a claim has
one value, whoever holds it, so a peer's own claim cannot win against itself when
it comes back. `Refinement` shows that MemSync implements `LWWReplicas`, and
`AuthorsAlwaysLead` follows with `Leads`, the same over tables and wire.

`SupersededAlwaysHasSuccessor` shows that no peer, whatever pages and relays
brought it there, has a memory marked as superseded without one that replaces it,
provided the memories that replace one memory are of one home (`OneReplacer`).
The invariant is `Successors`: in every table and every batch under way, the
mark on a memory and the claim of the first memory that replaced it are both
there, at one version, or both missing. Then a page, which is an interval of
versions, holds both or neither, and a merge, which gives both the same new
version, takes both or neither. In `sync_pair` the two memories that replace a
third are of different homes and the property holds there, with two peers;
with four it does not. A and B share the namespaces x and y, B and C
share x, A and C share y, C and D share y. A stores m in y and B receives it.
B supersedes m by b, in y; A supersedes m by a, in x. B's mark on m is the larger
one. A's batch of x reaches B: its mark loses there and its claim of a is taken,
alone. B's batch of x brings a to C, without the mark. A's batch of y brings A's
mark to C, where it is merged under a version of its own. C's batch of y
brings the mark to D, and a is not in it, for D does not share x. The code does
not keep two homes from superseding one memory.

**SyncDaemon** (`SyncDaemonProofs`). `Contained`: if daemons are restarted with
their upgrades (`~Staged`), then `Spec => []DriftContained`, for any registry and
any number of upgrades. The inductive invariant adds that a running daemon knows
its database's schema, that only running daemons are in rounds, and that the
labels of batches under way, also of those whose sender has been upgraded since,
tell the schema of their rows. `DaemonTypes` holds with staged upgrades too.

**IndexQueue** (`IndexQueueProofs`). `StoredAlwaysCovered`: for any number of
workers, memories and limits, with crashes anywhere, a stored memory is indexed
or has a pending row, for both indexes. Finishing a row by its queue_id must not
finish another memory's row: `Agree` says that a row anyone holds and a row of
the queue with the same queue_id are the same row. `Known` says that
rows, lists and indexes speak of memories that are here, and `Room` that what
the sync daemon is about to add fits the bound of the queue. `QueueTypes` is part
of the same invariant.

**Node** (`NodeProofs`). `IndexesAlwaysFollow` and `NothingIsForgotten` are
shown for the steps of Storage, whoever takes them. `ServicesAlwaysAccounted`
and `ProgramsAlwaysFit` need to know where a command is: `CommandOK` (its lists
are beginnings of the list of services), `Owned` (while Up starts programs,
every process is in its list; while programs are stopped, in the list or, when
it could not be signalled, in the runtime file that is kept; otherwise in the
runtime file) and `OneConfig` (all programs that run have the same settings, and
while Up runs these are the config file's). `NodeTypes` includes that no pid
runs twice.

**MemoryGraph** (`MemoryGraphProofs`). `ValidAlwaysSigned`: any number of
batches may be between verification and merge. `Promised` says of each that what
it is about to call valid is signed by itself or already in the table, and
claims never leave the table. `OnlyOrphansAreHidden` is an action property of
the scrubber's transaction. `GraphTypes` needs what a walk knows (`WalkShape`).
`TraceAlwaysFaithful` holds for any depth and any writes between a walk's
queries. `WalkInv` says what a walk has behind it: at each level it has left, all
edges that were there when it began were followed (`Expands`), what it has found
is what it will return (`Reached`), and can be reached now (`Reachable`), since
edges and claims are only ever added. The levels of the reference
(`Within`) are the ends of paths, and a path of edges that were there at the start
cannot leave what the walk has found, because there is no first edge on it with
which it does.

**Recall** (`RecallProofs`). `TrustAlwaysDecides`: for any library, queries,
graph and limits, in either profile and for any `Precision`, no answer of Recall
and no section of ContextBuild lists an unchecked memory before one that is
verified or private. All that is added to the weight of a bucket is less than
the thousand points between two buckets (`MeritIsSmall`). `OrderedSorts` shows
that the order RankRows makes is sorted, and further lemmas that the limits and
the sections, which pick entries from that list, keep its order. `EdgesFinite` is
the invariant it needs of MemoryGraph: a graph score is a count of edges.

**Curation** (`CurationProofs`). `ProvenanceAlways`, `ApprovedAtMostOnce`,
`RelationsAlwaysExplained`, `ReviewsAreFinal`, for any sessions and requests.
The invariants are inductive together: `TypeOK` keeps a new memory's number out
of the older links, and `Shape` adds the fields of memories and candidates. That
a chunk already stored and a message already received never change, however a
session grows, is what the proof of ingest comes down to.

`ChunksDisjoint` is not among them, because it does not hold for any requests:
seq and role come from the client, and a message that arrives before those in
front of it, or comes again with another role, makes IngestSession cut the
session anew, beside the chunks it has stored. `ChunksOfOrderedSessions` shows it
for the behaviours in which every message arrives after those before it and
keeps its role (`MessagesInOrder`), in however many parts. `ChunksOfWholeSessions`
shows it for all behaviours when each request holds the session from its first
message on (`SentFromTheStart`), however requests are repeated or overtake
each other; the requests of `curation` are of this kind, which TLC evaluates. Both
rest on `ChunksAreTurns`: every stored chunk is a part of the turn whose position
its id names, and turns keep their position when a session only grows.

Only model-checked: the liveness properties (`Convergence`, `EveryPeerServed`,
`FencesLift`, `StoredIndexed`, `ReceivedIndexed`, `EdgesRecover`,
`CommandsEnd`), which need fairness and ENABLED. Every invariant and every
action property of a passing run is stated by a theorem, `NamespaceIsolation`,
`SupersededHasSuccessor`, `DriftContained` and `ChunksDisjoint` under the
hypotheses named above. That `CRSqlite` is what the extension does, and that the
instances of the constants are what the programs' tables hold, is a matter of
the models and not of the proofs.

## 5. Not modelled

* Private memories written by clients: the same code on tables that are never
  synced. Those that promotion makes are in Curation.
* Malformed batches, and with them the rows of `sync_quarantine`: the modelled
  peers run this program. What a refusal does to `peer_sync_state` is modelled.
* The row that Handshake's allowlist check reads (`IsAllowed`): a registry peer
  is always allowed. Trust states and weights of policies, which nothing but
  SyncRegistry writes.
* A difference of the CRR manifest hash without one of the schema hash, and of
  the protocol version, which is only logged.
* Explain, Diagnose, SyncStatus and the scrubber's report, which read and show.
  What Store writes about an artifact besides its namespace, the artifacts of
  ContextBuild's bundle, and all wording.
* The older recall functions of `internal/memory/service.go` (`recallHybrid`,
  `recallWithVector`, `recallWithFTS`), which nothing calls.
* The SQL of the single migrations; what the triggers they leave do is in
  MemSync.
* The values of embedding vectors: an order of the units stands for them.
* The HTTP API and the MCP server keep no state: each handler decodes a request
  and calls an operation that is modelled. Parsing of configuration, unpacking of
  extension assets and the scripts for evaluation have no order of steps to get
  wrong.

## 6. Plan

The order followed what would hurt most if it were wrong: replication first,
then what feeds it, then what reads it, then what runs it. All of that is done.
What is left, by what it would add:

1. What `OneReplacer` can be weakened to, for instance when a memory is only
   superseded within its namespace; and a refinement of the queues of IndexQueue
   by an abstract work list, with its proof.
2. A sender that is not this program: batches that cannot be decoded, the rows of
   `sync_quarantine` and their age, and the write lock that the quarantine of a
   batch waits for while its transaction is open (`service.go:188`). A redelivered
   batch that is refused again violates that table's primary key
   (`service.go:350`).
3. Extraction in its three statements, and Explain.
4. Composition of `MemSync` with `IndexQueue`, with the log of the one as the
   arrivals of the other, once an instance of it is small enough.
