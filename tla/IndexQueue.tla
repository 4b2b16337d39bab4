----------------------------- MODULE IndexQueue -----------------------------
(***************************************************************************)
(* How the memories of one namespace get into the local indexes of a node: *)
(* the index_queue and the retrieval_index_queue, filled by Store          *)
(* (internal/memory) and by the sync daemon after ApplyBatch               *)
(* (internal/memsync: enqueueNamespace), and drained by the workers of     *)
(* memoryd and indexd (internal/indexer).                                  *)
(*                                                                         *)
(* A retrieval unit has the id of its memory.  Bodies never change once    *)
(* they are here, so an index either has a memory or has not.              *)
(***************************************************************************)
EXTENDS Naturals, Sequences, FiniteSets, SequencesExt

CONSTANTS
    Memories,
    Stored,       \* those that are stored on this node; the others are synced
    Workers,      \* memoryd runs one worker, indexd another
    Unembeddable, \* memories whose body the embedding provider always refuses
    QueueLimit,   \* the LIMIT of pendingItems and pendingRetrievalItems
    EnqueueLimit, \* the LIMIT of enqueueNamespace
    MaxPending    \* bound: nothing arrives while more rows of index_queue are
                  \* pending; a batch may add EnqueueLimit rows to them

ASSUME ConstantsAssumption ==
    /\ IsFiniteSet(Memories) /\ IsFiniteSet(Workers)
    /\ Stored \subseteq Memories
    /\ Unembeddable \subseteq Memories
    /\ QueueLimit \in Nat \ {0}
    /\ EnqueueLimit \in Nat \ {0}
    /\ MaxPending \in Nat \ {0}

VARIABLES
    logged,   \* the memories of sync_change_log, by their first entry
    queue,    \* the pending rows of index_queue, oldest first
    rqueue,   \* the unit ids of the pending rows of retrieval_index_queue
    units,    \* the units of retrieval_units
    indexed,  \* the memories of memory_embeddings
    runits,   \* the units of retrieval_embeddings
    worker,   \* worker[w]: where ProcessOnce of w is
    syncd     \* where ApplyBatch of the sync daemon is

vars == <<logged, queue, rqueue, units, indexed, runits, worker, syncd>>
tables == <<logged, queue, rqueue, units, indexed, runits>>

Present == ToSet(logged)

Least(a, b) == IF a < b THEN a ELSE b

\* What a row of index_queue is to everyone who holds it: a queue_id and a
\* memory.  A queue_id is drawn anew for every row.
Held == ToSet(queue) \cup UNION {ToSet(worker[w].todo) : w \in {v \in Workers : worker[v].pc = "items"}}
Row(m) == [id |-> CHOOSE i \in 1 .. Cardinality(Held) + 1 : \A r \in Held : r.id # i, mem |-> m]

(***************************************************************************)
(* Writers.                                                                *)
(***************************************************************************)

\* storeTx: the memory, its retrieval unit and both queue rows in one
\* transaction.
Store(m) ==
    /\ m \in Stored \ Present /\ Len(queue) < MaxPending
    /\ logged' = Append(logged, m)
    /\ units' = units \cup {m}
    /\ rqueue' = Append(rqueue, m)
    /\ queue' = Append(queue, Row(m))
    /\ UNCHANGED <<indexed, runits, worker, syncd>>

\* The sync daemon between two batches.
Quiet == [pc |-> "idle", rest |-> <<>>]

\* Nothing is enqueued for a batch that brought nothing.
ApplyBatch_SkipsEmpty(ms) ==
    /\ syncd = Quiet /\ Len(queue) + EnqueueLimit <= MaxPending
    /\ logged' = logged \o ms
    /\ syncd' = IF ms = <<>> THEN syncd ELSE [pc |-> "committed", rest |-> <<>>]
    /\ UNCHANGED <<queue, rqueue, units, indexed, runits, worker>>

\* ApplyBatch of a batch that brings the memories ms, up to its commit.  No
\* retrieval unit is made.  Most batches bring nothing, and are applied too.
ApplyBatch(ms) ==
    /\ syncd = Quiet /\ Len(queue) + EnqueueLimit <= MaxPending
    /\ logged' = logged \o ms
    /\ syncd' = [pc |-> "committed", rest |-> <<>>]
    /\ UNCHANGED <<queue, rqueue, units, indexed, runits, worker>>

\* What the memories that have not arrived yet can arrive as.
Batches == UNION {SetToSeqs(S) : S \in SUBSET (Memories \ (Stored \cup Present))}

\* SELECT DISTINCT memory_id ... ORDER BY id DESC LIMIT 32: the memories whose
\* first log entry is the latest.
Recent == SubSeq(Reverse(logged), 1, Least(Len(logged), EnqueueLimit))

\* enqueueNamespace, after the commit: the query,
ReadRecent ==
    /\ syncd.pc = "committed"
    /\ syncd' = IF Recent = <<>> THEN Quiet ELSE [pc |-> "enqueue", rest |-> Recent]
    /\ UNCHANGED <<tables, worker>>

\* and an INSERT for every row of it, each a transaction of its own.
EnqueueNext ==
    /\ syncd.pc = "enqueue"
    /\ queue' = Append(queue, Row(Head(syncd.rest)))
    /\ syncd' = IF Len(syncd.rest) = 1 THEN Quiet
                ELSE [syncd EXCEPT !.rest = Tail(@)]
    /\ UNCHANGED <<logged, rqueue, units, indexed, runits, worker>>

\* The sync daemon stops, or its request context is cancelled.
CrashSyncd ==
    /\ syncd # Quiet
    /\ syncd' = Quiet
    /\ UNCHANGED <<tables, worker>>

(***************************************************************************)
(* Workers: ProcessOnce.                                                   *)
(***************************************************************************)
Asleep == [pc |-> "asleep", todo |-> <<>>, failed |-> FALSE]

Become(w, s) == worker' = [worker EXCEPT ![w] = s]

\* ORDER BY enqueued_at_ms DESC.
Page_NewestFirst(rows) == SubSeq(Reverse(rows), 1, Least(Len(rows), QueueLimit))

\* No LIMIT.
Page_All(rows) == rows

\* ORDER BY enqueued_at_ms LIMIT 128
Page(rows) == SubSeq(rows, 1, Least(Len(rows), QueueLimit))

\* An UPDATE that marks what is at one of these places as done.  There is at
\* most one: a queue_id is of one row, and storeTx makes one row for a unit.
Done(rows, places) == IF places = {} THEN rows ELSE RemoveAt(rows, CHOOSE i \in places : TRUE)
DoneItem(r) == Done(queue, {i \in DOMAIN queue : queue[i].id = r.id})
DoneUnit(u) == Done(rqueue, {i \in DOMAIN rqueue : rqueue[i] = u})

\* pendingRetrievalItems
ReadUnits(w) ==
    /\ worker[w].pc = "asleep"
    /\ Become(w, [pc |-> "units", todo |-> Page(rqueue), failed |-> FALSE])
    /\ UNCHANGED <<tables, syncd>>

\* processRetrievalItem, committed: the pending row of the unit is done.
IndexUnit(w) ==
    /\ worker[w].pc = "units" /\ worker[w].todo # <<>>
    /\ LET u == Head(worker[w].todo)
       IN  /\ u \notin Unembeddable
           /\ runits' = runits \cup {u}
           /\ rqueue' = DoneUnit(u)
    /\ Become(w, [worker[w] EXCEPT !.todo = Tail(@)])
    /\ UNCHANGED <<logged, queue, units, indexed, syncd>>

\* processRetrievalItem, rolled back: the provider refuses or cannot be
\* reached, or the transaction is refused because another writer was faster.
FailUnit(w) ==
    /\ worker[w].pc = "units" /\ worker[w].todo # <<>>
    /\ Become(w, [worker[w] EXCEPT !.todo = Tail(@), !.failed = TRUE])
    /\ UNCHANGED <<tables, syncd>>

\* ProcessOnce goes on to index_queue only if every retrieval item succeeded.
ReadItems(w) ==
    /\ worker[w].pc = "units" /\ worker[w].todo = <<>>
    /\ Become(w, IF worker[w].failed THEN Asleep
                 ELSE [pc |-> "items", todo |-> Page(queue), failed |-> FALSE])
    /\ UNCHANGED <<tables, syncd>>

\* processItem, committed: the row with the item's queue_id is done.
IndexItem(w) ==
    /\ worker[w].pc = "items" /\ worker[w].todo # <<>>
    /\ LET r == Head(worker[w].todo)
       IN  /\ r.mem \notin Unembeddable
           /\ indexed' = indexed \cup {r.mem}
           /\ queue' = DoneItem(r)
    /\ Become(w, [worker[w] EXCEPT !.todo = Tail(@)])
    /\ UNCHANGED <<logged, rqueue, units, runits, syncd>>

\* The row is finished in spite of the error.
FailItem_Finishes(w) ==
    /\ worker[w].pc = "items" /\ worker[w].todo # <<>>
    /\ queue' = DoneItem(Head(worker[w].todo))
    /\ Become(w, [worker[w] EXCEPT !.todo = Tail(@)])
    /\ UNCHANGED <<logged, rqueue, units, indexed, runits, syncd>>

\* processItem, rolled back; the error is joined to the others.
FailItem(w) ==
    /\ worker[w].pc = "items" /\ worker[w].todo # <<>>
    /\ Become(w, [worker[w] EXCEPT !.todo = Tail(@)])
    /\ UNCHANGED <<tables, syncd>>

Rest(w) ==
    /\ worker[w].pc = "items" /\ worker[w].todo = <<>>
    /\ Become(w, Asleep)
    /\ UNCHANGED <<tables, syncd>>

CrashWorker(w) ==
    /\ worker[w].pc # "asleep"
    /\ Become(w, Asleep)
    /\ UNCHANGED <<tables, syncd>>

(***************************************************************************)
(* The specification.                                                      *)
(***************************************************************************)
Init ==
    /\ logged = <<>> /\ queue = <<>> /\ rqueue = <<>>
    /\ units = {} /\ indexed = {} /\ runits = {}
    /\ worker = [w \in Workers |-> Asleep]
    /\ syncd = Quiet

Next ==
    \/ \E m \in Memories : Store(m)
    \/ \E ms \in Batches : ApplyBatch(ms)
    \/ ReadRecent \/ EnqueueNext \/ CrashSyncd
    \/ \E w \in Workers :
          \/ ReadUnits(w) \/ IndexUnit(w) \/ FailUnit(w)
          \/ ReadItems(w) \/ IndexItem(w) \/ FailItem(w)
          \/ Rest(w) \/ CrashWorker(w)

Spec == Init /\ [][Next]_vars

\* A worker that runs again and again gets through its lists, and an item that
\* is tried again and again succeeds if it can; the same for the sync daemon,
\* whose rounds go on, mostly with empty batches.  Arrivals and crashes are
\* not fair.
Fairness ==
    /\ \A w \in Workers :
          /\ WF_vars(ReadUnits(w) \/ FailUnit(w) \/ ReadItems(w) \/ FailItem(w) \/ Rest(w))
          /\ SF_vars(ReadItems(w))
          /\ \A m \in Stored : SF_vars(IndexUnit(w) /\ Head(worker[w].todo) = m)
          /\ \A m \in Memories : SF_vars(IndexItem(w) /\ Head(worker[w].todo).mem = m)
    /\ SF_vars(ApplyBatch(<<>>)) /\ SF_vars(ReadRecent)
    /\ \A m \in Memories : SF_vars(EnqueueNext /\ Head(syncd.rest) = m)

FairSpec == Spec /\ Fairness

(***************************************************************************)
(* Properties.                                                             *)
(***************************************************************************)
Rows == [id : Nat, mem : Memories]

WorkerStates ==
    {Asleep} \cup
    [pc : {"units"}, todo : Seq(Stored), failed : BOOLEAN] \cup
    [pc : {"items"}, todo : Seq(Rows), failed : {FALSE}]

SyncdStates ==
    [pc : {"idle", "committed"}, rest : {<<>>}] \cup
    [pc : {"enqueue"}, rest : Seq(Memories) \ {<<>>}]

\* Every variable has its type, no memory is logged first twice, no two
\* rows of index_queue share a queue_id and no unit has two pending rows.
TypeOK ==
    /\ logged \in Seq(Memories) /\ IsInjective(logged)
    /\ queue \in Seq(Rows) /\ Len(queue) <= MaxPending + EnqueueLimit
    /\ IsInjective([i \in DOMAIN queue |-> queue[i].id])
    /\ rqueue \in Seq(Stored) /\ IsInjective(rqueue)
    /\ units \subseteq Stored /\ runits \subseteq units /\ indexed \subseteq Present
    /\ worker \in [Workers -> WorkerStates] /\ syncd \in SyncdStates
    /\ \A w \in Workers : Len(worker[w].todo) <= QueueLimit

\* A memory stored here is in an index or has a pending row for it, whichever
\* process stops where and whatever fails (storeTx, finishQueueItem).
StoredCovered ==
    \A m \in Stored \cap Present :
        /\ m \in indexed \/ \E r \in ToSet(queue) : r.mem = m
        /\ m \in runits \/ m \in ToSet(rqueue)

\* A memory stored here gets into both indexes, although every sync round puts
\* more rows into the queue and a page has a limit (ProcessOnce).
StoredIndexed ==
    \A m \in Stored \ Unembeddable : m \in Present ~> m \in indexed \cap runits

\* A memory that came from a peer is embedded here, unless so many newer ones
\* come that enqueueNamespace does not read it any more, although the sync
\* daemon may stop between the commit and the queue rows.
ReceivedIndexed ==
    \A m \in Memories \ (Stored \cup Unembeddable) :
        m \in Present ~> m \in indexed \/ m \notin ToSet(Recent)

\* A memory that came from a peer can be recalled here.
ReceivedRecallable == \A m \in Memories \ Stored : m \in Present ~> m \in units
=============================================================================
