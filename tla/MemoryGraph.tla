----------------------------- MODULE MemoryGraph -----------------------------
(***************************************************************************)
(* The graph of shared memories in the database of one node, while it is   *)
(* written by clients (internal/memory: Store, Supersede) and by batches   *)
(* of its peers (internal/memsync: ApplyBatch), repaired by the scrubber   *)
(* (internal/scrubber) and walked by TraceDecision (internal/memory).      *)
(*                                                                         *)
(* A batch belongs to one namespace and may bring an edge, a signal or a   *)
(* revision of a memory that has not arrived yet, or never will: MemSync   *)
(* says when.  ApplyBatch verifies a batch before its transaction begins,  *)
(* and several requests are served at once.  TraceDecision reads one level *)
(* of edges and one memory at a time, without a transaction.               *)
(***************************************************************************)
EXTENDS Naturals, FiniteSets

CONSTANTS
    Memories,
    Requests,      \* what clients send to Store and Supersede:
                   \* [memory, relations], relations a set of <<type, to>>
    Batches,       \* what peers send: the memories whose signed columns, and
                   \* those whose lifecycle_state, it brings, edges, signals
    Unverifiable,  \* the memories of peers that have no key in peer_policies
    Depth,         \* the depth TraceDecision is asked for
    MaxApplying    \* bound: the batches that are being applied at one time

RelationTypes == {"supports", "contradicts", "derived_from", "supersedes"}
Edges == [from : Memories, to : Memories, type : RelationTypes]

ASSUME ConstantsAssumption ==
    /\ \A r \in Requests : /\ r.memory \in Memories /\ IsFiniteSet(r.relations)
                           /\ r.relations \subseteq (RelationTypes \ {"supersedes"}) \X Memories
    /\ \A b \in Batches : /\ b.claims \subseteq Memories /\ b.revised \subseteq Memories
                          /\ b.edges \subseteq Edges /\ b.signals \subseteq Memories
                          /\ IsFiniteSet(b.edges)
    /\ Unverifiable \subseteq Memories
    /\ Depth \in Nat \ {0} /\ MaxApplying \in Nat

VARIABLES
    claimed,      \* the memories whose signed columns are in memory_nodes
    superseded,   \* those whose lifecycle_state is 'superseded'
    edges,        \* memory_edges
    signals,      \* the memories that memory_signals is about
    status,       \* signature_status of memory_verification_state
    applying,     \* batches between their verification and their transaction
    edgeSuspensions, signalSuspensions,  \* local_graph_suspensions, by entity
    walk          \* the TraceDecision that is running

data == <<claimed, superseded, edges, signals, status>>
suspensions == <<edgeSuspensions, signalSuspensions>>
graph == <<claimed, superseded, edges, signals, status, applying,
           edgeSuspensions, signalSuspensions, walk>>

\* A row exists once any of its columns was merged.
Nodes == claimed \cup superseded

Over(f, g) == [x \in DOMAIN f \cup DOMAIN g |-> IF x \in DOMAIN f THEN f[x] ELSE g[x]]

(***************************************************************************)
(* Clients.                                                                *)
(***************************************************************************)

\* insertRelations: every memory that is related to must be there.
Relatable(r) == \A rel \in r.relations : rel[2] \in Nodes /\ rel[2] # r.memory

RelationEdges(r) == {[from |-> r.memory, to |-> rel[2], type |-> rel[1]] : rel \in r.relations}

\* storeTx, with the given edges and lifecycle changes.
StoreTx(r, more, replaced) ==
    /\ r.memory \notin Nodes /\ Relatable(r)
    /\ claimed' = claimed \cup {r.memory}
    /\ superseded' = superseded \cup replaced
    /\ edges' = edges \cup RelationEdges(r) \cup more
    /\ signals' = signals \cup {r.memory}
    /\ status' = Over([m \in {r.memory} |-> "valid"], status)
    /\ UNCHANGED <<applying, suspensions, walk>>

Store(r) == StoreTx(r, {}, {})

Supersede(old, r) ==
    /\ old \in Nodes
    /\ StoreTx(r, {[from |-> r.memory, to |-> old, type |-> "supersedes"]}, {old})

(***************************************************************************)
(* ApplyBatch.                                                             *)
(***************************************************************************)

\* The memories evaluateBatchVerification looks at, and those that have a
\* signature when the columns of the batch are laid over the local row.
Touched(b) == b.claims \cup b.revised
Signed(b)  == b.claims \cup (claimed \cap Touched(b))

\* Only what the batch itself signs is verified; everything gets 'valid'.
Results_BatchOnly(b) == [m \in Touched(b) |-> "valid"]

Results(b) == [m \in Touched(b) |-> IF m \in Signed(b) THEN "valid" ELSE "missing_signature"]

\* evaluateBatchVerification, before the transaction; a batch with a signature
\* that cannot be verified is quarantined and changes none of these tables.
Verify(b) ==
    /\ Cardinality(applying) < MaxApplying
    /\ Signed(b) \cap Unverifiable = {}
    /\ applying' = applying \cup {[batch |-> b, results |-> Results(b)]}
    /\ UNCHANGED <<data, suspensions, walk>>

\* The transaction.
Merge(a) ==
    /\ claimed' = claimed \cup a.batch.claims
    /\ superseded' = superseded \cup a.batch.revised
    /\ edges' = edges \cup a.batch.edges
    /\ signals' = signals \cup a.batch.signals
    /\ status' = Over(a.results, status)
    /\ applying' = applying \ {a}
    /\ UNCHANGED <<suspensions, walk>>

\* The request is cancelled or its process stops.
Abandon(a) ==
    /\ applying' = applying \ {a}
    /\ UNCHANGED <<data, suspensions, walk>>

(***************************************************************************)
(* The scrubber.                                                           *)
(***************************************************************************)

\* A memory without its signature counts as missing.
OrphanEdges_Unsigned == {e \in edges : e.from \notin claimed \/ e.to \notin claimed}

OrphanEdges == {e \in edges : e.from \notin Nodes \/ e.to \notin Nodes}

OrphanSignals == signals \ Nodes

\* upsertSuspensions: a resolved one is open again.
UpsertSuspensions(susp, active) == Over([x \in active |-> "open"], susp)

\* What is no orphan any more stays as it is.
ResolveClearedSuspensions_None(susp, active) == susp

ResolveClearedSuspensions(susp, active) ==
    [x \in DOMAIN susp |-> IF x \in active THEN susp[x] ELSE "resolved"]

Suspended(susp, active) == ResolveClearedSuspensions(UpsertSuspensions(susp, active), active)

\* RunActiveRepair: one transaction, once a minute.  It also deletes batches
\* that have been in quarantine for a week.
RunActiveRepair ==
    /\ edgeSuspensions' = Suspended(edgeSuspensions, OrphanEdges)
    /\ signalSuspensions' = Suspended(signalSuspensions, OrphanSignals)
    /\ UNCHANGED <<data, applying, walk>>

(***************************************************************************)
(* TraceDecision, of a shared memory.                                      *)
(***************************************************************************)
Hidden(e) == e \in DOMAIN edgeSuspensions /\ edgeSuspensions[e] = "open"

\* What a walk could use right now.
Traceable == {e \in edges : e.from \in Nodes /\ e.to \in Nodes /\ ~Hidden(e)}

NoWalk == [pc |-> "none"]
Becomes(w) == walk' = w /\ UNCHANGED <<data, applying, suspensions>>

\* "began" is not the code's: what was traceable when the walk began.
TraceDecision(root) ==
    /\ walk = NoWalk /\ root \in Nodes
    /\ Becomes([pc |-> "edges", root |-> root, depth |-> 1,
                frontier |-> {root}, next |-> {}, todo |-> {}, visited |-> {root},
                hops |-> {}, began |-> Traceable])

\* One level more than was asked for.
LoadTraceEdges_OneMore ==
    /\ walk.pc = "edges"
    /\ Becomes(IF walk.depth <= Depth + 1 /\ walk.frontier # {}
               THEN [walk EXCEPT !.pc = "nodes",
                                 !.todo = {e \in edges : e.from \in walk.frontier /\ ~Hidden(e)}]
               ELSE [walk EXCEPT !.pc = "done"])

\* loadTraceEdges, for the memories found last, if the depth is not reached.
LoadTraceEdges ==
    /\ walk.pc = "edges"
    /\ Becomes(IF walk.depth <= Depth /\ walk.frontier # {}
               THEN [walk EXCEPT !.pc = "nodes",
                                 !.todo = {e \in edges : e.from \in walk.frontier /\ ~Hidden(e)}]
               ELSE [walk EXCEPT !.pc = "done"])

\* The memory is not there: the rest of the level is given up.
LoadTraceNode_Stops(e) ==
    IF e.to \notin Nodes THEN [walk EXCEPT !.todo = {}]
    ELSE [walk EXCEPT !.todo = @ \ {e},
                      !.hops = @ \cup {[memory |-> e.to, type |-> e.type, depth |-> walk.depth]},
                      !.visited = @ \cup {e.to},
                      !.next = IF e.to \in walk.visited THEN @ ELSE @ \cup {e.to}]

\* loadTraceDecisionNode, for one of the edges: a hop, and when the memory is
\* new, one of the next frontier.  A memory that is not there is passed over.
LoadTraceNode(e) ==
    IF e.to \notin Nodes THEN [walk EXCEPT !.todo = @ \ {e}]
    ELSE [walk EXCEPT !.todo = @ \ {e},
                      !.hops = @ \cup {[memory |-> e.to, type |-> e.type, depth |-> walk.depth]},
                      !.visited = @ \cup {e.to},
                      !.next = IF e.to \in walk.visited THEN @ ELSE @ \cup {e.to}]

TraceHop == walk.pc = "nodes" /\ \E e \in walk.todo : Becomes(LoadTraceNode(e))

TraceLevel ==
    /\ walk.pc = "nodes" /\ walk.todo = {}
    /\ Becomes([walk EXCEPT !.pc = "edges", !.depth = @ + 1, !.frontier = walk.next, !.next = {}])

TraceReturns == walk.pc = "done" /\ Becomes(NoWalk)

\* isContradictionRelation: which list of the answer a hop is in.
IsContradictionRelation(type) == type = "contradicts"

(***************************************************************************)
(* The specification.                                                      *)
(***************************************************************************)
GraphInit ==
    /\ claimed = {} /\ superseded = {} /\ edges = {} /\ signals = {}
    /\ status = [m \in {} |-> "valid"]
    /\ applying = {}
    /\ edgeSuspensions = [e \in {} |-> "open"] /\ signalSuspensions = [m \in {} |-> "open"]
    /\ walk = NoWalk

GraphNext ==
    \/ \E r \in Requests : Store(r) \/ \E old \in Memories : Supersede(old, r)
    \/ \E b \in Batches : Verify(b)
    \/ \E a \in applying : Merge(a) \/ Abandon(a)
    \/ RunActiveRepair
    \/ \E root \in Memories : TraceDecision(root)
    \/ LoadTraceEdges \/ TraceHop \/ TraceLevel \/ TraceReturns

GraphSpec == GraphInit /\ [][GraphNext]_graph

\* The scrubber's ticker never stops.  Clients and peers are not fair.
FairGraphSpec == GraphSpec /\ WF_graph(RunActiveRepair)

(***************************************************************************)
(* Properties.                                                             *)
(***************************************************************************)
IsWalk(w) ==
    /\ w.pc \in {"edges", "nodes", "done"}
    /\ w.depth \in 1 .. Depth + 1
    /\ w.visited \subseteq Nodes /\ w.root \in w.visited
    /\ w.frontier \cup w.next \subseteq w.visited
    /\ w.todo \cup w.began \subseteq edges
    /\ \A h \in w.hops : h.memory \in w.visited /\ h.depth \in 1 .. Depth

\* Every variable has its type, the scrubber knows of nothing that is not in
\* the tables, and a walk has seen nothing else either.
GraphTypeOK ==
    /\ claimed \subseteq Memories /\ superseded \subseteq Memories
    /\ edges \subseteq Edges /\ signals \subseteq Memories
    /\ DOMAIN status \subseteq Nodes
    /\ \A m \in DOMAIN status : status[m] \in {"valid", "missing_signature"}
    /\ Cardinality(applying) <= MaxApplying
    /\ DOMAIN edgeSuspensions \subseteq edges /\ DOMAIN signalSuspensions \subseteq signals
    /\ walk = NoWalk \/ IsWalk(walk)

\* A memory that is called valid has a signature that verifies, although a
\* batch may bring some of its columns only and the local row may have changed
\* since it was read (evaluateBatchVerification, ApplyBatch).
ValidIsSigned == \A m \in DOMAIN status : status[m] = "valid" => m \in claimed

\* A memory that has its signature is called valid.
SignedIsValid == \A m \in claimed : status[m] = "valid"

\* f walks along edges of G, or stays where it is.
IsPath(G, f, n) ==
    \A i \in 1 .. n : f[i] = f[i - 1] \/ \E e \in G : e.from = f[i - 1] /\ e.to = f[i]

\* What can be reached from root by at most n edges of G.
Within(G, root, n) ==
    {f[n] : f \in {f \in [0 .. n -> Memories] : f[0] = root /\ IsPath(G, f, n)}}

\* What a walk has found at distance n or nearer.
Found(w, n) == {w.root} \cup {h.memory : h \in {h \in w.hops : h.depth <= n}}

\* The answer of TraceDecision has, at each distance, at least what could be
\* reached in so many hops when it began, and nothing that cannot be reached
\* now, whatever was stored, merged, suspended or resolved while it walked.
TraceFaithful ==
    walk.pc = "done" =>
        \A n \in 0 .. Depth :
            /\ Within(walk.began, walk.root, n) \subseteq Found(walk, n)
            /\ Found(walk, n) \subseteq Within(edges, walk.root, n) \cap Nodes

\* An edge is hidden from TraceDecision only while one of its ends is missing,
\* never because it was an orphan once (RunActiveRepair).
OnlyOrphansHidden ==
    [][\A e \in edges : ~Hidden(e) /\ Hidden(e)' => {e.from, e.to} \ Nodes # {}]_graph

\* An edge that arrived before one of its memories is shown again after the
\* memory has arrived (resolveClearedSuspensions).
EdgesRecover ==
    \A e \in UNION {b.edges : b \in Batches} :
        (e \in edges /\ e.from \in Nodes /\ e.to \in Nodes) ~> e \in Traceable
=============================================================================
