-------------------------- MODULE MemoryGraphProofs --------------------------
(***************************************************************************)
(* Proofs about MemoryGraph, for any memories, requests and batches.       *)
(* ValidIsSigned is not inductive: a batch is verified in one step and     *)
(* merged in a later one, so Promised says what a verification that is     *)
(* still in hand has found.  Rows are never removed from the tables the    *)
(* graph is made of, which is why what it found stays true, and why an     *)
(* edge that can be walked once always can be.  TraceFaithful rests on     *)
(* that and on what each level of a walk has done (Reached, Expands,       *)
(* Reachable).                                                             *)
(***************************************************************************)
EXTENDS MemoryGraph, FiniteSetTheorems, WellFoundedInduction, TLAPS

\* What the verification of a batch has found, while the batch waits for its
\* transaction: a memory that it calls valid has its signed columns in the
\* database already or in the batch.
IsVerified(a) ==
    /\ a.batch \in Batches
    /\ DOMAIN a.results = Touched(a.batch)
    /\ \A m \in Touched(a.batch) : /\ a.results[m] \in {"valid", "missing_signature"}
                                   /\ a.results[m] = "valid" => m \in a.batch.claims \cup claimed

Promised == IsFiniteSet(applying) /\ \A a \in applying : IsVerified(a)

\* TraceDecision rebuilds its record field by field.
WalkShape ==
    walk # NoWalk =>
        walk = [pc |-> walk.pc, root |-> walk.root, depth |-> walk.depth,
                frontier |-> walk.frontier, next |-> walk.next, todo |-> walk.todo,
                visited |-> walk.visited, hops |-> walk.hops, began |-> walk.began]

\* A walk that is at work on a level has not gone further than it was asked to.
WalkDepth == walk.pc = "nodes" => walk.depth <= Depth

GraphInv == GraphTypeOK /\ ValidIsSigned /\ Promised /\ WalkShape /\ WalkDepth

\* The empty graph has no edge, no signal and no walk.
LEMMA GraphInitInv == GraphInit => GraphInv
<1> SUFFICES ASSUME GraphInit PROVE GraphInv
  OBVIOUS
<1>1. Cardinality({}) = 0 /\ IsFiniteSet({})
  BY FS_EmptySet
<1>2. GraphTypeOK
  BY <1>1, ConstantsAssumption DEF GraphInit, GraphTypeOK
<1>3. ValidIsSigned /\ Promised /\ WalkShape /\ WalkDepth
  BY <1>1 DEF GraphInit, ValidIsSigned, Promised, WalkShape, WalkDepth, NoWalk
<1> QED BY <1>2, <1>3 DEF GraphInv

\* When rows are added to the tables, and no walk and no suspension changes, a
\* walk stays what it was.
LEMMA WalkGrows ==
  ASSUME walk = NoWalk \/ IsWalk(walk), UNCHANGED walk,
         Nodes \subseteq Nodes', edges \subseteq edges'
  PROVE  (walk = NoWalk \/ IsWalk(walk))'
  BY DEF IsWalk, NoWalk

\* The same for a verification in hand.
LEMMA PromiseGrows ==
  ASSUME Promised, applying' \subseteq applying, claimed \subseteq claimed'
  PROVE  Promised'
<1>1. IsFiniteSet(applying')
  BY FS_Subset DEF Promised
<1>2. ASSUME NEW a \in applying' PROVE IsVerified(a)'
  BY <1>2 DEF Promised, IsVerified, Touched
<1> QED BY <1>1, <1>2 DEF Promised

\* storeTx adds the memory with its relations and signals in one step.
LEMMA StoreInv ==
  ASSUME GraphInv, NEW r \in Requests, NEW more, NEW replaced, StoreTx(r, more, replaced),
         more \subseteq Edges, replaced \subseteq Nodes
  PROVE  GraphInv'
<1>1. r.memory \in Memories /\ \A rel \in r.relations : rel[1] \in RelationTypes /\ rel[2] \in Memories
  BY ConstantsAssumption
<1>2. RelationEdges(r) \subseteq Edges
  BY <1>1 DEF RelationEdges, Edges
<1>3. /\ claimed' = claimed \cup {r.memory} /\ superseded' = superseded \cup replaced
      /\ edges' = edges \cup RelationEdges(r) \cup more /\ signals' = signals \cup {r.memory}
      /\ status' = Over([m \in {r.memory} |-> "valid"], status)
      /\ UNCHANGED <<applying, edgeSuspensions, signalSuspensions, walk>>
  BY DEF StoreTx, suspensions
<1>4. Nodes \subseteq Memories /\ Nodes \subseteq Nodes' /\ r.memory \in Nodes'
  BY <1>3 DEF Nodes, GraphInv, GraphTypeOK
<1>5. /\ DOMAIN status' = DOMAIN status \cup {r.memory} /\ status'[r.memory] = "valid"
      /\ \A m \in DOMAIN status \ {r.memory} : status'[m] = status[m]
  BY <1>3 DEF Over
<1>6. GraphTypeOK'
  <2>1. /\ claimed' \subseteq Memories /\ superseded' \subseteq Memories
        /\ edges' \subseteq Edges /\ signals' \subseteq Memories
    BY <1>1, <1>2, <1>3, <1>4 DEF GraphInv, GraphTypeOK
  <2>2. /\ DOMAIN status' \subseteq Nodes'
        /\ \A m \in DOMAIN status' : status'[m] \in {"valid", "missing_signature"}
    BY <1>4, <1>5 DEF GraphInv, GraphTypeOK
  <2>3. /\ Cardinality(applying') <= MaxApplying
        /\ DOMAIN edgeSuspensions' \subseteq edges' /\ DOMAIN signalSuspensions' \subseteq signals'
    BY <1>3 DEF GraphInv, GraphTypeOK
  <2>4. (walk = NoWalk \/ IsWalk(walk))'
    BY <1>3, <1>4, WalkGrows DEF GraphInv, GraphTypeOK
  <2> QED BY <2>1, <2>2, <2>3, <2>4 DEF GraphTypeOK
<1>7. ValidIsSigned'
  BY <1>3, <1>5 DEF GraphInv, ValidIsSigned
<1>8. Promised'
  BY <1>3, PromiseGrows DEF GraphInv
<1>9. WalkShape' /\ WalkDepth'
  BY <1>3 DEF GraphInv, WalkShape, WalkDepth
<1> QED BY <1>6, <1>7, <1>8, <1>9 DEF GraphInv

\* Supersede adds the new memory, its edge and the mark of the old one.
LEMMA SupersedeInv ==
  ASSUME GraphInv, NEW old \in Memories, NEW r \in Requests, Supersede(old, r)
  PROVE  GraphInv'
<1> DEFINE edge == [from |-> r.memory, to |-> old, type |-> "supersedes"]
<1>1. edge \in Edges
  BY ConstantsAssumption DEF Edges, RelationTypes
<1>2. old \in Nodes /\ StoreTx(r, {edge}, {old})
  BY DEF Supersede
<1> QED BY <1>1, <1>2, StoreInv

\* A batch is verified: what is signed by the batch or by the row is promised.
LEMMA VerifyInv ==
  ASSUME GraphInv, NEW b \in Batches, Verify(b)
  PROVE  GraphInv'
<1> PICK a : a = [batch |-> b, results |-> Results(b)]
  OBVIOUS
<1>1. /\ Cardinality(applying) < MaxApplying /\ applying' = applying \cup {a}
      /\ UNCHANGED <<claimed, superseded, edges, signals, status,
                     edgeSuspensions, signalSuspensions, walk>>
  BY DEF Verify, data, suspensions
<1>2. IsFiniteSet(applying') /\ Cardinality(applying') <= MaxApplying
  <2>1. IsFiniteSet(applying) /\ Cardinality(applying) \in Nat
    BY FS_CardinalityType DEF GraphInv, Promised
  <2>2. /\ IsFiniteSet(applying \cup {a})
        /\ Cardinality(applying \cup {a}) = Cardinality(applying)
           \/ Cardinality(applying \cup {a}) = Cardinality(applying) + 1
    BY <2>1, FS_AddElement
  <2> QED BY <1>1, <2>1, <2>2, ConstantsAssumption
<1>3. IsVerified(a)'
  <2>1. a.batch = b /\ a.results = Results(b)
    OBVIOUS
  <2>2. DOMAIN a.results = Touched(b)
    BY DEF Results
  <2>3. \A m \in Touched(b) : /\ a.results[m] \in {"valid", "missing_signature"}
                              /\ a.results[m] = "valid" => m \in b.claims \cup claimed
    BY DEF Results, Signed
  <2> QED BY <1>1, <2>1, <2>2, <2>3 DEF IsVerified, Touched
<1>4. Promised'
  BY <1>1, <1>2, <1>3 DEF GraphInv, Promised, IsVerified, Touched
<1>5. (walk = NoWalk \/ IsWalk(walk))'
  BY <1>1, WalkGrows DEF GraphInv, GraphTypeOK, Nodes
<1>6. GraphTypeOK'
  BY <1>1, <1>2, <1>5 DEF GraphInv, GraphTypeOK, Nodes
<1> QED
  BY <1>1, <1>4, <1>6 DEF GraphInv, ValidIsSigned, WalkShape, WalkDepth

\* Its transaction: rows are added, and the promise is kept.
LEMMA MergeInv ==
  ASSUME GraphInv, NEW a \in applying, Merge(a)
  PROVE  GraphInv'
<1>1. /\ claimed' = claimed \cup a.batch.claims /\ superseded' = superseded \cup a.batch.revised
      /\ edges' = edges \cup a.batch.edges /\ signals' = signals \cup a.batch.signals
      /\ status' = Over(a.results, status) /\ applying' = applying \ {a}
      /\ UNCHANGED <<edgeSuspensions, signalSuspensions, walk>>
  BY DEF Merge, suspensions
<1>2. IsVerified(a)
  BY DEF GraphInv, Promised
<1>3. /\ a.batch.claims \subseteq Memories /\ a.batch.revised \subseteq Memories
      /\ a.batch.edges \subseteq Edges /\ a.batch.signals \subseteq Memories
  BY <1>2, ConstantsAssumption DEF IsVerified
<1>4. Nodes \subseteq Nodes' /\ Touched(a.batch) \subseteq Nodes'
  BY <1>1 DEF Nodes, Touched
<1>5. /\ DOMAIN status' = DOMAIN status \cup Touched(a.batch)
      /\ \A m \in Touched(a.batch) : status'[m] = a.results[m]
      /\ \A m \in DOMAIN status \ Touched(a.batch) : status'[m] = status[m]
  BY <1>1, <1>2 DEF Over, IsVerified
<1>6. GraphTypeOK'
  <2>1. /\ claimed' \subseteq Memories /\ superseded' \subseteq Memories
        /\ edges' \subseteq Edges /\ signals' \subseteq Memories
    BY <1>1, <1>3 DEF GraphInv, GraphTypeOK
  <2>2. /\ DOMAIN status' \subseteq Nodes'
        /\ \A m \in DOMAIN status' : status'[m] \in {"valid", "missing_signature"}
    BY <1>2, <1>4, <1>5 DEF GraphInv, GraphTypeOK, IsVerified
  <2>3. Cardinality(applying') <= MaxApplying
    <3>1. IsFiniteSet(applying)
      BY DEF GraphInv, Promised
    <3>2. Cardinality(applying') <= Cardinality(applying) /\ Cardinality(applying') \in Nat
          /\ Cardinality(applying) \in Nat
      BY <1>1, <3>1, FS_Subset, FS_CardinalityType
    <3> QED BY <3>2, ConstantsAssumption DEF GraphInv, GraphTypeOK
  <2>4. DOMAIN edgeSuspensions' \subseteq edges' /\ DOMAIN signalSuspensions' \subseteq signals'
    BY <1>1 DEF GraphInv, GraphTypeOK
  <2>5. (walk = NoWalk \/ IsWalk(walk))'
    BY <1>1, <1>4, WalkGrows DEF GraphInv, GraphTypeOK
  <2> QED BY <2>1, <2>2, <2>3, <2>4, <2>5 DEF GraphTypeOK
<1>7. ValidIsSigned'
  BY <1>1, <1>2, <1>5 DEF GraphInv, ValidIsSigned, IsVerified
<1>8. Promised'
  BY <1>1, PromiseGrows DEF GraphInv
<1>9. WalkShape' /\ WalkDepth'
  BY <1>1 DEF GraphInv, WalkShape, WalkDepth
<1> QED BY <1>6, <1>7, <1>8, <1>9 DEF GraphInv

\* A merge that stops half way leaves what it has done.
LEMMA AbandonInv ==
  ASSUME GraphInv, NEW a \in applying, Abandon(a)
  PROVE  GraphInv'
<1>1. /\ applying' = applying \ {a}
      /\ UNCHANGED <<claimed, superseded, edges, signals, status,
                     edgeSuspensions, signalSuspensions, walk>>
  BY DEF Abandon, data, suspensions
<1>2. Cardinality(applying') <= MaxApplying
  <2>1. IsFiniteSet(applying)
    BY DEF GraphInv, Promised
  <2>2. Cardinality(applying') <= Cardinality(applying) /\ Cardinality(applying') \in Nat
        /\ Cardinality(applying) \in Nat
    BY <1>1, <2>1, FS_Subset, FS_CardinalityType
  <2> QED BY <2>2, ConstantsAssumption DEF GraphInv, GraphTypeOK
<1>3. Promised'
  BY <1>1, PromiseGrows DEF GraphInv
<1>4. (walk = NoWalk \/ IsWalk(walk))'
  BY <1>1, WalkGrows DEF GraphInv, GraphTypeOK, Nodes
<1>5. GraphTypeOK'
  BY <1>1, <1>2, <1>4 DEF GraphInv, GraphTypeOK, Nodes
<1> QED
  BY <1>1, <1>3, <1>5 DEF GraphInv, ValidIsSigned, WalkShape, WalkDepth

\* RunActiveRepair suspends what has no memory and changes no edge.
LEMMA RepairInv ==
  ASSUME GraphInv, RunActiveRepair
  PROVE  GraphInv'
<1>1. /\ edgeSuspensions' = Suspended(edgeSuspensions, OrphanEdges)
      /\ signalSuspensions' = Suspended(signalSuspensions, OrphanSignals)
      /\ UNCHANGED <<claimed, superseded, edges, signals, status, applying, walk>>
  BY DEF RunActiveRepair, data
<1>2. ASSUME NEW susp, NEW active
      PROVE  DOMAIN Suspended(susp, active) = DOMAIN susp \cup active
  BY DEF Suspended, ResolveClearedSuspensions, UpsertSuspensions, Over
<1>3. DOMAIN edgeSuspensions' \subseteq edges' /\ DOMAIN signalSuspensions' \subseteq signals'
  BY <1>1, <1>2 DEF OrphanEdges, OrphanSignals, GraphInv, GraphTypeOK
<1>4. (walk = NoWalk \/ IsWalk(walk))'
  BY <1>1, WalkGrows DEF GraphInv, GraphTypeOK, Nodes
<1>5. GraphTypeOK'
  BY <1>1, <1>3, <1>4 DEF GraphInv, GraphTypeOK, Nodes
<1>6. Promised'
  BY <1>1, PromiseGrows DEF GraphInv
<1> QED
  BY <1>1, <1>5, <1>6 DEF GraphInv, ValidIsSigned, WalkShape, WalkDepth

\* A step of TraceDecision changes nothing but the walk.
LEMMA WalkStepInv ==
  ASSUME GraphInv, NEW w, Becomes(w), w = NoWalk \/ IsWalk(w),
         w # NoWalk => w = [pc |-> w.pc, root |-> w.root, depth |-> w.depth,
                            frontier |-> w.frontier, next |-> w.next, todo |-> w.todo,
                            visited |-> w.visited, hops |-> w.hops, began |-> w.began],
         w.pc = "nodes" => w.depth <= Depth
  PROVE  GraphInv'
<1>1. walk' = w /\ UNCHANGED <<claimed, superseded, edges, signals, status, applying,
                               edgeSuspensions, signalSuspensions>>
  BY DEF Becomes, data, suspensions
<1>2. (walk = NoWalk \/ IsWalk(walk))'
  BY <1>1 DEF IsWalk, NoWalk, Nodes
<1>3. GraphTypeOK'
  BY <1>1, <1>2 DEF GraphInv, GraphTypeOK, Nodes
<1>4. Promised'
  BY <1>1, PromiseGrows DEF GraphInv
<1>5. WalkShape' /\ WalkDepth'
  BY <1>1 DEF WalkShape, WalkDepth, NoWalk
<1> QED
  BY <1>1, <1>3, <1>4, <1>5 DEF GraphInv, ValidIsSigned

\* The two updates of several fields, spelled out.
LEMMA FrontierEdges ==
  ASSUME NEW w, NEW todo,
         w = [pc |-> w.pc, root |-> w.root, depth |-> w.depth, frontier |-> w.frontier,
              next |-> w.next, todo |-> w.todo, visited |-> w.visited, hops |-> w.hops,
              began |-> w.began],
         NEW v, v = [w EXCEPT !.pc = "nodes", !.todo = todo]
  PROVE  v = [pc |-> "nodes", root |-> w.root, depth |-> w.depth, frontier |-> w.frontier,
              next |-> w.next, todo |-> todo, visited |-> w.visited, hops |-> w.hops,
              began |-> w.began]
  OBVIOUS

\* The fields of a walk that goes down one level.
LEMMA NextLevel ==
  ASSUME NEW w, NEW d,
         w = [pc |-> w.pc, root |-> w.root, depth |-> w.depth, frontier |-> w.frontier,
              next |-> w.next, todo |-> w.todo, visited |-> w.visited, hops |-> w.hops,
              began |-> w.began],
         NEW v, v = [w EXCEPT !.pc = "edges", !.depth = d, !.frontier = w.next, !.next = {}]
  PROVE  v = [pc |-> "edges", root |-> w.root, depth |-> d, frontier |-> w.next,
              next |-> {}, todo |-> w.todo, visited |-> w.visited, hops |-> w.hops,
              began |-> w.began]
  OBVIOUS

\* TraceDecision and its queries read: they change the walk alone.
LEMMA TraceInv ==
  ASSUME GraphInv,
         \/ \E root \in Memories : TraceDecision(root)
         \/ LoadTraceEdges \/ TraceHop \/ TraceLevel \/ TraceReturns
  PROVE  GraphInv'
<1>1. ASSUME NEW root \in Memories, TraceDecision(root) PROVE GraphInv'
  <2> DEFINE w == [pc |-> "edges", root |-> root, depth |-> 1,
                   frontier |-> {root}, next |-> {}, todo |-> {}, visited |-> {root},
                   hops |-> {}, began |-> Traceable]
  <2>1. Becomes(w) /\ root \in Nodes
    BY <1>1 DEF TraceDecision
  <2>2. IsWalk(w)
    BY <2>1, ConstantsAssumption DEF IsWalk, Traceable
  <2> QED BY <2>1, <2>2, WalkStepInv
<1>2. ASSUME walk.pc \in {"edges", "nodes", "done"}
      PROVE  /\ IsWalk(walk)
             /\ walk = [pc |-> walk.pc, root |-> walk.root, depth |-> walk.depth,
                        frontier |-> walk.frontier, next |-> walk.next, todo |-> walk.todo,
                        visited |-> walk.visited, hops |-> walk.hops, began |-> walk.began]
  BY <1>2 DEF GraphInv, GraphTypeOK, WalkShape, NoWalk
<1>3. CASE LoadTraceEdges
  <2>1. walk.pc = "edges"
    BY <1>3 DEF LoadTraceEdges
  <2>2. IsWalk(walk)
    BY <1>2, <2>1
  <2>3. CASE walk.depth <= Depth /\ walk.frontier # {}
    <3> DEFINE w == [pc |-> "nodes", root |-> walk.root, depth |-> walk.depth,
                     frontier |-> walk.frontier, next |-> walk.next,
                     todo |-> {e \in edges : e.from \in walk.frontier /\ ~Hidden(e)},
                     visited |-> walk.visited, hops |-> walk.hops, began |-> walk.began]
    <3>1. PICK v : /\ Becomes(v)
                   /\ v = [walk EXCEPT !.pc = "nodes",
                                       !.todo = {e \in edges : e.from \in walk.frontier /\ ~Hidden(e)}]
      BY <1>3, <2>3 DEF LoadTraceEdges
    <3>2. v = w
      BY <1>2, <2>1, <3>1, FrontierEdges
    <3>3. IsWalk(w)
      BY <2>2 DEF IsWalk
    <3> QED BY <2>3, <3>1, <3>2, <3>3, WalkStepInv
  <2>4. CASE ~(walk.depth <= Depth /\ walk.frontier # {})
    <3> DEFINE w == [pc |-> "done", root |-> walk.root, depth |-> walk.depth,
                     frontier |-> walk.frontier, next |-> walk.next, todo |-> walk.todo,
                     visited |-> walk.visited, hops |-> walk.hops, began |-> walk.began]
    <3>1. Becomes(w)
      BY <1>2, <1>3, <2>1, <2>4 DEF LoadTraceEdges
    <3>2. IsWalk(w)
      BY <2>2 DEF IsWalk
    <3> QED BY <3>1, <3>2, WalkStepInv
  <2> QED BY <2>3, <2>4
<1>4. CASE TraceHop
  <2>1. PICK e \in walk.todo : Becomes(LoadTraceNode(e))
    BY <1>4 DEF TraceHop
  <2>2. walk.pc = "nodes"
    BY <1>4 DEF TraceHop
  <2>3. IsWalk(walk) /\ walk.depth <= Depth
    BY <1>2, <2>2 DEF GraphInv, WalkDepth
  <2>4. CASE e.to \notin Nodes
    <3> DEFINE w == [pc |-> walk.pc, root |-> walk.root, depth |-> walk.depth,
                     frontier |-> walk.frontier, next |-> walk.next, todo |-> walk.todo \ {e},
                     visited |-> walk.visited, hops |-> walk.hops, began |-> walk.began]
    <3>1. Becomes(w)
      BY <1>2, <2>1, <2>2, <2>4 DEF LoadTraceNode
    <3>2. IsWalk(w)
      BY <2>3 DEF IsWalk
    <3> QED BY <2>3, <3>1, <3>2, WalkStepInv
  <2>5. CASE e.to \in Nodes
    <3> DEFINE hop == [memory |-> e.to, type |-> e.type, depth |-> walk.depth]
               w == [pc |-> walk.pc, root |-> walk.root, depth |-> walk.depth,
                     frontier |-> walk.frontier,
                     next |-> IF e.to \in walk.visited THEN walk.next ELSE walk.next \cup {e.to},
                     todo |-> walk.todo \ {e},
                     visited |-> walk.visited \cup {e.to},
                     hops |-> walk.hops \cup {hop}, began |-> walk.began]
    <3>1. Becomes(w)
      BY <1>2, <2>1, <2>2, <2>5 DEF LoadTraceNode
    <3>2. walk.depth \in 1 .. Depth
      BY <2>3, ConstantsAssumption DEF IsWalk
    <3>3. \A h \in w.hops : h.memory \in w.visited /\ h.depth \in 1 .. Depth
      BY <2>3, <3>2 DEF IsWalk
    <3>4. w.frontier \cup w.next \subseteq w.visited /\ w.visited \subseteq Nodes
      BY <2>3, <2>5 DEF IsWalk
    <3>5. IsWalk(w)
      BY <2>3, <3>3, <3>4 DEF IsWalk
    <3> QED BY <2>3, <3>1, <3>5, WalkStepInv
  <2> QED BY <2>4, <2>5
<1>5. CASE TraceLevel
  <2>1. walk.pc = "nodes"
    BY <1>5 DEF TraceLevel
  <2>2. IsWalk(walk) /\ walk.depth <= Depth
    BY <1>2, <2>1 DEF GraphInv, WalkDepth
  <2> DEFINE w == [pc |-> "edges", root |-> walk.root, depth |-> walk.depth + 1,
                   frontier |-> walk.next, next |-> {}, todo |-> walk.todo,
                   visited |-> walk.visited, hops |-> walk.hops, began |-> walk.began]
  <2>3. Becomes(w)
    <3>1. PICK v : /\ Becomes(v)
                   /\ v = [walk EXCEPT !.pc = "edges", !.depth = walk.depth + 1,
                                       !.frontier = walk.next, !.next = {}]
      BY <1>5 DEF TraceLevel
    <3>2. v = w
      BY <1>2, <2>1, <3>1, NextLevel
    <3> QED BY <3>1, <3>2
  <2>4. IsWalk(w)
    BY <2>2, ConstantsAssumption DEF IsWalk
  <2> QED BY <2>3, <2>4, WalkStepInv
<1>6. CASE TraceReturns
  <2>1. Becomes(NoWalk) /\ NoWalk.pc = "none"
    BY <1>6 DEF TraceReturns, NoWalk
  <2> QED BY <2>1, WalkStepInv
<1> QED BY <1>1, <1>3, <1>4, <1>5, <1>6

\* Every operation keeps the invariant.
LEMMA GraphStep == GraphInv /\ [GraphNext]_graph => GraphInv'
<1> SUFFICES ASSUME GraphInv, [GraphNext]_graph PROVE GraphInv'
  OBVIOUS
<1>1. ASSUME NEW r \in Requests, Store(r) PROVE GraphInv'
  BY <1>1, StoreInv DEF Store
<1>2. ASSUME NEW r \in Requests, NEW old \in Memories, Supersede(old, r) PROVE GraphInv'
  BY <1>2, SupersedeInv
<1>3. ASSUME NEW b \in Batches, Verify(b) PROVE GraphInv'
  BY <1>3, VerifyInv
<1>4. ASSUME NEW a \in applying, Merge(a) \/ Abandon(a) PROVE GraphInv'
  BY <1>4, MergeInv, AbandonInv
<1>5. CASE RunActiveRepair
  BY <1>5, RepairInv
<1>6. CASE \/ \E root \in Memories : TraceDecision(root)
           \/ LoadTraceEdges \/ TraceHop \/ TraceLevel \/ TraceReturns
  BY <1>6, TraceInv
<1>7. CASE UNCHANGED graph
  <2>1. UNCHANGED <<claimed, superseded, edges, signals, status, applying,
                    edgeSuspensions, signalSuspensions, walk>>
    BY <1>7 DEF graph
  <2>2. (walk = NoWalk \/ IsWalk(walk))'
    BY <2>1, WalkGrows DEF GraphInv, GraphTypeOK, Nodes
  <2>3. GraphTypeOK'
    BY <2>1, <2>2 DEF GraphInv, GraphTypeOK, Nodes
  <2>4. Promised'
    BY <2>1, PromiseGrows DEF GraphInv
  <2> QED BY <2>1, <2>3, <2>4 DEF GraphInv, ValidIsSigned, WalkShape, WalkDepth
<1> QED BY <1>1, <1>2, <1>3, <1>4, <1>5, <1>6, <1>7 DEF GraphNext

\* So it holds at any time.
LEMMA GraphAlways == GraphSpec => []GraphInv
  BY GraphInitInv, GraphStep, PTL DEF GraphSpec

(***************************************************************************)
(* Paths.                                                                  *)
(***************************************************************************)
LEMMA WithinZero ==
  ASSUME NEW G, NEW root \in Memories
  PROVE  root \in Within(G, root, 0)
<1> DEFINE f == [i \in 0 .. 0 |-> root]
<1>1. f \in [0 .. 0 -> Memories] /\ f[0] = root /\ IsPath(G, f, 0)
  BY DEF IsPath
<1> QED BY <1>1 DEF Within

\* A path with one step more.
LEMMA WithinStep ==
  ASSUME NEW G, NEW root, NEW n \in Nat, NEW m \in Within(G, root, n), NEW to \in Memories,
         to = m \/ \E e \in G : e.from = m /\ e.to = to
  PROVE  to \in Within(G, root, n + 1)
<1>1. PICK f \in [0 .. n -> Memories] : f[0] = root /\ IsPath(G, f, n) /\ f[n] = m
  BY DEF Within
<1> DEFINE g == [i \in 0 .. n + 1 |-> IF i <= n THEN f[i] ELSE to]
<1>2. /\ g \in [0 .. n + 1 -> Memories] /\ g[0] = root /\ g[n + 1] = to
      /\ \A i \in 0 .. n : g[i] = f[i]
  BY <1>1
<1> HIDE DEF g
<1>3. ASSUME NEW i \in 1 .. n + 1
      PROVE  g[i] = g[i - 1] \/ \E e \in G : e.from = g[i - 1] /\ e.to = g[i]
  <2>1. CASE i \in 1 .. n
    <3>1. i - 1 \in 0 .. n /\ i \in 0 .. n
      BY <2>1
    <3> QED BY <1>1, <1>2, <2>1, <3>1 DEF IsPath
  <2>2. CASE i = n + 1
    <3>1. g[i] = to /\ g[i - 1] = m
      BY <1>1, <1>2, <2>2
    <3> QED BY <3>1
  <2> QED BY <2>1, <2>2
<1>4. IsPath(G, g, n + 1)
  BY <1>3 DEF IsPath
<1> QED BY <1>2, <1>4 DEF Within

\* A path may stay where it is.
LEMMA WithinLonger ==
  ASSUME NEW G, NEW root, NEW n \in Nat, NEW k \in Nat, n <= k, NEW m \in Within(G, root, n)
  PROVE  m \in Within(G, root, k)
<1>1. PICK f \in [0 .. n -> Memories] : f[0] = root /\ IsPath(G, f, n) /\ f[n] = m
  BY DEF Within
<1> DEFINE g == [i \in 0 .. k |-> IF i <= n THEN f[i] ELSE m]
<1>2. /\ g \in [0 .. k -> Memories] /\ g[0] = root /\ g[k] = m
      /\ \A i \in 0 .. n : g[i] = f[i]
      /\ \A i \in n .. k : g[i] = m
  BY <1>1
<1> HIDE DEF g
<1>3. ASSUME NEW i \in 1 .. k
      PROVE  g[i] = g[i - 1] \/ \E e \in G : e.from = g[i - 1] /\ e.to = g[i]
  <2>1. CASE i <= n
    <3>1. i \in 1 .. n /\ i - 1 \in 0 .. n /\ i \in 0 .. n
      BY <2>1
    <3> QED BY <1>1, <1>2, <3>1 DEF IsPath
  <2>2. CASE ~(i <= n)
    <3>1. i \in n .. k /\ i - 1 \in n .. k
      BY <2>2
    <3> QED BY <1>2, <3>1
  <2> QED BY <2>1, <2>2
<1>4. IsPath(G, g, k)
  BY <1>3 DEF IsPath
<1> QED BY <1>2, <1>4 DEF Within

\* What can be reached can be reached with more edges too.
LEMMA WithinGrows ==
  ASSUME NEW G, NEW H, G \subseteq H, NEW root, NEW n
  PROVE  Within(G, root, n) \subseteq Within(H, root, n)
<1>1. ASSUME NEW f, IsPath(G, f, n) PROVE IsPath(H, f, n)
  BY <1>1 DEF IsPath
<1> QED BY <1>1 DEF Within

LessThan == {ss \in Nat \X Nat : ss[1] < ss[2]}

\* The order of the naturals, as a relation, is well founded.
LEMMA LessThanWellFounded == IsWellFoundedOn(LessThan, Nat)
  BY NatLessThanWellFounded DEF OpToRel, LessThan

\* A path stays within sets that are closed, each to the next, under the edges.
LEMMA PathsStay ==
  ASSUME NEW G, NEW n \in Nat, NEW f, IsPath(G, f, n), NEW S,
         f[0] \in S[0],
         \A k \in 0 .. n - 1 : /\ S[k] \subseteq S[k + 1]
                               /\ \A e \in G : e.from \in S[k] => e.to \in S[k + 1]
  PROVE  f[n] \in S[n]
<1> DEFINE Out == {k \in 0 .. n : f[k] \notin S[k]}
<1> SUFFICES ASSUME f[n] \notin S[n] PROVE FALSE
  OBVIOUS
<1>1. n \in Out /\ Out \subseteq Nat
  OBVIOUS
<1>2. PICK k \in Out : \A j \in Out : ~ (<<j, k>> \in LessThan)
  <2> HIDE DEF Out
  <2>1. Out # {}
    BY <1>1
  <2> QED BY <1>1, <2>1, WFMin, LessThanWellFounded
<1>3. k \in 1 .. n /\ k - 1 \in 0 .. n - 1 /\ (k - 1) + 1 = k
  OBVIOUS
<1>4. f[k - 1] \in S[k - 1]
  <2>1. <<k - 1, k>> \in LessThan
    BY <1>3 DEF LessThan
  <2> HIDE DEF Out
  <2>2. k - 1 \notin Out
    BY <1>2, <2>1
  <2> USE DEF Out
  <2> QED BY <1>3, <2>2
<1>5. f[k] = f[k - 1] \/ \E e \in G : e.from = f[k - 1] /\ e.to = f[k]
  BY <1>3 DEF IsPath
<1>6. f[k] \in S[k]
  BY <1>3, <1>4, <1>5
<1> QED BY <1>6

(***************************************************************************)
(* The walk.  What it found is an answer between two: the edges that could *)
(* be walked when it began, each of which still can be, and those there    *)
(* are now.                                                                *)
(***************************************************************************)

\* visited is what was found, and what was found last is the next frontier.
Reached(w) ==
    /\ w.visited = {w.root} \cup {h.memory : h \in w.hops}
    /\ \A h \in w.hops : h.depth <= IF w.pc = "nodes" THEN w.depth ELSE w.depth - 1
    /\ w.visited \subseteq Found(w, w.depth - 1) \cup w.next
    /\ w.depth = 1 => w.frontier = {w.root}
    /\ w.depth > 1 => Found(w, w.depth - 1) \subseteq Found(w, w.depth - 2) \cup w.frontier

\* At level k + 1 all edges were followed that lead away from level k.
Expanded(w, k) == \A e \in w.began : e.from \in Found(w, k) => e.to \in Found(w, k + 1)

\* So it is at every level that was left, and at the one the walk is at but
\* for the edges it still has to do.
Expands(w) ==
    /\ \A k \in 0 .. Depth : k + 1 < w.depth => Expanded(w, k)
    /\ w.pc = "nodes" =>
           \A e \in w.began : e.from \in w.frontier => e \in w.todo \/ e.to \in Found(w, w.depth)
    /\ w.pc = "done" => w.frontier = {} \/ w.depth > Depth

\* What was found can be reached.
Reachable(w) ==
    /\ w.frontier \subseteq Within(edges, w.root, w.depth - 1)
    /\ w.next \subseteq Within(edges, w.root, w.depth)
    /\ \A h \in w.hops : h.memory \in Within(edges, w.root, h.depth)
    /\ w.pc = "nodes" => \A e \in w.todo : e.from \in w.frontier

WalkInv ==
    walk # NoWalk =>
        walk.began \subseteq Traceable /\ Reached(walk) /\ Expands(walk) /\ Reachable(walk)

\* No step hides an edge whose memories are both there.
LEMMA NothingElseHidden ==
  ASSUME [GraphNext]_graph, NEW e \in edges, ~Hidden(e), Hidden(e)'
  PROVE  {e.from, e.to} \ Nodes # {}
<1>1. UNCHANGED edgeSuspensions \/ RunActiveRepair
  BY DEF GraphNext, graph, Store, Supersede, StoreTx, Verify, Merge, Abandon, TraceDecision,
         LoadTraceEdges, TraceHop, TraceLevel, TraceReturns, Becomes, suspensions
<1>2. RunActiveRepair
  BY <1>1 DEF Hidden
<1>3. e \in OrphanEdges
  <2>1. edgeSuspensions' = Suspended(edgeSuspensions, OrphanEdges)
    BY <1>2 DEF RunActiveRepair
  <2>2. e \in DOMAIN edgeSuspensions' /\ edgeSuspensions'[e] = "open"
    BY DEF Hidden
  <2>3. e \notin OrphanEdges => edgeSuspensions'[e] = "resolved"
    BY <2>1, <2>2 DEF Suspended, ResolveClearedSuspensions
  <2> QED BY <2>2, <2>3
<1> QED BY <1>3 DEF OrphanEdges

\* Rows are never removed.
LEMMA GraphGrows ==
  ASSUME [GraphNext]_graph
  PROVE  Nodes \subseteq Nodes' /\ edges \subseteq edges'
<1>1. claimed \subseteq claimed' /\ superseded \subseteq superseded' /\ edges \subseteq edges'
  BY DEF GraphNext, graph, Store, Supersede, StoreTx, Verify, Merge, Abandon, RunActiveRepair,
         TraceDecision, LoadTraceEdges, TraceHop, TraceLevel, TraceReturns, Becomes, data
<1> QED BY <1>1 DEF Nodes

\* What can be walked once always can be.
LEMMA TraceableGrows ==
  ASSUME [GraphNext]_graph
  PROVE  Traceable \subseteq Traceable'
  BY GraphGrows, NothingElseHidden DEF Traceable

\* Whatever is written, repaired or begun, a walk that stands still stays right.
LEMMA WalkWaits ==
  ASSUME WalkInv, walk' = walk, Traceable \subseteq Traceable', edges \subseteq edges'
  PROVE  WalkInv'
<1> SUFFICES ASSUME walk # NoWalk
             PROVE  /\ walk.began \subseteq Traceable' /\ Reached(walk) /\ Expands(walk)
                    /\ Reachable(walk)'
  BY DEF WalkInv, Reached, Expands, Expanded, Found
<1>1. \A n : Within(edges, walk.root, n) \subseteq Within(edges', walk.root, n)
  BY WithinGrows
<1>2. Reachable(walk)'
  <2>1. Reachable(walk)
    BY DEF WalkInv
  <2> QED BY <1>1, <2>1 DEF Reachable
<1> QED BY <1>2 DEF WalkInv

\* What a walk found depends on its hops alone, and grows with the distance.
LEMMA FoundGrows ==
  ASSUME NEW w, NEW n \in Int, NEW k \in Int, n <= k, \A h \in w.hops : h.depth \in Int
  PROVE  w.root \in Found(w, n) /\ Found(w, n) \subseteq Found(w, k)
  BY DEF Found

\* A walk begins with its root.
LEMMA WalkBegins ==
  ASSUME GraphInv, NEW root \in Memories, TraceDecision(root)
  PROVE  WalkInv'
<1> DEFINE w == [pc |-> "edges", root |-> root, depth |-> 1,
                 frontier |-> {root}, next |-> {}, todo |-> {}, visited |-> {root},
                 hops |-> {}, began |-> Traceable]
<1>1. /\ walk' = w /\ UNCHANGED <<claimed, superseded, edges, edgeSuspensions>>
  BY DEF TraceDecision, Becomes, data, suspensions
<1>2. w.began \subseteq Traceable'
  BY <1>1 DEF Traceable, Nodes, Hidden
<1>3. Found(w, 0) = {root}
  BY DEF Found
<1>4. Reached(w)
  BY <1>3 DEF Reached
<1>5. Expands(w)
  BY DEF Expands
<1>6. Reachable(w)
  BY WithinZero DEF Reachable
<1> HIDE DEF w
<1>7. Reached(walk)' /\ Expands(walk)' /\ Reachable(walk)'
  BY <1>1, <1>4, <1>5, <1>6 DEF Reached, Expands, Expanded, Found, Reachable, Within, IsPath
<1>8. walk'.began \subseteq Traceable'
  BY <1>1, <1>2
<1> QED BY <1>7, <1>8 DEF WalkInv

\* The other steps of a walk change nothing but the walk, and keep what was
\* traceable when it began.
LEMMA WalkGoesOn ==
  ASSUME WalkInv, walk # NoWalk, NEW w, Becomes(w), w.began = walk.began,
         Reached(w), Expands(w), Reachable(w)
  PROVE  WalkInv'
<1>1. walk' = w /\ UNCHANGED <<claimed, superseded, edges, edgeSuspensions>>
  BY DEF Becomes, data, suspensions
<1>2. Traceable' = Traceable
  BY <1>1 DEF Traceable, Nodes, Hidden
<1>3. Reached(walk)' /\ Expands(walk)' /\ Reachable(walk)'
  BY <1>1 DEF Reached, Expands, Expanded, Found, Reachable, Within, IsPath
<1> QED BY <1>1, <1>2, <1>3 DEF WalkInv

\* The fields of a walk.
LEMMA WalkFields ==
  ASSUME GraphInv, WalkInv, walk.pc \in {"edges", "nodes", "done"}
  PROVE  /\ walk # NoWalk /\ IsWalk(walk)
         /\ walk = [pc |-> walk.pc, root |-> walk.root, depth |-> walk.depth,
                    frontier |-> walk.frontier, next |-> walk.next, todo |-> walk.todo,
                    visited |-> walk.visited, hops |-> walk.hops, began |-> walk.began]
         /\ walk.began \subseteq Traceable /\ Reached(walk) /\ Expands(walk) /\ Reachable(walk)
         /\ walk.depth \in Nat \ {0}
         /\ \A h \in walk.hops : h.depth \in Nat \ {0}
         /\ walk.root \in Memories /\ Depth \in Nat
<1>1. walk # NoWalk
  BY DEF NoWalk
<1>2. IsWalk(walk)
  BY <1>1 DEF GraphInv, GraphTypeOK
<1>3. walk.root \in Memories
  BY <1>2 DEF IsWalk, GraphInv, GraphTypeOK, Nodes
<1> QED BY <1>1, <1>2, <1>3, ConstantsAssumption DEF IsWalk, WalkInv, GraphInv, WalkShape

\* The edges of the frontier are to be followed, or the walk is over.
LEMMA WalkLoadsEdges ==
  ASSUME GraphInv, WalkInv, LoadTraceEdges
  PROVE  WalkInv'
<1>1. walk.pc = "edges"
  BY DEF LoadTraceEdges
<1> DEFINE todo == {e \in edges : e.from \in walk.frontier /\ ~Hidden(e)}
           u == [pc |-> "nodes", root |-> walk.root, depth |-> walk.depth,
                 frontier |-> walk.frontier, next |-> walk.next, todo |-> todo,
                 visited |-> walk.visited, hops |-> walk.hops, began |-> walk.began]
           v == [pc |-> "done", root |-> walk.root, depth |-> walk.depth,
                 frontier |-> walk.frontier, next |-> walk.next, todo |-> walk.todo,
                 visited |-> walk.visited, hops |-> walk.hops, began |-> walk.began]
<1>2. CASE walk.depth <= Depth /\ walk.frontier # {}
  <2>1. PICK x : Becomes(x) /\ x = [walk EXCEPT !.pc = "nodes", !.todo = todo]
    BY <1>2 DEF LoadTraceEdges
  <2>2. x = u
    BY <1>1, <2>1, WalkFields, FrontierEdges
  <2>3. Reached(u)
    <3>1. \A n : Found(u, n) = Found(walk, n)
      BY DEF Found
    <3>2. \A h \in u.hops : h.depth <= u.depth
      BY <1>1, WalkFields DEF Reached
    <3> QED BY <1>1, <3>1, <3>2, WalkFields DEF Reached
  <2>4. Expands(u)
    <3>1. \A n : Found(u, n) = Found(walk, n)
      BY DEF Found
    <3>2. \A e \in u.began : e.from \in u.frontier => e \in u.todo
      BY <1>1, WalkFields DEF Traceable
    <3> QED BY <1>1, <3>1, <3>2, WalkFields DEF Expands, Expanded
  <2>5. Reachable(u)
    BY <1>1, WalkFields DEF Reachable
  <2> QED BY <1>1, <2>1, <2>2, <2>3, <2>4, <2>5, WalkFields, WalkGoesOn
<1>3. CASE ~(walk.depth <= Depth /\ walk.frontier # {})
  <2>1. Becomes(v)
    BY <1>1, <1>3, WalkFields DEF LoadTraceEdges
  <2>2. Reached(v)
    <3>1. \A n : Found(v, n) = Found(walk, n)
      BY DEF Found
    <3> QED BY <1>1, <3>1, WalkFields DEF Reached
  <2>3. Expands(v)
    <3>1. \A n : Found(v, n) = Found(walk, n)
      BY DEF Found
    <3>2. v.frontier = {} \/ v.depth > Depth
      BY <1>1, <1>3, WalkFields
    <3> QED BY <1>1, <3>1, <3>2, WalkFields DEF Expands, Expanded
  <2>4. Reachable(v)
    BY <1>1, WalkFields DEF Reachable
  <2> QED BY <1>1, <2>1, <2>2, <2>3, <2>4, WalkFields, WalkGoesOn
<1> QED BY <1>2, <1>3

\* One hop more.
LEMMA FoundHop ==
  ASSUME NEW w, NEW v, NEW hop, v.root = w.root, v.hops = w.hops \cup {hop}, NEW n
  PROVE  /\ hop.depth <= n => Found(v, n) = Found(w, n) \cup {hop.memory}
         /\ ~ (hop.depth <= n) => Found(v, n) = Found(w, n)
  BY DEF Found

\* A hop: the memory that is found is new, or was found before.
LEMMA WalkHops ==
  ASSUME GraphInv, WalkInv, TraceHop
  PROVE  WalkInv'
<1>1. walk.pc = "nodes"
  BY DEF TraceHop
<1>2. PICK e \in walk.todo : Becomes(LoadTraceNode(e))
  BY DEF TraceHop
<1>3. /\ e.from \in walk.frontier /\ e \in edges /\ walk.depth \in Nat \ {0}
      /\ e.from \in Memories /\ e.to \in Memories
  BY <1>1, WalkFields DEF Reachable, IsWalk, GraphInv, GraphTypeOK, Edges
<1>4. CASE e.to \notin Nodes
  <2> DEFINE w == [pc |-> walk.pc, root |-> walk.root, depth |-> walk.depth,
                   frontier |-> walk.frontier, next |-> walk.next, todo |-> walk.todo \ {e},
                   visited |-> walk.visited, hops |-> walk.hops, began |-> walk.began]
  <2>1. Becomes(w)
    BY <1>1, <1>2, <1>4, WalkFields DEF LoadTraceNode
  <2>2. /\ w.pc = "nodes" /\ w.root = walk.root /\ w.depth = walk.depth
        /\ w.frontier = walk.frontier /\ w.next = walk.next /\ w.todo = walk.todo \ {e}
        /\ w.visited = walk.visited /\ w.hops = walk.hops /\ w.began = walk.began
    BY <1>1
  <2> HIDE DEF w
  <2>3. \A n : Found(w, n) = Found(walk, n)
    BY <2>2 DEF Found
  <2>4. Reached(w)
    BY <1>1, <2>2, <2>3, WalkFields DEF Reached
  <2>5. Expands(w)
    <3>1. e \notin w.began
      BY <1>1, <1>4, <2>2, WalkFields DEF Traceable
    <3> QED BY <1>1, <2>2, <2>3, <3>1, WalkFields DEF Expands, Expanded
  <2>6. Reachable(w)
    BY <1>1, <2>2, WalkFields DEF Reachable
  <2> QED BY <1>1, <2>1, <2>2, <2>4, <2>5, <2>6, WalkFields, WalkGoesOn
<1>5. CASE e.to \in Nodes
  <2> DEFINE hop == [memory |-> e.to, type |-> e.type, depth |-> walk.depth]
             w == [pc |-> walk.pc, root |-> walk.root, depth |-> walk.depth,
                   frontier |-> walk.frontier,
                   next |-> IF e.to \in walk.visited THEN walk.next ELSE walk.next \cup {e.to},
                   todo |-> walk.todo \ {e},
                   visited |-> walk.visited \cup {e.to},
                   hops |-> walk.hops \cup {hop}, began |-> walk.began]
  <2>1. Becomes(w)
    BY <1>1, <1>2, <1>5, WalkFields DEF LoadTraceNode
  <2>2. /\ w.pc = "nodes" /\ w.root = walk.root /\ w.depth = walk.depth
        /\ w.frontier = walk.frontier
        /\ w.next = IF e.to \in walk.visited THEN walk.next ELSE walk.next \cup {e.to}
        /\ w.todo = walk.todo \ {e} /\ w.visited = walk.visited \cup {e.to}
        /\ w.hops = walk.hops \cup {hop} /\ w.began = walk.began
    BY <1>1
  <2>3. hop.memory = e.to /\ hop.depth = walk.depth
    OBVIOUS
  <2> HIDE DEF w, hop
  <2>4. /\ \A n \in Int : n < walk.depth => Found(w, n) = Found(walk, n)
        /\ \A n \in Int : Found(walk, n) \subseteq Found(w, n)
        /\ e.to \in Found(w, walk.depth)
    <3>1. ASSUME NEW n \in Int
          PROVE  /\ n < walk.depth => Found(w, n) = Found(walk, n)
                 /\ ~ (n < walk.depth) => Found(w, n) = Found(walk, n) \cup {e.to}
      <4>1. n < walk.depth <=> ~ (walk.depth <= n)
        BY <1>3
      <4> QED BY <2>2, <2>3, <4>1, FoundHop
    <3> QED BY <1>3, <3>1
  <2>5. Reached(w)
    <3>1. w.visited = {w.root} \cup {h.memory : h \in w.hops}
      <4>1. walk.visited = {walk.root} \cup {h.memory : h \in walk.hops}
        BY <1>1, WalkFields DEF Reached
      <4> QED BY <2>2, <2>3, <4>1
    <3>2. \A h \in w.hops : h.depth <= w.depth
      <4>1. \A h \in walk.hops : h.depth <= walk.depth
        BY <1>1, WalkFields DEF Reached
      <4> QED BY <1>3, <2>2, <2>3, <4>1
    <3>3. /\ Found(w, w.depth - 1) = Found(walk, walk.depth - 1)
          /\ Found(w, w.depth - 2) = Found(walk, walk.depth - 2)
      BY <1>3, <2>2, <2>4
    <3>4. w.visited \subseteq Found(w, w.depth - 1) \cup w.next
      <4>1. walk.visited \subseteq Found(walk, walk.depth - 1) \cup walk.next
        BY <1>1, WalkFields DEF Reached
      <4> QED BY <2>2, <3>3, <4>1
    <3>5. /\ w.depth = 1 => w.frontier = {w.root}
          /\ w.depth > 1 => Found(w, w.depth - 1) \subseteq Found(w, w.depth - 2) \cup w.frontier
      BY <1>1, <2>2, <3>3, WalkFields DEF Reached
    <3> QED BY <2>2, <3>1, <3>2, <3>4, <3>5 DEF Reached
  <2>6. Expands(w)
    <3>1. ASSUME NEW k \in 0 .. Depth, k + 1 < w.depth PROVE Expanded(w, k)
      <4>1. Expanded(walk, k)
        BY <1>1, <2>2, <3>1, WalkFields DEF Expands
      <4>2. k \in Int /\ k + 1 \in Int /\ k < walk.depth /\ k + 1 < walk.depth
        BY <1>1, <1>3, <2>2, <3>1, WalkFields
      <4>3. Found(w, k) = Found(walk, k) /\ Found(w, k + 1) = Found(walk, k + 1)
        BY <2>4, <4>2
      <4> QED BY <2>2, <4>1, <4>3 DEF Expanded
    <3>2. ASSUME NEW x \in w.began, x.from \in w.frontier
          PROVE  x \in w.todo \/ x.to \in Found(w, w.depth)
      <4>1. x \in walk.todo \/ x.to \in Found(walk, walk.depth)
        BY <1>1, <2>2, <3>2, WalkFields DEF Expands
      <4>2. walk.depth \in Int
        BY <1>3
      <4> QED BY <2>2, <2>4, <4>1, <4>2
    <3> QED BY <2>2, <3>1, <3>2 DEF Expands
  <2>7. Reachable(w)
    <3>1. /\ walk.frontier \subseteq Within(edges, walk.root, walk.depth - 1)
          /\ walk.next \subseteq Within(edges, walk.root, walk.depth)
          /\ \A h \in walk.hops : h.memory \in Within(edges, walk.root, h.depth)
          /\ \A x \in walk.todo : x.from \in walk.frontier
      BY <1>1, WalkFields DEF Reachable
    <3>2. e.to \in Within(edges, walk.root, walk.depth)
      <4>1. /\ walk.depth - 1 \in Nat /\ (walk.depth - 1) + 1 = walk.depth
            /\ e.from \in Within(edges, walk.root, walk.depth - 1)
        BY <1>3, <3>1
      <4>2. e.to \in Within(edges, walk.root, (walk.depth - 1) + 1)
        BY <1>3, <4>1, WithinStep
      <4> QED BY <4>1, <4>2
    <3> QED BY <2>2, <2>3, <3>1, <3>2 DEF Reachable
  <2> QED BY <1>1, <2>1, <2>2, <2>5, <2>6, <2>7, WalkFields, WalkGoesOn
<1> QED BY <1>4, <1>5

\* A level is done when each of its edges was followed.
LEMMA WalkDescends ==
  ASSUME GraphInv, WalkInv, TraceLevel
  PROVE  WalkInv'
<1>1. walk.pc = "nodes" /\ walk.todo = {}
  BY DEF TraceLevel
<1> DEFINE d == walk.depth + 1
           w == [pc |-> "edges", root |-> walk.root, depth |-> d,
                 frontier |-> walk.next, next |-> {}, todo |-> walk.todo,
                 visited |-> walk.visited, hops |-> walk.hops, began |-> walk.began]
<1>2. Becomes(w)
  <2>1. PICK v : /\ Becomes(v)
                 /\ v = [walk EXCEPT !.pc = "edges", !.depth = d,
                                     !.frontier = walk.next, !.next = {}]
    BY DEF TraceLevel
  <2>2. v = w
    BY <1>1, <2>1, WalkFields, NextLevel
  <2> QED BY <2>1, <2>2
<1>3. walk.depth \in Nat \ {0} /\ d - 1 = walk.depth /\ d - 2 = walk.depth - 1 /\ d > 1
  BY <1>1, WalkFields
<1>4. /\ w.pc = "edges" /\ w.root = walk.root /\ w.depth = d
       /\ w.frontier = walk.next /\ w.next = {} /\ w.todo = walk.todo
       /\ w.visited = walk.visited /\ w.hops = walk.hops /\ w.began = walk.began
  OBVIOUS
<1> HIDE DEF w, d
<1>5. \A n : Found(w, n) = Found(walk, n)
  BY <1>4 DEF Found
<1>6. walk.visited \subseteq Found(walk, walk.depth)
  BY <1>1, WalkFields DEF Reached, Found
<1>7. \A n : Found(walk, n) \subseteq walk.visited
  BY <1>1, WalkFields DEF Reached, Found
<1>8. Reached(w)
  <2>1. w.visited = {w.root} \cup {h.memory : h \in w.hops} /\ \A h \in w.hops : h.depth <= d - 1
    BY <1>1, <1>3, <1>4, WalkFields DEF Reached
  <2>2. Found(walk, walk.depth) \subseteq Found(walk, walk.depth - 1) \cup walk.next
    BY <1>1, <1>7, WalkFields DEF Reached
  <2>3. w.visited \subseteq Found(w, d - 1) /\ Found(w, d - 1) \subseteq Found(w, d - 2) \cup w.frontier
    BY <1>3, <1>5, <1>6, <1>4, <2>2
  <2> QED BY <1>3, <1>4, <2>1, <2>3 DEF Reached
<1>9. Expands(w)
  <2>1. ASSUME NEW k \in 0 .. Depth, k + 1 < d PROVE Expanded(walk, k)
    <3>1. k \in Nat /\ (k + 1 < walk.depth \/ k + 1 = walk.depth) /\ Depth \in Nat
      BY <1>1, <1>3, <2>1, WalkFields DEF d
    <3>2. CASE k + 1 < walk.depth
      BY <1>1, <3>2, WalkFields DEF Expands
    <3>3. CASE k + 1 = walk.depth
      <4> SUFFICES ASSUME NEW e \in walk.began, e.from \in Found(walk, k)
                   PROVE  e.to \in Found(walk, k + 1)
        BY DEF Expanded
      <4>1. CASE e.from \in walk.frontier
        BY <1>1, <3>3, <4>1, WalkFields DEF Expands
      <4>2. CASE e.from \notin walk.frontier
        <5>1. walk.depth # 1
          <6>1. walk.depth = 1 => walk.frontier = {walk.root} /\ k = 0
            BY <1>1, <3>3, WalkFields DEF Reached
          <6>2. Found(walk, 0) = {walk.root}
            BY <1>1, WalkFields DEF Found
          <6> QED BY <4>2, <6>1, <6>2
        <5>2. e.from \in Found(walk, walk.depth - 2)
          <6>1. Found(walk, walk.depth - 1) \subseteq Found(walk, walk.depth - 2) \cup walk.frontier
            BY <1>1, <1>3, <5>1, WalkFields DEF Reached
          <6>2. k = walk.depth - 1
            BY <1>3, <3>3, <3>1
          <6> QED BY <4>2, <6>1, <6>2
        <5>3. k - 1 \in 0 .. Depth /\ (k - 1) + 1 < walk.depth /\ k - 1 = walk.depth - 2
          BY <1>3, <3>3, <3>1, <5>1
        <5>4. Expanded(walk, k - 1)
          BY <1>1, <5>3, WalkFields DEF Expands
        <5>5. e.to \in Found(walk, k)
          BY <5>2, <5>3, <5>4 DEF Expanded
        <5>6. \A h \in walk.hops : h.depth \in Int
          BY <1>1, WalkFields
        <5>7. k \in Int /\ k + 1 \in Int /\ k <= k + 1
          BY <3>1
        <5> QED BY <5>5, <5>6, <5>7, FoundGrows
      <4> QED BY <4>1, <4>2
    <3> QED BY <3>2, <3>3, <3>1
  <2> QED BY <1>5, <1>4, <2>1 DEF Expands, Expanded
<1>10. Reachable(w)
  BY <1>1, <1>3, <1>4, WalkFields DEF Reachable
<1> QED BY <1>1, <1>2, <1>8, <1>9, <1>10, <1>4, WalkFields, WalkGoesOn

\* Every step keeps what a walk has found and still has to find.
LEMMA WalkInvStep == GraphInv /\ WalkInv /\ [GraphNext]_graph => WalkInv'
<1> SUFFICES ASSUME GraphInv, WalkInv, [GraphNext]_graph PROVE WalkInv'
  OBVIOUS
<1>1. CASE walk' = walk
  BY <1>1, GraphGrows, TraceableGrows, WalkWaits
<1>2. CASE TraceReturns
  BY <1>2 DEF TraceReturns, Becomes, WalkInv
<1>3. ASSUME NEW root \in Memories, TraceDecision(root) PROVE WalkInv'
  BY <1>3, WalkBegins
<1>4. CASE LoadTraceEdges \/ TraceHop \/ TraceLevel
  BY <1>4, WalkLoadsEdges, WalkHops, WalkDescends
<1>5. \/ walk' = walk \/ TraceReturns \/ (\E root \in Memories : TraceDecision(root))
      \/ LoadTraceEdges \/ TraceHop \/ TraceLevel
  BY DEF GraphNext, graph, Store, Supersede, StoreTx, Verify, Merge, Abandon, RunActiveRepair
<1> QED BY <1>1, <1>2, <1>3, <1>4, <1>5

\* When it is done, the walk has found what it was asked for.
LEMMA WalkAnswers == GraphInv /\ WalkInv => TraceFaithful
<1> SUFFICES ASSUME GraphInv, WalkInv, walk.pc = "done", NEW n \in 0 .. Depth
             PROVE  /\ Within(walk.began, walk.root, n) \subseteq Found(walk, n)
                    /\ Found(walk, n) \subseteq Within(edges, walk.root, n) \cap Nodes
  BY DEF TraceFaithful
<1>1. /\ IsWalk(walk) /\ Reached(walk) /\ Expands(walk) /\ Reachable(walk)
      /\ walk.depth \in Nat \ {0} /\ \A h \in walk.hops : h.depth \in Nat \ {0}
      /\ walk.root \in Memories /\ Depth \in Nat
  BY WalkFields
<1>2. \A j, k \in Int : j <= k => Found(walk, j) \subseteq Found(walk, k)
  BY <1>1, FoundGrows
<1>3. ASSUME NEW k \in 0 .. Depth - 1 PROVE Expanded(walk, k)
  <2>1. CASE k + 1 < walk.depth
    BY <1>1, <2>1 DEF Expands
  <2>2. CASE ~(k + 1 < walk.depth)
    <3> SUFFICES ASSUME NEW e \in walk.began, e.from \in Found(walk, k)
                 PROVE  e.to \in Found(walk, k + 1)
      BY DEF Expanded
    <3>1. walk.frontier = {}
      BY <1>1, <2>2 DEF Expands
    <3>2. walk.depth > 1
      BY <1>1, <3>1 DEF Reached
    <3>3. Found(walk, walk.depth - 1) \subseteq Found(walk, walk.depth - 2)
      BY <1>1, <3>1, <3>2 DEF Reached
    <3>4. Found(walk, k) \subseteq Found(walk, walk.depth - 1)
      BY <1>1 DEF Reached, Found
    <3>5. walk.depth - 2 \in 0 .. Depth /\ (walk.depth - 2) + 1 < walk.depth
          /\ (walk.depth - 2) + 1 = walk.depth - 1
      BY <1>1, <2>2, <3>2
    <3>6. Expanded(walk, walk.depth - 2)
      BY <1>1, <3>5 DEF Expands
    <3>7. e.to \in Found(walk, walk.depth - 1)
      BY <3>3, <3>4, <3>5, <3>6 DEF Expanded
    <3>8. walk.depth - 1 <= k + 1 /\ walk.depth - 1 \in Int /\ k + 1 \in Int
      BY <1>1, <2>2
    <3> QED BY <1>2, <3>7, <3>8
  <2> QED BY <2>1, <2>2
<1>4. Within(walk.began, walk.root, n) \subseteq Found(walk, n)
  <2> SUFFICES ASSUME NEW f, f[0] = walk.root, IsPath(walk.began, f, n)
               PROVE  f[n] \in Found(walk, n)
    BY DEF Within
  <2> DEFINE S == [k \in 0 .. n |-> Found(walk, k)]
  <2>1. f[0] \in S[0]
    BY DEF Found
  <2>2. ASSUME NEW k \in 0 .. n - 1
        PROVE  /\ S[k] \subseteq S[k + 1]
               /\ \A e \in walk.began : e.from \in S[k] => e.to \in S[k + 1]
    <3>1. k \in 0 .. n /\ k + 1 \in 0 .. n /\ k \in 0 .. Depth - 1 /\ k <= k + 1
          /\ k \in Int /\ k + 1 \in Int
      BY <1>1
    <3>2. S[k] = Found(walk, k) /\ S[k + 1] = Found(walk, k + 1)
      BY <3>1
    <3> QED BY <1>2, <1>3, <3>1, <3>2 DEF Expanded
  <2> HIDE DEF S
  <2>3. f[n] \in S[n]
    <3>1. n \in Nat
      BY <1>1
    <3> QED BY <2>1, <2>2, <3>1, PathsStay
  <2> QED BY <2>3 DEF S
<1>5. Found(walk, n) \subseteq Within(edges, walk.root, n)
  <2> SUFFICES ASSUME NEW m \in Found(walk, n) PROVE m \in Within(edges, walk.root, n)
    OBVIOUS
  <2>1. CASE m = walk.root
    BY <1>1, <2>1, WithinZero, WithinLonger
  <2>2. ASSUME NEW h \in walk.hops, h.depth <= n, m = h.memory
        PROVE  m \in Within(edges, walk.root, n)
    <3>1. m \in Within(edges, walk.root, h.depth) /\ h.depth \in Nat
      BY <1>1, <2>2 DEF Reachable
    <3> QED BY <2>2, <3>1, WithinLonger
  <2> QED BY <2>1, <2>2 DEF Found
<1>6. Found(walk, n) \subseteq Nodes
  BY <1>1 DEF Found, Reached, IsWalk
<1> QED BY <1>4, <1>5, <1>6

(***************************************************************************)
(* The theorems.                                                           *)
(***************************************************************************)

\* The tables stay well formed, and TraceDecision visits only memories that are
\* there and no deeper than it was asked to, whatever is written meanwhile.
THEOREM GraphTypes == GraphSpec => []GraphTypeOK
<1>1. GraphInv => GraphTypeOK
  BY DEF GraphInv
<1> QED BY <1>1, GraphAlways, PTL

\* A memory that is called valid has its signature, also when its row changed
\* between the verification of a batch and its transaction.
THEOREM ValidAlwaysSigned == GraphSpec => []ValidIsSigned
<1>1. GraphInv => ValidIsSigned
  BY DEF GraphInv
<1> QED BY <1>1, GraphAlways, PTL

\* No step hides an edge whose memories are both there.
THEOREM OnlyOrphansAreHidden == GraphSpec => OnlyOrphansHidden
<1>1. [GraphNext]_graph =>
          [\A e \in edges : ~Hidden(e) /\ Hidden(e)' => {e.from, e.to} \ Nodes # {}]_graph
  BY NothingElseHidden
<1> QED BY <1>1, PTL DEF GraphSpec, OnlyOrphansHidden

\* TraceDecision answers with what could be reached when it began and can be
\* reached when it returns, at each distance up to the one it was asked for,
\* although it reads the tables row by row while they are written.
THEOREM TraceAlwaysFaithful == GraphSpec => []TraceFaithful
<1>1. GraphInit => WalkInv
  BY DEF GraphInit, WalkInv
<1>2. GraphInv /\ WalkInv /\ [GraphNext]_graph => WalkInv'
  BY WalkInvStep
<1> QED BY <1>1, <1>2, GraphAlways, WalkAnswers, PTL DEF GraphSpec
=============================================================================
