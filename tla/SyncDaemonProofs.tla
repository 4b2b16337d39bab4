-------------------------- MODULE SyncDaemonProofs --------------------------
(***************************************************************************)
(* When an upgrade restarts syncd together with the rest of the node, no   *)
(* batch crosses a schema boundary (SyncDaemon!DriftContained), for any    *)
(* registry, any number of upgrades and any loss of requests.              *)
(***************************************************************************)
EXTENDS SyncDaemon, TLAPS

\* The label of a batch is the schema its rows were written under.
Labelled(b) == b.schema = b.rows

Functions ==
    /\ schema \in [Peers -> Nat \ {0}]
    /\ meta \in [Peers -> Nat]
    /\ DOMAIN round = Peers
    /\ DOMAIN drifted = Peers

\* A daemon that runs knows the schema of its database.
MetaCurrent == \A p \in Peers : Up(p) => meta[p] = schema[p]

\* A round visits peers, and only a daemon that runs is in one.
Visits(r) == r = Waiting \/ r.peers \in Seq(Peers) \ {<<>>}

RoundsRun == \A p \in Peers : Visits(round[p]) /\ (round[p] # Waiting => Up(p))

RepliesLabelled == \A p \in Peers : round[p].pc = "reply" => Labelled(round[p].batch)

LateLabelled == \A l \in late : l.to \in Peers /\ (l.req.kind = "apply" => Labelled(l.req))

\* The inductive invariant.  DriftContained alone is not inductive: it needs
\* that labels tell the truth, and labels that daemons are current.
Inv == /\ Functions
       /\ MetaCurrent
       /\ RoundsRun
       /\ RepliesLabelled
       /\ LateLabelled
       /\ DriftContained

\* The initial state satisfies the invariant: nothing runs, nothing is merged.
LEMMA InitInv == Init => Inv
  BY DEF Init, Inv, Functions, MetaCurrent, RoundsRun, RepliesLabelled, LateLabelled,
         DriftContained, Up, Waiting, Visits

\* A batch that an upright daemon makes is labelled, because its Metadata is
\* that of its database.
LEMMA ExtractLabelled ==
  ASSUME NEW p, NEW n, meta[p] = schema[p]
  PROVE  Labelled(ExtractBatch(p, n))
  BY DEF Labelled, ExtractBatch

\* Merging a labelled batch into a database whose daemon is current keeps the
\* invariant's part about the drift (the comparison in ApplyBatch).
LEMMA AcceptContained ==
  ASSUME Inv, NEW p \in Peers, NEW b, meta[p] = schema[p], Labelled(b), AcceptBatch(p, b)
  PROVE  DriftContained' /\ DOMAIN drifted' = Peers
<1>1. b.rows = schema[p]
  BY DEF AcceptBatch, Incompatible, Labelled
<1>2. drifted' = [drifted EXCEPT ![p] = drifted[p] \cup ({b.rows} \ {schema[p]})]
  BY DEF AcceptBatch
<1>3. DOMAIN drifted = Peers
  BY DEF Inv, Functions
<1> QED
  BY <1>1, <1>2, <1>3 DEF Inv, DriftContained

\* A server that refuses changes neither schemas nor drift.
LEMMA RejectContained ==
  ASSUME Inv, NEW p, NEW b, RejectBatch(p, b)
  PROVE  DriftContained' /\ DOMAIN drifted' = Peers /\ UNCHANGED <<schema, meta>>
  BY DEF Inv, Functions, DriftContained, RejectBatch

\* The state changes of a node's own life: what remains of Inv when nothing is
\* merged, no request is added and a round can only end.
LEMMA NodeStep ==
  ASSUME Inv, NEW p \in Peers, ~Staged, Upgrade(p) \/ StartSyncd(p) \/ StopSyncd(p)
  PROVE  Inv'
<1> USE DEF Inv, Functions, MetaCurrent, RoundsRun, Visits, RepliesLabelled, LateLabelled, DriftContained
<1>1. CASE Upgrade(p)
  <2>1. schema' = [schema EXCEPT ![p] = schema[p] + 1] /\ meta' = [meta EXCEPT ![p] = 0]
        /\ round' = [round EXCEPT ![p] = Waiting] /\ UNCHANGED <<late, drifted>>
    BY <1>1 DEF Upgrade, Become
  <2>2. round'[p].pc # "reply" /\ round'[p] = Waiting /\ ~Up(p)'
    BY <2>1 DEF Waiting, Up
  <2> QED
    BY <2>1, <2>2 DEF Up
<1>2. CASE StartSyncd(p)
  <2>1. meta' = [meta EXCEPT ![p] = schema[p]] /\ UNCHANGED <<schema, round, late, drifted>>
    BY <1>2 DEF StartSyncd
  <2> QED
    BY <2>1 DEF Up
<1>3. CASE StopSyncd(p)
  <2>1. meta' = [meta EXCEPT ![p] = 0] /\ round' = [round EXCEPT ![p] = Waiting]
        /\ UNCHANGED <<schema, late, drifted>>
    BY <1>3 DEF StopSyncd, Become
  <2>2. round'[p].pc # "reply" /\ round'[p] = Waiting
    BY <2>1 DEF Waiting
  <2> QED
    BY <2>1, <2>2 DEF Up
<1> QED
  BY <1>1, <1>2, <1>3

\* A step that leaves the nodes alone keeps Inv when the round it sets is that
\* of a daemon that runs, a batch it holds is labelled, and so is a request it
\* leaves behind.
LEMMA RoundStep ==
  ASSUME Inv, NEW p \in Peers, NEW r, Become(p, r), Visits(r), Up(p), UNCHANGED <<schema, meta>>,
         r.pc = "reply" => Labelled(r.batch),
         LateLabelled', DriftContained', DOMAIN drifted' = Peers
  PROVE  Inv'
  BY DEF Inv, Functions, MetaCurrent, RoundsRun, RepliesLabelled, Become, Up

\* A place after a place of a round is one, and never keeps a batch.
LEMMA NextPeerVisits ==
  ASSUME NEW r, r.peers \in Seq(Peers) \ {<<>>}
  PROVE  Visits(NextPeer(r)) /\ NextPeer(r).pc # "reply"
<1>1. CASE Len(r.peers) > 1
  <2> DEFINE rest == Tail(r.peers)
  <2>1. rest \in Seq(Peers) /\ Len(rest) = Len(r.peers) - 1 /\ Len(r.peers) \in Nat
    BY <1>1
  <2> HIDE DEF rest
  <2>2. rest # <<>>
    BY <2>1, <1>1
  <2> USE DEF rest
  <2> QED
    BY <2>1, <2>2, <1>1 DEF NextPeer, Visits
<1>2. CASE ~(Len(r.peers) > 1)
  BY <1>2 DEF NextPeer, Visits, Waiting
<1> QED
  BY <1>1, <1>2

\* The same for the end of an exchange.
LEMMA NextPlaceVisits ==
  ASSUME NEW r, r.peers \in Seq(Peers) \ {<<>>}
  PROVE  Visits(NextPlace(r)) /\ NextPlace(r).pc # "reply"
<1>1. CASE Len(r.ns) > 1
  BY <1>1 DEF NextPlace, Visits
<1>2. CASE ~(Len(r.ns) > 1)
  BY <1>2, NextPeerVisits DEF NextPlace
<1> QED
  BY <1>1, <1>2

\* The peer a round is at is one of the peers.
LEMMA RemoteIsPeer ==
  ASSUME Inv, NEW p \in Peers, round[p] # Waiting
  PROVE  /\ Up(p) /\ meta[p] = schema[p]
         /\ round[p].peers \in Seq(Peers) \ {<<>>}
         /\ Remote(p) \in Peers
<1>1. Up(p) /\ round[p].peers \in Seq(Peers) \ {<<>>}
  BY DEF Inv, RoundsRun, Visits
<1>2. meta[p] = schema[p]
  BY <1>1 DEF Inv, MetaCurrent
<1>3. Head(round[p].peers) \in Peers
  BY <1>1
<1> QED
  BY <1>1, <1>2, <1>3 DEF Remote

\* Every action keeps the invariant.
LEMMA NextInv == ASSUME Inv, ~Staged, [Next]_vars PROVE Inv'
<1>1. CASE UNCHANGED vars
  BY <1>1 DEF vars, Inv, Functions, MetaCurrent, RoundsRun, RepliesLabelled, LateLabelled,
              DriftContained, Up
<1>2. ASSUME NEW p \in Peers, Upgrade(p) \/ StartSyncd(p) \/ StopSyncd(p) PROVE Inv'
  BY <1>2, NodeStep
<1>3. ASSUME NEW p \in Peers, BeginRound(p) PROVE Inv'
  <2> DEFINE r == [pc |-> "hello", peers |-> Registry[p]]
  <2>1. Become(p, r) /\ Up(p) /\ UNCHANGED <<schema, meta, late, drifted>>
    BY <1>3 DEF BeginRound
  <2>2. r.pc # "reply" /\ Visits(r)
    BY <1>3, ConstantsAssumption DEF BeginRound, Visits
  <2>3. LateLabelled' /\ DriftContained' /\ DOMAIN drifted' = Peers
    BY <2>1 DEF Inv, Functions, LateLabelled, DriftContained
  <2> HIDE DEF r
  <2> QED
    BY <2>1, <2>2, <2>3, RoundStep
<1>4. ASSUME NEW p \in Peers, Skip(p) PROVE Inv'
  <2>1. Become(p, NextPeer(round[p])) /\ UNCHANGED <<schema, meta, late, drifted>>
    BY <1>4 DEF Skip
  <2>2. Up(p) /\ round[p].peers \in Seq(Peers) \ {<<>>}
    BY <1>4, RemoteIsPeer DEF Skip, Waiting
  <2>3. LateLabelled' /\ DriftContained' /\ DOMAIN drifted' = Peers
    BY <2>1 DEF Inv, Functions, LateLabelled, DriftContained
  <2>4. Visits(NextPeer(round[p])) /\ NextPeer(round[p]).pc # "reply"
    BY <2>2, NextPeerVisits
  <2> QED
    BY <2>1, <2>2, <2>3, <2>4, RoundStep
<1>5. ASSUME NEW p \in Peers, Handshake(p) PROVE Inv'
  <2>1. Up(p) /\ round[p].peers \in Seq(Peers) \ {<<>>}
    BY <1>5, RemoteIsPeer DEF Handshake, Waiting
  <2>2. PICK r : Become(p, r) /\ r.pc # "reply" /\ Visits(r)
    BY <1>5, <2>1 DEF Handshake, Waiting, Visits
  <2>3. UNCHANGED <<schema, meta, late, drifted>>
    BY <1>5 DEF Handshake, RefuseHandshake
  <2>4. LateLabelled' /\ DriftContained' /\ DOMAIN drifted' = Peers
    BY <2>3 DEF Inv, Functions, LateLabelled, DriftContained
  <2> QED
    BY <2>1, <2>2, <2>3, <2>4, RoundStep
<1>6. ASSUME NEW p \in Peers, Push(p) PROVE Inv'
  <2>1. /\ Up(p) /\ meta[p] = schema[p]
        /\ Remote(p) \in Peers /\ round[p].peers \in Seq(Peers) \ {<<>>}
    BY <1>6, RemoteIsPeer DEF Push, Waiting
  <2>2. meta[Remote(p)] = schema[Remote(p)]
    BY <2>1, <1>6 DEF Inv, MetaCurrent, Push
  <2> DEFINE b == ExtractBatch(p, Namespace(p))
  <2>3. Labelled(b)
    BY <2>1, ExtractLabelled
  <2>4. AcceptBatch(Remote(p), b) \/ RejectBatch(Remote(p), b)
    BY <1>6 DEF Push
  <2>5. UNCHANGED <<schema, meta>>
    BY <2>4 DEF AcceptBatch, RejectBatch
  <2>6. DriftContained' /\ DOMAIN drifted' = Peers
    <3> HIDE DEF b
    <3> QED
      BY <2>1, <2>2, <2>3, <2>4, AcceptContained, RejectContained
  <2>7. PICK r : Become(p, r) /\ r.pc # "reply" /\ Visits(r)
    <3>1. CASE Become(p, [round[p] EXCEPT !.pc = "pull"])
      <4>1. [round[p] EXCEPT !.pc = "pull"].pc # "reply"
        BY <1>6 DEF Push
      <4>2. [round[p] EXCEPT !.pc = "pull"].peers = round[p].peers
        OBVIOUS
      <4> QED
        BY <3>1, <4>1, <4>2, <2>1 DEF Visits
    <3>2. CASE Become(p, Waiting)
      BY <3>2 DEF Waiting, Visits
    <3> QED
      BY <3>1, <3>2, <1>6 DEF Push
  <2>8. LateLabelled'
    BY <1>6 DEF Inv, LateLabelled, Push
  <2> QED
    BY <2>1, <2>5, <2>6, <2>7, <2>8, RoundStep
<1>7. ASSUME NEW p \in Peers, Pull(p) PROVE Inv'
  <2>1. Up(p) /\ Remote(p) \in Peers /\ round[p].peers \in Seq(Peers) \ {<<>>}
    BY <1>7, RemoteIsPeer DEF Pull, Waiting
  <2>2. meta[Remote(p)] = schema[Remote(p)]
    BY <2>1, <1>7 DEF Inv, MetaCurrent, Pull
  <2> DEFINE r == [pc |-> "reply", peers |-> round[p].peers, ns |-> round[p].ns,
                   batch |-> ExtractBatch(Remote(p), Namespace(p))]
  <2>3. Become(p, r) /\ UNCHANGED <<schema, meta, late, drifted>>
    BY <1>7 DEF Pull
  <2>4. Labelled(r.batch) /\ Visits(r)
    BY <2>1, <2>2, ExtractLabelled DEF Visits
  <2>5. LateLabelled' /\ DriftContained' /\ DOMAIN drifted' = Peers
    BY <2>3 DEF Inv, Functions, LateLabelled, DriftContained
  <2> HIDE DEF r
  <2> QED
    BY <2>1, <2>3, <2>4, <2>5, RoundStep
<1>8. ASSUME NEW p \in Peers, ApplyReply(p) PROVE Inv'
  <2>1. Up(p) /\ meta[p] = schema[p] /\ round[p].peers \in Seq(Peers) \ {<<>>}
    BY <1>8, RemoteIsPeer DEF ApplyReply, Waiting
  <2>2. Labelled(round[p].batch)
    BY <1>8 DEF Inv, RepliesLabelled, ApplyReply
  <2>3. AcceptBatch(p, round[p].batch) \/ RejectBatch(p, round[p].batch)
    BY <1>8 DEF ApplyReply
  <2>4. UNCHANGED <<schema, meta>>
    BY <2>3 DEF AcceptBatch, RejectBatch
  <2>5. DriftContained' /\ DOMAIN drifted' = Peers
    BY <2>1, <2>2, <2>3, AcceptContained, RejectContained
  <2>6. PICK r : Become(p, r) /\ r.pc # "reply" /\ Visits(r)
    <3>1. CASE Become(p, NextPlace(round[p]))
      BY <3>1, <2>1, NextPlaceVisits
    <3>2. CASE Become(p, Waiting)
      BY <3>2 DEF Waiting, Visits
    <3> QED
      BY <3>1, <3>2, <1>8 DEF ApplyReply
  <2>7. LateLabelled'
    BY <1>8 DEF Inv, LateLabelled, ApplyReply
  <2> QED
    BY <2>1, <2>4, <2>5, <2>6, <2>7, RoundStep
<1>9. ASSUME NEW p \in Peers, GiveUp(p) PROVE Inv'
  <2>1. Become(p, Waiting) /\ UNCHANGED <<schema, meta, drifted>>
    BY <1>9 DEF GiveUp
  <2>2. Waiting.pc # "reply" /\ Visits(Waiting)
    BY DEF Waiting, Visits
  <2>3. Up(p) /\ meta[p] = schema[p] /\ Remote(p) \in Peers
    BY <1>9, RemoteIsPeer DEF GiveUp
  <2>4. ASSUME NEW l \in late' PROVE l.to \in Peers /\ (l.req.kind = "apply" => Labelled(l.req))
    <3>1. CASE l \in late
      BY <3>1 DEF Inv, LateLabelled
    <3>2. CASE l = [to |-> Remote(p), req |-> Hello(p)]
      <4>1. l.req.kind = "hello" /\ l.to \in Peers
        BY <3>2, <2>3 DEF Hello
      <4> QED
        BY <4>1
    <3>3. CASE l = [to |-> Remote(p), req |-> ExtractBatch(p, Namespace(p))]
      BY <3>3, <2>3, ExtractLabelled
    <3> QED
      BY <3>1, <3>2, <3>3, <2>4, <1>9 DEF GiveUp
  <2>5. LateLabelled' /\ DriftContained' /\ DOMAIN drifted' = Peers
    BY <2>1, <2>4 DEF Inv, Functions, LateLabelled, DriftContained
  <2> QED
    BY <2>1, <2>2, <2>3, <2>5, RoundStep
<1>10. ASSUME NEW l \in late, ServeLate(l) PROVE Inv'
  <2>1. l.to \in Peers /\ meta[l.to] = schema[l.to]
    BY <1>10 DEF Inv, LateLabelled, MetaCurrent, ServeLate
  <2>2. UNCHANGED <<schema, meta, round>> /\ late' \subseteq late
    BY <1>10 DEF ServeLate, RefuseHandshake, AcceptBatch, RejectBatch
  <2>3. DriftContained' /\ DOMAIN drifted' = Peers
    <3>1. CASE UNCHANGED drifted
      BY <3>1 DEF Inv, Functions, DriftContained
    <3>2. CASE l.req.kind = "apply" /\ AcceptBatch(l.to, l.req)
      BY <3>2, <2>1, AcceptContained DEF Inv, LateLabelled
    <3> QED
      BY <3>1, <3>2, <1>10 DEF ServeLate, RefuseHandshake, RejectBatch
  <2> QED
    BY <2>2, <2>3 DEF Inv, Functions, MetaCurrent, RoundsRun, RepliesLabelled, LateLabelled, Up
<1> QED
  BY <1>1, <1>2, <1>3, <1>4, <1>5, <1>6, <1>7, <1>8, <1>9, <1>10 DEF Next

\* When every program of a node is restarted with an upgrade, rows are merged
\* only into a database with the schema they were written under, although a
\* node may be upgraded between the handshake and the batch, and requests may
\* arrive long after (Handshake, ExtractBatch, ApplyBatch).
THEOREM Contained == ASSUME ~Staged PROVE Spec => []DriftContained
<1>1. Inv => DriftContained
  BY DEF Inv
<1> QED
  BY <1>1, InitInv, NextInv, PTL DEF Spec

(***************************************************************************)
(* Types.                                                                  *)
(***************************************************************************)

RoundOK(p, r) ==
    \/ r = Waiting
    \/ /\ r.pc \in {"hello", "push", "pull", "reply"} /\ Up(p)
       /\ r.peers \in Seq(Peers) \ {<<>>}
       /\ r.pc # "hello" => r.ns \in Seq(Namespaces) \ {<<>>}

RequestOK(r) == r.from \in Peers /\ r.schema \in 1 .. schema[r.from]

StateType == [Peers -> [Peers -> [Namespaces -> [error : Errors, fenced : BOOLEAN]]]]
DriftedType == [Peers -> SUBSET (1 .. MaxSchema)]

SchemasOK ==
    /\ schema \in [Peers -> 1 .. MaxSchema]
    /\ DOMAIN meta = Peers /\ \A p \in Peers : meta[p] \in 0 .. schema[p]

RoundsOK ==
    /\ DOMAIN round = Peers
    /\ \A p \in Peers : RoundOK(p, round[p])
    /\ \A p \in Peers : round[p].pc = "reply" =>
           RequestOK(round[p].batch) /\ round[p].batch.rows \in 1 .. MaxSchema

LateOK ==
    \A l \in late : /\ l.to \in Peers /\ l.req.kind \in {"hello", "apply"}
                    /\ RequestOK(l.req)
                    /\ l.req.kind = "apply" => l.req.rows \in 1 .. MaxSchema

\* TypeOK with the domain of round and the rows of the batches under way.
Types == SchemasOK /\ state \in StateType /\ RoundsOK /\ LateOK /\ drifted \in DriftedType

\* No node runs, and nothing has happened.
LEMMA TypesInit == Init => Types
<1> SUFFICES ASSUME Init PROVE Types
  OBVIOUS
<1>1. MaxSchema \in Nat \ {0}
  BY ConstantsAssumption
<1>2. SchemasOK
  BY <1>1 DEF Init, SchemasOK
<1>3. state \in StateType
  BY DEF Init, StateType, Clean, Errors
<1>4. RoundsOK /\ LateOK /\ drifted \in DriftedType
  BY DEF Init, RoundsOK, RoundOK, LateOK, DriftedType, Waiting
<1> QED BY <1>2, <1>3, <1>4 DEF Types

\* What a server does with a request leaves its row and its drift typed.
LEMMA ServerTypes ==
  ASSUME Types, NEW p \in Peers, NEW b, b.rows \in 1 .. MaxSchema,
         AcceptBatch(p, b) \/ RejectBatch(p, b)
  PROVE  state' \in StateType /\ drifted' \in DriftedType /\ UNCHANGED <<schema, meta>>
<1>1. schema[p] \in 1 .. MaxSchema
  BY DEF Types, SchemasOK
<1>2. CASE AcceptBatch(p, b)
  <2>1. Clean \in [error : Errors, fenced : BOOLEAN]
    BY DEF Clean, Errors
  <2>2. state' \in StateType
    BY <1>2, <2>1 DEF AcceptBatch, Types, StateType
  <2>3. drifted' \in DriftedType
    BY <1>1, <1>2 DEF AcceptBatch, Types, DriftedType
  <2> QED BY <1>2, <2>2, <2>3 DEF AcceptBatch
<1>3. CASE RejectBatch(p, b)
  <2>1. PICK e \in Errors : MarkSyncError(p, b.from, b.ns, e, FALSE)
    BY <1>3 DEF RejectBatch, Errors
  <2>2. [error |-> e, fenced |-> FALSE] \in [error : Errors, fenced : BOOLEAN]
    OBVIOUS
  <2>3. state' \in StateType
    BY <2>1, <2>2 DEF MarkSyncError, Types, StateType
  <2> QED BY <1>3, <2>3 DEF RejectBatch, Types
<1> QED BY <1>2, <1>3

\* So does what it does with a handshake.
LEMMA HandshakeTypes ==
  ASSUME Types, NEW p \in Peers, NEW h, RefuseHandshake(p, h)
  PROVE  state' \in StateType /\ drifted' = drifted /\ UNCHANGED <<schema, meta>>
<1>1. [error |-> "schema hash mismatch", fenced |-> TRUE] \in [error : Errors, fenced : BOOLEAN]
  BY DEF Errors
<1>2. state' \in StateType
  BY <1>1 DEF RefuseHandshake, MarkSyncError, Types, StateType
<1> QED BY <1>2 DEF RefuseHandshake

\* The peers and namespaces that are left of a round.
LEMMA PlacesTyped ==
  ASSUME NEW p \in Peers, Up(p), NEW r, r.peers \in Seq(Peers) \ {<<>>}
  PROVE  /\ RoundOK(p, NextPeer(r)) /\ NextPeer(r).pc # "reply"
         /\ r.ns \in Seq(Namespaces) \ {<<>>} =>
               RoundOK(p, NextPlace(r)) /\ NextPlace(r).pc # "reply"
<1>1. RoundOK(p, NextPeer(r)) /\ NextPeer(r).pc # "reply"
  BY NextPeerVisits DEF Visits, NextPeer, RoundOK
<1>2. ASSUME r.ns \in Seq(Namespaces) \ {<<>>}
      PROVE  RoundOK(p, NextPlace(r)) /\ NextPlace(r).pc # "reply"
  <2>1. CASE Len(r.ns) > 1
    <3> DEFINE rest == Tail(r.ns)
    <3>1. rest \in Seq(Namespaces) /\ Len(rest) = Len(r.ns) - 1 /\ Len(r.ns) \in Nat
      BY <1>2, <2>1
    <3>2. rest # <<>>
      <4> HIDE DEF rest
      <4> QED BY <2>1, <3>1
    <3> QED BY <2>1, <3>1, <3>2 DEF NextPlace, RoundOK
  <2>2. CASE ~(Len(r.ns) > 1)
    BY <1>1, <2>2 DEF NextPlace
  <2> QED BY <2>1, <2>2
<1> QED BY <1>1, <1>2

\* A step of a round keeps the types when its new place is one.
LEMMA RoundTypes ==
  ASSUME Types, NEW p \in Peers, NEW r, Become(p, r), RoundOK(p, r), UNCHANGED <<schema, meta>>,
         r.pc = "reply" => RequestOK(r.batch) /\ r.batch.rows \in 1 .. MaxSchema,
         state' \in StateType, drifted' \in DriftedType,
         \A l \in late' : l \in late \/
             /\ l.to \in Peers /\ l.req.kind \in {"hello", "apply"} /\ RequestOK(l.req)
             /\ l.req.kind = "apply" => l.req.rows \in 1 .. MaxSchema
  PROVE  Types'
<1>1. SchemasOK'
  BY DEF Types, SchemasOK
<1>2. RoundsOK'
  <2>1. \A q \in Peers : round'[q] = IF q = p THEN r ELSE round[q]
    BY DEF Become, Types, RoundsOK
  <2>2. DOMAIN round' = Peers
    BY DEF Become, Types, RoundsOK
  <2> QED BY <2>1, <2>2 DEF Types, RoundsOK, RoundOK, RequestOK, Up
<1>3. LateOK'
  BY DEF Types, LateOK, RequestOK
<1> QED BY <1>1, <1>2, <1>3 DEF Types

\* So does a step of a node.
LEMMA NodeTypes ==
  ASSUME Types, NEW p \in Peers, Upgrade(p) \/ StartSyncd(p) \/ StopSyncd(p)
  PROVE  Types'
<1>1. /\ schema[p] \in 1 .. MaxSchema /\ DOMAIN schema = Peers /\ DOMAIN meta = Peers
      /\ MaxSchema \in Nat
  BY ConstantsAssumption DEF Types, SchemasOK
<1>2. SchemasOK' /\ \A q \in Peers : schema'[q] >= schema[q]
  <2>1. CASE Upgrade(p)
    <3>1. schema' = [schema EXCEPT ![p] = schema[p] + 1] /\ schema[p] < MaxSchema
          /\ (meta' = meta \/ meta' = [meta EXCEPT ![p] = 0])
      BY <2>1 DEF Upgrade
    <3> QED BY <1>1, <3>1 DEF Types, SchemasOK
  <2>2. CASE StartSyncd(p)
    BY <1>1, <2>2 DEF StartSyncd, Types, SchemasOK
  <2>3. CASE StopSyncd(p)
    BY <1>1, <2>3 DEF StopSyncd, Types, SchemasOK
  <2> QED BY <2>1, <2>2, <2>3
<1>3. \A r : RequestOK(r) => RequestOK(r)'
  BY <1>2 DEF RequestOK, Types, SchemasOK
<1>4. /\ \A q \in Peers : round'[q] = round[q] \/ round'[q] = Waiting
      /\ DOMAIN round' = Peers
      /\ \A q \in Peers : round'[q] = round[q] /\ round[q] # Waiting => (Up(q) => Up(q)')
  BY DEF Upgrade, StartSyncd, StopSyncd, Become, Types, RoundsOK, SchemasOK, Up
<1>5. RoundsOK'
  <2> SUFFICES ASSUME NEW q \in Peers
               PROVE  /\ RoundOK(q, round[q])'
                      /\ round'[q].pc = "reply" =>
                            RequestOK(round[q].batch)' /\ round'[q].batch.rows \in 1 .. MaxSchema
    BY <1>4 DEF RoundsOK
  <2>1. CASE round'[q] = Waiting
    BY <2>1 DEF RoundOK, Waiting
  <2>2. CASE round'[q] = round[q] /\ round[q] # Waiting
    <3>1. RoundOK(q, round[q]) /\ (round[q].pc = "reply" =>
              RequestOK(round[q].batch) /\ round[q].batch.rows \in 1 .. MaxSchema)
      BY DEF Types, RoundsOK
    <3> QED BY <1>3, <1>4, <2>2, <3>1 DEF RoundOK, RequestOK
  <2> QED BY <1>4, <2>1, <2>2
<1>6. LateOK' /\ state' \in StateType /\ drifted' \in DriftedType
  BY <1>3 DEF Upgrade, StartSyncd, StopSyncd, Types, LateOK, RequestOK
<1> QED BY <1>2, <1>5, <1>6 DEF Types

\* What a daemon that runs sends is a request.
LEMMA RequestTypes ==
  ASSUME Types, NEW p \in Peers, Up(p)
  PROVE  /\ \A n : /\ RequestOK(ExtractBatch(p, n)) /\ ExtractBatch(p, n).kind = "apply"
                   /\ ExtractBatch(p, n).rows \in 1 .. MaxSchema
         /\ RequestOK(Hello(p)) /\ Hello(p).kind = "hello"
<1>1. meta[p] \in 1 .. schema[p] /\ schema[p] \in 1 .. MaxSchema
  BY ConstantsAssumption DEF Types, SchemasOK, Up
<1> QED BY <1>1 DEF ExtractBatch, Hello, RequestOK

\* The round a peer is in visits peers.
LEMMA RemoteTypes ==
  ASSUME Types, NEW p \in Peers, round[p] # Waiting
  PROVE  /\ Up(p) /\ Remote(p) \in Peers /\ round[p].peers \in Seq(Peers) \ {<<>>}
         /\ round[p].pc # "hello" => round[p].ns \in Seq(Namespaces) \ {<<>>}
<1>1. /\ Up(p) /\ round[p].peers \in Seq(Peers) \ {<<>>}
      /\ round[p].pc # "hello" => round[p].ns \in Seq(Namespaces) \ {<<>>}
  BY DEF Types, RoundsOK, RoundOK
<1>2. Head(round[p].peers) \in Peers
  BY <1>1
<1> QED BY <1>1, <1>2 DEF Remote

\* Every step keeps the types.
LEMMA TypesNext == ASSUME Types, [Next]_vars PROVE Types'
<1> USE DEF Waiting
<1>1. CASE UNCHANGED vars
  BY <1>1 DEF vars, Types, SchemasOK, RoundsOK, RoundOK, LateOK, RequestOK, StateType, DriftedType, Up
<1>2. ASSUME NEW p \in Peers, Upgrade(p) \/ StartSyncd(p) \/ StopSyncd(p) PROVE Types'
  BY <1>2, NodeTypes
<1>3. ASSUME NEW p \in Peers, BeginRound(p) PROVE Types'
  <2> DEFINE r == [pc |-> "hello", peers |-> Registry[p]]
  <2>1. Become(p, r) /\ UNCHANGED <<schema, meta, late>> /\ r.pc # "reply"
    BY <1>3 DEF BeginRound
  <2>2. RoundOK(p, r)
    BY <1>3, ConstantsAssumption DEF BeginRound, RoundOK
  <2>3. state' \in StateType /\ drifted' \in DriftedType
    BY <1>3 DEF BeginRound, Types
  <2> HIDE DEF r
  <2> QED BY <2>1, <2>2, <2>3, RoundTypes
<1>4. ASSUME NEW p \in Peers, Skip(p) PROVE Types'
  <2>1. Become(p, NextPeer(round[p])) /\ UNCHANGED <<schema, meta, late>> /\ round[p] # Waiting
    BY <1>4 DEF Skip
  <2>2. RoundOK(p, NextPeer(round[p])) /\ NextPeer(round[p]).pc # "reply"
    BY <2>1, RemoteTypes, PlacesTyped
  <2>3. state' \in StateType /\ drifted' \in DriftedType
    BY <1>4 DEF Skip, Types
  <2> QED BY <2>1, <2>2, <2>3, RoundTypes
<1>5. ASSUME NEW p \in Peers, Handshake(p) PROVE Types'
  <2>1. Up(p) /\ Remote(p) \in Peers /\ round[p].peers \in Seq(Peers) \ {<<>>}
    BY <1>5, RemoteTypes DEF Handshake
  <2>2. late' = late
    BY <1>5 DEF Handshake
  <2>3. CASE /\ Become(p, [pc |-> "push", peers |-> round[p].peers, ns |-> Common[p][Remote(p)]])
             /\ UNCHANGED <<schema, meta, state, drifted>>
    <3> DEFINE r == [pc |-> "push", peers |-> round[p].peers, ns |-> Common[p][Remote(p)]]
    <3>1. Common[p][Remote(p)] \in Seq(Namespaces) \ {<<>>}
      BY <1>5, <2>1, ConstantsAssumption DEF Handshake, Shares
    <3>2. RoundOK(p, r) /\ r.pc # "reply"
      BY <2>1, <3>1 DEF RoundOK
    <3>3. state' \in StateType /\ drifted' \in DriftedType
      BY <2>3 DEF Types
    <3>4. Become(p, r) /\ UNCHANGED <<schema, meta>>
      BY <2>3
    <3> HIDE DEF r
    <3> QED BY <2>2, <3>2, <3>3, <3>4, RoundTypes
  <2>4. CASE RefuseHandshake(Remote(p), Hello(p)) /\ Become(p, Waiting)
    <3>1. state' \in StateType /\ drifted' \in DriftedType /\ UNCHANGED <<schema, meta>>
      BY <2>1, <2>4, HandshakeTypes DEF Types
    <3>2. RoundOK(p, Waiting)
      BY DEF RoundOK
    <3> QED BY <2>2, <2>4, <3>1, <3>2, RoundTypes
  <2> QED BY <1>5, <2>3, <2>4 DEF Handshake
<1>6. ASSUME NEW p \in Peers, Push(p) PROVE Types'
  <2> DEFINE b == ExtractBatch(p, Namespace(p))
  <2>1. /\ Up(p) /\ Remote(p) \in Peers /\ round[p].peers \in Seq(Peers) \ {<<>>}
        /\ round[p].ns \in Seq(Namespaces) \ {<<>>} /\ late' = late
    BY <1>6, RemoteTypes DEF Push
  <2>2. b.rows \in 1 .. MaxSchema
    BY <2>1, RequestTypes
  <2>3. AcceptBatch(Remote(p), b) \/ RejectBatch(Remote(p), b)
    BY <1>6 DEF Push
  <2>4. state' \in StateType /\ drifted' \in DriftedType /\ UNCHANGED <<schema, meta>>
    <3> HIDE DEF b
    <3> QED BY <2>1, <2>2, <2>3, ServerTypes
  <2>5. PICK r : Become(p, r) /\ RoundOK(p, r) /\ r.pc # "reply"
    <3>1. CASE Become(p, [round[p] EXCEPT !.pc = "pull"])
      <4>1. PICK r : r = [round[p] EXCEPT !.pc = "pull"]
        OBVIOUS
      <4>2. r.pc = "pull" /\ r.peers = round[p].peers /\ r.ns = round[p].ns
        BY <1>6, <4>1 DEF Push, Types, RoundsOK, RoundOK
      <4>3. RoundOK(p, r)
        BY <2>1, <4>2 DEF RoundOK
      <4> QED BY <3>1, <4>1, <4>2, <4>3
    <3>2. CASE Become(p, Waiting)
      BY <3>2 DEF RoundOK
    <3> QED BY <1>6, <3>1, <3>2 DEF Push
  <2> QED BY <2>1, <2>4, <2>5, RoundTypes
<1>7. ASSUME NEW p \in Peers, Pull(p) PROVE Types'
  <2>1. /\ Up(p) /\ Remote(p) \in Peers /\ Up(Remote(p))
        /\ round[p].peers \in Seq(Peers) \ {<<>>} /\ round[p].ns \in Seq(Namespaces) \ {<<>>}
    BY <1>7, RemoteTypes DEF Pull
  <2> DEFINE r == [pc |-> "reply", peers |-> round[p].peers, ns |-> round[p].ns,
                   batch |-> ExtractBatch(Remote(p), Namespace(p))]
  <2>2. Become(p, r) /\ UNCHANGED <<schema, meta, late, state, drifted>>
    BY <1>7 DEF Pull
  <2>3. RoundOK(p, r) /\ RequestOK(r.batch) /\ r.batch.rows \in 1 .. MaxSchema
    BY <2>1, RequestTypes DEF RoundOK
  <2>4. state' \in StateType /\ drifted' \in DriftedType
    BY <2>2 DEF Types
  <2> HIDE DEF r
  <2> QED BY <2>2, <2>3, <2>4, RoundTypes
<1>8. ASSUME NEW p \in Peers, ApplyReply(p) PROVE Types'
  <2>1. /\ Up(p) /\ round[p].peers \in Seq(Peers) \ {<<>>}
        /\ round[p].ns \in Seq(Namespaces) \ {<<>>} /\ late' = late
        /\ round[p].batch.rows \in 1 .. MaxSchema
    BY <1>8, RemoteTypes DEF ApplyReply, Types, RoundsOK
  <2>2. AcceptBatch(p, round[p].batch) \/ RejectBatch(p, round[p].batch)
    BY <1>8 DEF ApplyReply
  <2>3. state' \in StateType /\ drifted' \in DriftedType /\ UNCHANGED <<schema, meta>>
    BY <2>1, <2>2, ServerTypes
  <2>4. PICK r : Become(p, r) /\ RoundOK(p, r) /\ r.pc # "reply"
    <3>1. RoundOK(p, NextPlace(round[p])) /\ NextPlace(round[p]).pc # "reply"
      BY <2>1, PlacesTyped
    <3>2. RoundOK(p, Waiting)
      BY DEF RoundOK
    <3> QED BY <1>8, <3>1, <3>2 DEF ApplyReply
  <2> QED BY <2>1, <2>3, <2>4, RoundTypes
<1>9. ASSUME NEW p \in Peers, GiveUp(p) PROVE Types'
  <2>1. Become(p, Waiting) /\ UNCHANGED <<schema, meta, state, drifted>> /\ round[p] # Waiting
    BY <1>9 DEF GiveUp
  <2>2. RoundOK(p, Waiting) /\ state' \in StateType /\ drifted' \in DriftedType
    BY <2>1 DEF RoundOK, Types
  <2>3. ASSUME NEW l \in late', l \notin late
        PROVE  /\ l.to \in Peers /\ l.req.kind \in {"hello", "apply"} /\ RequestOK(l.req)
               /\ l.req.kind = "apply" => l.req.rows \in 1 .. MaxSchema
    <3>1. Up(p) /\ Remote(p) \in Peers
      BY <2>1, RemoteTypes
    <3>2. PICK h \in {Hello(p), ExtractBatch(p, Namespace(p))} : l = [to |-> Remote(p), req |-> h]
      BY <1>9, <2>3 DEF GiveUp
    <3>3. /\ h.kind \in {"hello", "apply"} /\ RequestOK(h)
          /\ h.kind = "apply" => h.rows \in 1 .. MaxSchema
      BY <3>1, RequestTypes
    <3> QED BY <3>1, <3>2, <3>3
  <2> QED BY <2>1, <2>2, <2>3, RoundTypes
<1>10. ASSUME NEW l \in late, ServeLate(l) PROVE Types'
  <2>1. l.to \in Peers /\ (l.req.kind = "apply" => l.req.rows \in 1 .. MaxSchema)
        /\ round' = round /\ late' \subseteq late
    BY <1>10 DEF Types, LateOK, ServeLate
  <2>2. state' \in StateType /\ drifted' \in DriftedType /\ UNCHANGED <<schema, meta>>
    BY <1>10, <2>1, ServerTypes, HandshakeTypes DEF ServeLate, Types
  <2> QED BY <2>1, <2>2 DEF Types, SchemasOK, RoundsOK, RoundOK, LateOK, RequestOK, Up
<1> QED
  BY <1>1, <1>2, <1>3, <1>4, <1>5, <1>6, <1>7, <1>8, <1>9, <1>10 DEF Next

\* Type correctness, with what daemons and requests know of schemas: for any
\* registry, any upgrades (staged or not), restarts and lost or late requests.
THEOREM DaemonTypes == Spec => []TypeOK
<1>1. Types => TypeOK
  BY DEF Types, TypeOK, SchemasOK, StateType, RoundsOK, RoundOK, LateOK, RequestOK,
         DriftedType, Requests
<1> QED BY <1>1, TypesInit, TypesNext, PTL DEF Spec
=============================================================================
