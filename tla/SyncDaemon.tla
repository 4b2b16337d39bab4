----------------------------- MODULE SyncDaemon -----------------------------
(***************************************************************************)
(* The round a syncd makes through its peer registry (cmd/syncd: runOnce,  *)
(* syncPeer), the schema handshake and the schema fence                    *)
(* (internal/memsync: Handshake, ApplyBatch, markSyncError), while nodes   *)
(* are upgraded and daemons stopped and started.  What a batch carries is  *)
(* the business of MemSync; here it has only the schemas it was made under.*)
(*                                                                         *)
(* The database of a node is migrated by whichever of its programs is      *)
(* started first (RunMigrationsWithOptions); syncd reads the hashes it     *)
(* compares once, when it starts.                                          *)
(***************************************************************************)
EXTENDS Naturals, Sequences, FiniteSets

CONSTANTS
    Peers,
    Namespaces,
    Registry,   \* Registry[p]: the peer ids of cfg.PeerRegistry, in order
    Common,     \* Common[p][q]: IntersectNamespaces of p for q, sorted
    Refuses,    \* the <<p, q>> such that no batch of q's verifies at p
    Staged,     \* an upgrade restarts memoryd and leaves syncd running
    MaxSchema,  \* bound: the schemas a database goes through
    MaxLate     \* bound: requests still in flight after their client left

ASSUME ConstantsAssumption ==
    /\ Registry \in [Peers -> Seq(Peers)]
    /\ Common \in [Peers -> [Peers -> Seq(Namespaces)]]
    /\ Refuses \subseteq Peers \X Peers
    /\ Staged \in BOOLEAN
    /\ MaxSchema \in Nat \ {0}
    /\ MaxLate \in Nat

VARIABLES
    schema,  \* schema[p]: the migrations applied to p's database
    meta,    \* meta[p]: the Metadata p's syncd holds, 0 when it is not running
    state,   \* state[p][q][n]: last_error and schema_fenced of peer_sync_state
    round,   \* round[p]: what is left of the round p's syncd is in
    late,    \* requests whose client has gone away
    drifted  \* drifted[p]: the schemas, other than its database had, of rows
             \* that were merged at p

vars == <<schema, meta, state, round, late, drifted>>

Up(p) == meta[p] # 0

\* No row, or a row last written by a successful ApplyBatch.
Clean == [error |-> "", fenced |-> FALSE]

Waiting == [pc |-> "waiting"]
Become(p, r) == round' = [round EXCEPT ![p] = r]

\* In "hello" the peers to visit, in the other places also the namespaces left
\* of the first of them.
Remote(p) == Head(round[p].peers)
Namespace(p) == Head(round[p].ns)

(***************************************************************************)
(* Nodes.                                                                  *)
(***************************************************************************)

\* New migrations are deployed and a program of p is started with them.
Upgrade(p) ==
    /\ schema[p] < MaxSchema
    /\ schema' = [schema EXCEPT ![p] = @ + 1]
    /\ IF Staged THEN UNCHANGED <<meta, round>>
       ELSE meta' = [meta EXCEPT ![p] = 0] /\ Become(p, Waiting)
    /\ UNCHANGED <<state, late, drifted>>

StartSyncd(p) ==
    /\ ~Up(p)
    /\ meta' = [meta EXCEPT ![p] = schema[p]]
    /\ UNCHANGED <<schema, state, round, late, drifted>>

\* The requests the daemon has posted may still reach their server.
StopSyncd(p) ==
    /\ Up(p)
    /\ meta' = [meta EXCEPT ![p] = 0]
    /\ Become(p, Waiting)
    /\ UNCHANGED <<schema, state, late, drifted>>

(***************************************************************************)
(* The server: what a request does to the node it reaches.                 *)
(***************************************************************************)

\* markSyncError: the whole row is overwritten, the fence with it.
MarkSyncError(p, q, n, msg, fenced) ==
    state' = [state EXCEPT ![p][q][n] = [error |-> msg, fenced |-> fenced]]

\* The request is what syncPeer sends: its namespaces are never empty.
HandshakeFails(p, h) == h.schema # meta[p]

\* Handshake with another schema: only the first namespace is fenced.
RefuseHandshake(p, h) ==
    /\ HandshakeFails(p, h)
    /\ MarkSyncError(p, h.from, Head(h.ns), "schema hash mismatch", TRUE)
    /\ UNCHANGED <<schema, meta, drifted>>

\* ApplyBatch leaves the comparison to the handshake.
Incompatible_LeftToHandshake(p, b) == FALSE

Incompatible(p, b) == b.schema # meta[p]

\* Neither reason contains "schema", so quarantineBatch marks the error with
\* the fence down.
RejectBatch(p, b) ==
    /\ \/ Incompatible(p, b) /\ MarkSyncError(p, b.from, b.ns, "incompatible batch metadata", FALSE)
       \/ /\ ~Incompatible(p, b) /\ <<p, b.from>> \in Refuses
          /\ MarkSyncError(p, b.from, b.ns, "verification failed", FALSE)
    /\ UNCHANGED <<schema, meta, drifted>>

\* A successful ApplyBatch does not touch schema_fenced.
AcceptBatch_KeepsFence(p, b) ==
    /\ ~Incompatible(p, b) /\ <<p, b.from>> \notin Refuses
    /\ state' = [state EXCEPT ![p][b.from][b.ns] = [Clean EXCEPT !.fenced = state[p][b.from][b.ns].fenced]]
    /\ drifted' = [drifted EXCEPT ![p] = @ \cup ({b.rows} \ {schema[p]})]
    /\ UNCHANGED <<schema, meta>>

AcceptBatch(p, b) ==
    /\ ~Incompatible(p, b) /\ <<p, b.from>> \notin Refuses
    /\ state' = [state EXCEPT ![p][b.from][b.ns] = Clean]
    /\ drifted' = [drifted EXCEPT ![p] = @ \cup ({b.rows} \ {schema[p]})]
    /\ UNCHANGED <<schema, meta>>

\* A batch is labelled with the schema its daemon knows of and carries rows
\* with the columns its database has.
ExtractBatch(p, n) == [kind |-> "apply", from |-> p, ns |-> n, schema |-> meta[p], rows |-> schema[p]]

Hello(p) == [kind |-> "hello", from |-> p, schema |-> meta[p], ns |-> Common[p][Remote(p)]]

(***************************************************************************)
(* The client: runOnce of p's syncd.                                       *)
(***************************************************************************)

BeginRound(p) ==
    /\ Up(p) /\ round[p] = Waiting /\ Registry[p] # <<>>
    /\ Become(p, [pc |-> "hello", peers |-> Registry[p]])
    /\ UNCHANGED <<schema, meta, state, late, drifted>>

Shares(p, q) == Common[p][q] # <<>>

\* The peer of the registry that comes next.
NextPeer(r) == IF Len(r.peers) > 1 THEN [pc |-> "hello", peers |-> Tail(r.peers)] ELSE Waiting

\* syncPeer returns at once for a peer p has no namespace in common with.
Skip(p) ==
    /\ round[p].pc = "hello" /\ ~Shares(p, Remote(p))
    /\ Become(p, NextPeer(round[p]))
    /\ UNCHANGED <<schema, meta, state, late, drifted>>

\* The handshake and its answer; any error ends the round.
Handshake(p) ==
    /\ round[p].pc = "hello" /\ Shares(p, Remote(p)) /\ Up(Remote(p))
    /\ \/ /\ ~HandshakeFails(Remote(p), Hello(p))
          /\ Become(p, [pc |-> "push", peers |-> round[p].peers, ns |-> Common[p][Remote(p)]])
          /\ UNCHANGED <<schema, meta, state, drifted>>
       \/ RefuseHandshake(Remote(p), Hello(p)) /\ Become(p, Waiting)
    /\ UNCHANGED late

Push(p) ==
    /\ round[p].pc = "push" /\ Up(Remote(p))
    /\ LET b == ExtractBatch(p, Namespace(p))
       IN  \/ AcceptBatch(Remote(p), b) /\ Become(p, [round[p] EXCEPT !.pc = "pull"])
           \/ RejectBatch(Remote(p), b) /\ Become(p, Waiting)
    /\ UNCHANGED late

\* handlePull asks for no schema: the label of the batch has to do.
Pull(p) ==
    /\ round[p].pc = "pull" /\ Up(Remote(p))
    /\ Become(p, [pc |-> "reply", peers |-> round[p].peers, ns |-> round[p].ns,
                  batch |-> ExtractBatch(Remote(p), Namespace(p))])
    /\ UNCHANGED <<schema, meta, state, late, drifted>>

\* The peer that was visited is visited again, and no other.
NextPlace_SamePeer(r) ==
    IF Len(r.ns) > 1 THEN [pc |-> "push", peers |-> r.peers, ns |-> Tail(r.ns)]
    ELSE [pc |-> "hello", peers |-> r.peers]

\* One namespace too many.
NextPlace_OffByOne(r) ==
    IF Len(r.ns) > 0 THEN [pc |-> "push", peers |-> r.peers, ns |-> Tail(r.ns)] ELSE NextPeer(r)

\* Where the round goes when the exchange of a namespace is complete.
NextPlace(r) ==
    IF Len(r.ns) > 1 THEN [pc |-> "push", peers |-> r.peers, ns |-> Tail(r.ns)] ELSE NextPeer(r)

\* svc.ApplyBatch of the batch that was pulled.
ApplyReply(p) ==
    /\ round[p].pc = "reply"
    /\ \/ AcceptBatch(p, round[p].batch) /\ Become(p, NextPlace(round[p]))
       \/ RejectBatch(p, round[p].batch) /\ Become(p, Waiting)
    /\ UNCHANGED late

\* A connection refused, a timeout or a lost answer: runOnce gives up and the
\* peers that were still to come wait for the next tick.
GiveUp(p) ==
    /\ round[p] # Waiting
    /\ Become(p, Waiting)
    /\ \/ UNCHANGED late
       \/ /\ Cardinality(late) < MaxLate
          /\ \/ /\ round[p].pc = "hello" /\ Shares(p, Remote(p))
                /\ late' = late \cup {[to |-> Remote(p), req |-> Hello(p)]}
             \/ /\ round[p].pc = "push"
                /\ late' = late \cup {[to |-> Remote(p), req |-> ExtractBatch(p, Namespace(p))]}
    /\ UNCHANGED <<schema, meta, state, drifted>>

\* A request that arrives when its client is gone.
ServeLate(l) ==
    /\ Up(l.to)
    /\ \/ /\ l.req.kind = "hello"
          /\ \/ RefuseHandshake(l.to, l.req)
             \/ ~HandshakeFails(l.to, l.req) /\ UNCHANGED <<schema, meta, state, drifted>>
       \/ l.req.kind = "apply" /\ (AcceptBatch(l.to, l.req) \/ RejectBatch(l.to, l.req))
    /\ late' = late \ {l}
    /\ UNCHANGED round

(***************************************************************************)
(* The specification.                                                      *)
(***************************************************************************)
Init ==
    /\ schema = [p \in Peers |-> 1]
    /\ meta = [p \in Peers |-> 0]
    /\ state = [p \in Peers |-> [q \in Peers |-> [n \in Namespaces |-> Clean]]]
    /\ round = [p \in Peers |-> Waiting]
    /\ late = {}
    /\ drifted = [p \in Peers |-> {}]

Next ==
    \/ \E p \in Peers : \/ Upgrade(p) \/ StartSyncd(p) \/ StopSyncd(p) \/ BeginRound(p)
                        \/ Skip(p) \/ Handshake(p) \/ Push(p) \/ Pull(p)
                        \/ ApplyReply(p) \/ GiveUp(p)
    \/ \E l \in late : ServeLate(l)

Spec == Init /\ [][Next]_vars

\* The exchanges p's rounds are made of.
Exchanges == {e \in Peers \X Peers \X Namespaces :
    /\ \E i \in DOMAIN Registry[e[1]] : Registry[e[1]][i] = e[2]
    /\ \E i \in DOMAIN Common[e[1]][e[2]] : Common[e[1]][e[2]][i] = e[3]}

At(e) == Remote(e[1]) = e[2] /\ Namespace(e[1]) = e[3]

\* A stopped daemon is started again, the ticker keeps starting rounds, and a
\* request that is repeated often enough gets an answer.  Upgrades, stops and
\* lost requests are not fair.
Fairness ==
    /\ \A p \in Peers : WF_vars(StartSyncd(p))
    /\ \A p \in {e[1] : e \in Exchanges} : SF_vars(BeginRound(p)) /\ SF_vars(Skip(p))
    /\ \A h \in {<<e[1], e[2]>> : e \in Exchanges} : SF_vars(Handshake(h[1]) /\ Remote(h[1]) = h[2])
    /\ \A e \in Exchanges : /\ SF_vars(Push(e[1]) /\ At(e))
                            /\ SF_vars(Pull(e[1]) /\ At(e))
                            /\ SF_vars(ApplyReply(e[1]) /\ At(e))

FairSpec == Spec /\ Fairness

(***************************************************************************)
(* Properties.                                                             *)
(***************************************************************************)

Requests == {l.req : l \in late} \cup {round[p].batch : p \in {q \in Peers : round[q].pc = "reply"}}

\* The last_error of a row, by what it was written for.
Errors == {"", "schema hash mismatch", "incompatible batch metadata", "verification failed"}

\* Every variable has its type, a session has a namespace to exchange, and no
\* daemon and no request knows of a schema its database has not.
TypeOK ==
    /\ schema \in [Peers -> 1 .. MaxSchema]
    /\ DOMAIN meta = Peers /\ \A p \in Peers : meta[p] \in 0 .. schema[p]
    /\ state \in [Peers -> [Peers -> [Namespaces -> [error : Errors, fenced : BOOLEAN]]]]
    /\ \A p \in Peers :
          \/ round[p] = Waiting
          \/ /\ round[p].pc \in {"hello", "push", "pull", "reply"} /\ Up(p)
             /\ round[p].peers \in Seq(Peers) \ {<<>>}
             /\ round[p].pc # "hello" => round[p].ns \in Seq(Namespaces) \ {<<>>}
    /\ \A l \in late : l.to \in Peers /\ l.req.kind \in {"hello", "apply"}
    /\ \A r \in Requests : r.from \in Peers /\ r.schema \in 1 .. schema[r.from]
    /\ drifted \in [Peers -> SUBSET (1 .. MaxSchema)]

\* Rows are merged only into a database with the schema they were written
\* under, although the handshake is long past when a batch arrives: a node may
\* have been upgraded and restarted in between (the check in ApplyBatch).
DriftContained == \A p \in Peers : drifted[p] = {}

\* Upgrades and restarts come to an end, with one schema on all nodes.
Settled == <>[](\A p, q \in Peers : Up(p) /\ schema[p] = schema[q])

\* When the nodes are up with one schema, every fence is lifted for good: the
\* handshake of a daemon that was not upgraded yet leaves none behind
\* (AcceptBatch).
FencesLift ==
    Settled => <>[](\A p, q \in Peers, n \in Namespaces : ~state[p][q][n].fenced)

Serves(e) == round[e[1]].pc = "reply" /\ At(e)

\* When the nodes are up with one schema, every namespace p shares with a peer of its
\* registry is exchanged again and again, however rounds are cut short, as long
\* as the two do not refuse each other's batches (runOnce, syncPeer).
EveryPeerServed ==
    \A e \in {x \in Exchanges : {<<x[1], x[2]>>, <<x[2], x[1]>>} \cap Refuses = {}} :
        Settled => []<>Serves(e)
=============================================================================
