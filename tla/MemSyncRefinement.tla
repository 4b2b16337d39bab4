-------------------------- MODULE MemSyncRefinement --------------------------
(***************************************************************************)
(* MemSync implements LWWReplicas: forget the database versions of the     *)
(* clock rows, and see only the rows of the batches that are under way.    *)
(***************************************************************************)
EXTENDS MemSync

Stripped(rows) == [c \in DOMAIN rows |-> [cv |-> rows[c].cv, val |-> rows[c].val]]

UnderWay == late \cup {sess[p].batch : p \in {q \in Peers : sess[q].pc \in {"sent", "reply"}}}

\* A claim is written by its home, a signal by its signaller; a lifecycle also
\* by the homes of the memories that replace it; an artifact's namespace by the
\* homes of the memories that describe it.
WritesCell(p, c) ==
    CASE c[2] = "claim"     -> HomeOf[c[1]] = p
      [] c[2] = "signal"    -> SignallerOf[c[1]] = p
      [] c[2] = "lifecycle" -> \E m \in Memories : HomeOf[m] = p /\ c[1] \in {m, Replaces[m]}
      [] c[2] = "namespace" -> \E m \in Memories : HomeOf[m] = p /\ c[1] \in Describes[m]

Replicas == INSTANCE LWWReplicas WITH
                Author <- WritesCell,
                table  <- [p \in Peers |-> Stripped(clock[p])],
                wire   <- {Stripped(b.rows) : b \in UnderWay}

\* Every step of the sync protocol is, to the tables, a write by an author, a
\* snapshot that leaves, is joined or is lost, or nothing.
ImplementsReplicas == Replicas!Spec

\* No peer ever holds a cell ahead of what all of its authors hold, although
\* batches are relayed, repeated and applied late.
AuthorsLead == Replicas!AuthorsLead
=============================================================================
