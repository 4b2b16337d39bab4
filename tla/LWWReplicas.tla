---------------------------- MODULE LWWReplicas -----------------------------
(***************************************************************************)
(* What replication of the shared tables promises: every peer holds a      *)
(* table of last-writer-wins cells, cells are written only by their        *)
(* authors, snapshots of parts of a table travel over a network that may   *)
(* lose, delay, repeat and reorder them, and a peer changes its table only *)
(* by joining a snapshot into it.  Versions, change logs, cursors, policy  *)
(* and sessions are the business of MemSync, which implements this.        *)
(***************************************************************************)
EXTENDS Integers

CONSTANTS
    Peers,
    Cells,
    Author(_, _)   \* Author(p, c): p may write cell c itself

VARIABLES
    table,   \* table[p][c]
    wire     \* the snapshots under way

Bottom == [cv |-> 0, val |-> 0]

Above(r, s) == r.cv > s.cv \/ (r.cv = s.cv /\ r.val > s.val)

Join(t, u) ==
    [c \in Cells |-> IF c \in DOMAIN u /\ Above(u[c], t[c]) THEN u[c] ELSE t[c]]

OnlyAt(p) == \A q \in Peers \ {p} : table'[q] = table[q]

Init == table = [p \in Peers |-> [c \in Cells |-> Bottom]] /\ wire = {}

\* p writes some of its cells: each gets the next column version.
Author_Write(p) ==
    /\ DOMAIN table' = Peers /\ OnlyAt(p)
    /\ \A c \in Cells : table'[p][c] # table[p][c] =>
           Author(p, c) /\ table'[p][c].cv = table[p][c].cv + 1
    /\ UNCHANGED wire

\* A snapshot of part of p's table leaves.
Send(p) ==
    /\ \E u \in wire' :
          /\ \A c \in DOMAIN u : u[c] = table[p][c]
          /\ wire' = wire \cup {u}
    /\ UNCHANGED table

\* p joins a snapshot, which may stay on the wire and be delivered again.
Receive(p) ==
    /\ \E u \in wire : table' = [table EXCEPT ![p] = Join(@, u)]
    /\ wire' \subseteq wire

Lose == wire' \subseteq wire /\ UNCHANGED table

Next == Lose \/ \E p \in Peers : Author_Write(p) \/ Send(p) \/ Receive(p)

Spec == Init /\ [][Next]_<<table, wire>>

\* Nothing is invented: no peer holds a cell that is above what all of the
\* cell's authors hold.
AuthorsLead ==
    \A p \in Peers, c \in Cells :
        table[p][c] # Bottom =>
            \E a \in Peers : Author(a, c) /\ ~Above(table[p][c], table[a][c])
=============================================================================
