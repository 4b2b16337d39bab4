---------------------------- MODULE MCSyncDaemon ----------------------------
(***************************************************************************)
(* Small instances of SyncDaemon for TLC.                                  *)
(***************************************************************************)
EXTENDS SyncDaemon

CONSTANTS A, B, C, x, y

\* Two peers that share two namespaces; C is in A's registry with a namespace
\* A is not configured for.
PairPeers == {A, B, C}
PairRegistry == [p \in PairPeers |->
    CASE p = A -> <<C, B>> [] p = B -> <<A>> [] p = C -> <<>>]
PairCommon == [p \in PairPeers |-> [q \in PairPeers |->
    IF {p, q} = {A, B} THEN <<x, y>> ELSE <<>>]]

\* A knows B and C, in that order; they know A.
StarPeers == {A, B, C}
StarRegistry == [p \in StarPeers |-> IF p = A THEN <<B, C>> ELSE <<>>]
StarCommon == [p \in StarPeers |-> [q \in StarPeers |->
    IF p # q /\ A \in {p, q} THEN <<x>> ELSE <<>>]]

Nobody == {}
BRefusesA == {<<B, A>>}
=============================================================================
