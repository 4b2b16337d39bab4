---------------------------- MODULE MCIndexQueue ----------------------------
(***************************************************************************)
(* Small instances of IndexQueue for TLC: s1, s2 are stored here, r1 and   *)
(* r2 come from peers.                                                     *)
(***************************************************************************)
EXTENDS IndexQueue

CONSTANTS s1, s2, r1, r2, w1, w2
=============================================================================
