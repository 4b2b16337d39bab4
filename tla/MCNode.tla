------------------------------- MODULE MCNode -------------------------------
(***************************************************************************)
(* A small instance of Node for TLC: two settings that differ in           *)
(* everything, as when the bundle is upgraded and the profile is changed,  *)
(* one unit, one peer.                                                     *)
(***************************************************************************)
EXTENDS Node

CONSTANTS u, v, p1

MCSettings ==
    {[migrations |-> 1, tokenizer |-> "unicode61", dim |-> 8],
     [migrations |-> 1, tokenizer |-> "trigram", dim |-> 768],
     [migrations |-> 2, tokenizer |-> "unicode61", dim |-> 8]}
=============================================================================
