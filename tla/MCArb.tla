------------------------------- MODULE MCArb --------------------------------
(* Arb with few nodes, for TLC. *)
EXTENDS Arb
=============================================================================
