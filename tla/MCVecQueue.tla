----------------------------- MODULE MCVecQueue -----------------------------
(* VecQueue with a small storage, for TLC. *)
EXTENDS VecQueue
=============================================================================
