----------------------------- MODULE MCVecHash ------------------------------
(* VecHash with a small table and chosen collisions, for TLC. *)
EXTENDS VecHash, TLC

CONSTANTS k1, k2, k3, k4

\* Collisions at the beginning of the table: no run of elements reaches the
\* last slot.
HashLow == k1 :> 0 @@ k2 :> 1 @@ k3 :> 0 @@ k4 :> 8

\* Collisions around the end of an 8-slot table.
HashEnd == k1 :> 6 @@ k2 :> 7 @@ k3 :> 15 @@ k4 :> 14

\* Nine keys with nine homes: enough to fill an 8-slot table.
KeysSpread == 0 .. 8
HashSpread == [k \in KeysSpread |-> k]
=============================================================================
