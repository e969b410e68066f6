------------------------------- MODULE KeyMap -------------------------------
(***************************************************************************)
(* What an unsorted set promises its callers (vecadd, vecremove, vecsearch *)
(* on a vec_t with a hash function): at most one element per key, the one  *)
(* added last, kept until that key is removed.                             *)
(***************************************************************************)
CONSTANTS Keys, Vals,
          Absent      \* no element with that key

VARIABLE map

TypeOK == map \in [Keys -> Vals \cup {Absent}]

Init == map = [k \in Keys |-> Absent]

Add(k, v) == map' = [map EXCEPT ![k] = v]

Remove(k) == map' = [map EXCEPT ![k] = Absent]

Next == \E k \in Keys : Remove(k) \/ \E v \in Vals : Add(k, v)

Spec == Init /\ [][Next]_map
=============================================================================
