------------------------------ MODULE MCProgram -----------------------------
(* Program with one exception, one pattern and two addresses, and MemPool   *)
(* with a few blocks, for TLC: a program uses the one or the other.         *)
EXTENDS Program, MemPool, TLC

CONSTANTS x, p, a1, a2

VARIABLE pool   \* whether the program is one that uses a pool

allvars == << pool, vars, poolvars >>

AllInit == Init /\ PoolInit /\ pool \in BOOLEAN

AllNext ==
  \/ ~ pool /\ Next /\ UNCHANGED << pool, poolvars >>
  \/ pool /\ PoolNext /\ UNCHANGED << pool, vars >>

AllSpec == AllInit /\ [][AllNext]_allvars

Symmetry == Permutations({a1, a2})
=============================================================================
