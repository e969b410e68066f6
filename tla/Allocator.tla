----------------------------- MODULE Allocator ------------------------------
(***************************************************************************)
(* What a memory pool promises: blocks that are handed out, each to one    *)
(* caller and with the capacity asked for, until they are given back one   *)
(* by one or all at once.                                                  *)
(***************************************************************************)
EXTENDS Naturals

CONSTANTS Blocks, Requests, Capacities

VARIABLES
  held,    \* the capacity of each block that is handed out
  ret      \* the block the last call handed out, or none

vars == << held, ret >>

Init == held = [b \in {} |-> 0] /\ ret = {}

Malloc(sz) ==
  \E b \in Blocks \ DOMAIN held, c \in Capacities :
    /\ ret' = {b}
    /\ c >= sz
    /\ held' = [a \in DOMAIN held \cup {b} |-> IF a = b THEN c ELSE held[a]]

\* A request that is refused, or a block that is not handed out given back.
NoEffect == ret' = {} /\ UNCHANGED held

Free(b) ==
  /\ b \in DOMAIN held
  /\ held' = [a \in DOMAIN held \ {b} |-> held[a]]
  /\ ret' = {}

FreeAll == held' = [b \in {} |-> 0] /\ ret' = {}

Next ==
  \/ NoEffect
  \/ \E sz \in Requests : Malloc(sz)
  \/ \E b \in Blocks : Free(b)
  \/ FreeAll

Spec == Init /\ [][Next]_vars
=============================================================================
