------------------------------ MODULE ArbTree -------------------------------
(***************************************************************************)
(* What the arb_t functions promise: an ordered tree with one cursor.      *)
(* kids[n] lists the children of node n from left to right; the domain of  *)
(* kids is the set of nodes.                                               *)
(***************************************************************************)
EXTENDS Naturals, SequencesExt

CONSTANTS NodeIds, Data

VARIABLES kids, data, root, here

vars == << kids, data, root, here >>

Nodes == DOMAIN kids

\* In the tree t.
ParentIn(t, n) == CHOOSE p \in DOMAIN t : n \in Range(t[p])

\* n and all its descendants in the tree t: the smallest set that holds n and
\* the children of its nodes.
Subtree(t, n) ==
  LET closed == {S \in SUBSET DOMAIN t : n \in S /\ \A m \in S : Range(t[m]) \subseteq S}
  IN {m \in DOMAIN t : \A S \in closed : m \in S}

Init == kids = << >> /\ data = << >> /\ root = 0 /\ here = 0

\* A new node n, childless, whose content is not specified.
Grow(n, others) ==
  /\ here' = n
  /\ n \notin Nodes
  /\ kids' = [m \in Nodes \cup {n} |-> IF m = n THEN << >> ELSE others[m]]
  /\ \E x \in Data : data' = [m \in Nodes \cup {n} |-> IF m = n THEN x ELSE data[m]]

AddRoot(n) == root = 0 /\ Grow(n, kids) /\ root' = n

\* The new node is the leftmost child of the current one.
AddChild(n) ==
  /\ root # 0
  /\ Grow(n, [kids EXCEPT ![here] = << n >> \o @])
  /\ UNCHANGED root

\* The parent of the current node, and its place among the parent's children.
Up == ParentIn(kids, here)
Place == CHOOSE i \in DOMAIN kids[Up] : kids[Up][i] = here

\* The new node is to the right of the current one.
AddSibling(n) ==
  /\ here # root
  /\ Grow(n, [kids EXCEPT ![Up] = InsertAt(@, Place + 1, n)])
  /\ UNCHANGED root

PruneAll ==
  /\ here \in Nodes /\ here = root
  /\ kids' = << >> /\ data' = << >> /\ root' = 0 /\ here' = 0

\* The current node goes with its descendants; its parent becomes current.
PruneSubtree ==
  /\ here \in Nodes /\ here # root
  /\ LET left == Nodes \ Subtree(kids, here)
         pruned == [kids EXCEPT ![Up] = RemoveAt(@, Place)]
         old == data
     IN kids' = [m \in left |-> pruned[m]] /\ data' = [m \in left |-> old[m]]
  /\ here' = Up /\ UNCHANGED root

Prune == PruneAll \/ PruneSubtree

SetData(x) ==
  /\ here \in Nodes
  /\ data' = [data EXCEPT ![here] = x]
  /\ UNCHANGED << kids, root, here >>

Move(n) == n \in Nodes /\ here' = n /\ UNCHANGED << kids, data, root >>

Next ==
  \/ \E n \in NodeIds : AddRoot(n) \/ AddChild(n) \/ AddSibling(n) \/ Move(n)
  \/ Prune
  \/ \E x \in Data : SetData(x)

Spec == Init /\ [][Next]_vars
=============================================================================
