-------------------------------- MODULE Arb ---------------------------------
(***************************************************************************)
(* The n-ary trees of utl_vec.c ("ARB").  Nodes live in a vector and are   *)
(* numbered from 1; 0 is no node.  Pruned nodes go to a free list, linked  *)
(* by nxt, whose every node keeps in dat the length of the list from it    *)
(* on.  The fields of the tree and of the nodes keep their names: fst is   *)
(* the root, lst the head of the free list, cur the cursor.                *)
(***************************************************************************)
EXTENDS Integers, SequencesExt

CONSTANTS
  Data,      \* the integers callers store in nodes
  MaxNodes,  \* bound: the vector never holds more nodes
  QueRoom,   \* slots of a new queue (vec_MIN_ELEM, 16 in the code)
  Careful    \* whether callers avoid the two cases MayAdd excludes

ASSUME ArbAssumption ==
  /\ MaxNodes \in Nat \ {0}
  /\ QueRoom \in Nat \ {0}
  /\ Data \subseteq Int
  /\ Careful \in BOOLEAN

DELETED_NODE == MaxNodes + 1   \* 0x80000000 in the code

VARIABLES node, fst, lst, cur

\* Only observed, no variable of the code: the nodes cut off from the tree by
\* a prune that had no memory to put them in the free list.
VARIABLE lost

vars == << node, fst, lst, cur, lost >>

NodeIds == 1 .. Len(node)
NodeOrNone == 0 .. Len(node)

\* utl_arb_new
Init == node = << >> /\ fst = 0 /\ lst = 0 /\ cur = 0 /\ lost = {}

-----------------------------------------------------------------------------
\* The nodes met from s on along nxt in the nodes t; longer than t if they
\* form a cycle.
Chain(t, s) ==
  LET first[k \in 0 .. Len(t)] ==
        IF k = 0 THEN IF s = 0 THEN << >> ELSE << s >>
        ELSE LET c == first[k - 1]
             IN IF c = << >> \/ t[Last(c)].nxt = 0 THEN c
                ELSE Append(c, t[Last(c)].nxt)
  IN first[Len(t)]

Ends(t, s) == Len(Chain(t, s)) <= Len(t)

\* utl_arb_newnode: its number, the free list after it, and the nodes with it.
\* A node from the free list keeps the dwn and the dat it had.
FromFreeList == lst > 0
NewNode == IF FromFreeList THEN lst
           ELSE IF Len(node) < MaxNodes THEN Len(node) + 1
           ELSE Len(node)    \* the vector did not grow: its last node
\* Seeded fault: the free list is not advanced.
NewLstSame == lst
NewLst == IF FromFreeList THEN node[lst].nxt ELSE lst
WithNew ==
  IF FromFreeList \/ Len(node) >= MaxNodes THEN node
  ELSE Append(node, [upn |-> cur, dwn |-> 0, nxt |-> 0, dat |-> 0])

\* Careful callers add a node when the vector can grow, or when the free list
\* begins with a node that had no children: in the other two cases a node that
\* is linked already, or was once, is handed out as if it were new.
MayAdd ==
  Careful => IF FromFreeList THEN node[lst].dwn = 0 ELSE Len(node) < MaxNodes

\* utl_arb_addnode
AddNode ==
  /\ MayAdd
  /\ lst' = NewLst
  /\ cur' = NewNode
  /\ IF fst = 0
     THEN /\ fst' = NewNode
          /\ node' = [WithNew EXCEPT ![NewNode].upn = 0]
     ELSE /\ fst' = fst
          /\ node' = [WithNew EXCEPT ![NewNode].upn = cur,
                                     ![NewNode].nxt = WithNew[cur].dwn,
                                     ![cur].dwn = NewNode]
  /\ UNCHANGED lost

\* Seeded fault: the new sibling is linked from the left only.
AddSiblingCut ==
  /\ fst # 0 /\ cur # fst
  /\ MayAdd
  /\ lst' = NewLst
  /\ cur' = NewNode
  /\ node' = [WithNew EXCEPT ![NewNode].upn = WithNew[cur].upn,
                             ![NewNode].nxt = 0,
                             ![cur].nxt = NewNode]
  /\ UNCHANGED << fst, lost >>

\* Seeded fault: the new sibling takes the current node as its parent.
AddSiblingBelow ==
  /\ fst # 0 /\ cur # fst
  /\ MayAdd
  /\ lst' = NewLst
  /\ cur' = NewNode
  /\ node' = [WithNew EXCEPT ![NewNode].upn = cur,
                             ![NewNode].nxt = WithNew[cur].nxt,
                             ![cur].nxt = NewNode]
  /\ UNCHANGED << fst, lost >>

\* utl_arb_addsibling: nothing happens at the root.
AddSibling ==
  /\ fst # 0 /\ cur # fst
  /\ MayAdd
  /\ lst' = NewLst
  /\ cur' = NewNode
  /\ node' = [WithNew EXCEPT ![NewNode].upn = WithNew[cur].upn,
                             ![NewNode].nxt = WithNew[cur].nxt,
                             ![cur].nxt = NewNode]
  /\ UNCHANGED << fst, lost >>

-----------------------------------------------------------------------------
(* Pruning. *)

Siblings == Chain(node, node[node[cur].upn].dwn)

\* The search of utl_arb_detach for the node among its parent's children.
DetachFinds == node[cur].upn \in NodeIds /\ cur \in Range(Siblings)

\* Seeded fault: the left neighbour of the detached node keeps its link.
DetachedLinked == [node EXCEPT ![cur].upn = DELETED_NODE]

Detached ==
  LET i == CHOOSE j \in DOMAIN Siblings : Siblings[j] = cur
      up == node[cur].upn
      marked == [node EXCEPT ![cur].upn = DELETED_NODE]
  IN IF i = 1 THEN [marked EXCEPT ![up].dwn = node[cur].nxt]
     ELSE [marked EXCEPT ![Siblings[i - 1]].nxt = node[cur].nxt]

\* vecenq of a node on the queue of utl_arb_prune, whose result nobody looks
\* at: a full queue for which no memory is given stays as it is, and the node
\* is passed over.  `no' are the nodes for which there is no memory; that a
\* queue which grew has more slots than QueRoom is left out.
Enqueued(s, n, no) ==
  IF n \in no /\ Len(s.que) >= QueRoom
  THEN [que |-> s.que, passed |-> s.passed \cup {n}]
  ELSE [que |-> Append(s.que, n), passed |-> s.passed]

\* The children ns are put on the queue one after the other.
AllEnqueued(s, ns, no) ==
  LET after[k \in 0 .. Len(ns)] ==
        IF k = 0 THEN s ELSE Enqueued(after[k - 1], ns[k], no)
  IN after[Len(ns)]

\* Seeded fault: the length of the free list is not carried on.
FreeOneUncounted(s, no) ==
  LET n == Head(s.que)
      rest == [que |-> Tail(s.que), passed |-> s.passed]
      t == AllEnqueued(rest, Chain(s.node, s.node[n].dwn), no)
  IN [que |-> t.que, passed |-> t.passed,
      node |-> [s.node EXCEPT ![n].dat = 1, ![n].nxt = s.lst,
                              ![n].upn = DELETED_NODE],
      lst |-> n]

\* One turn of utl_arb_prune's loop: s holds the queue, the nodes passed over,
\* all nodes and the free list.
FreeOne(s, no) ==
  LET n == Head(s.que)
      len == IF s.lst = 0 THEN 1 ELSE 1 + s.node[s.lst].dat
      rest == [que |-> Tail(s.que), passed |-> s.passed]
      t == AllEnqueued(rest, Chain(s.node, s.node[n].dwn), no)
  IN [que |-> t.que, passed |-> t.passed,
      node |-> [s.node EXCEPT ![n].dat = len, ![n].nxt = s.lst,
                              ![n].upn = DELETED_NODE],
      lst |-> n]

\* Without memory for the queue itself the detached node is passed over.
LoopStart(no) ==
  [que |-> IF cur \in no THEN << >> ELSE << cur >>,
   passed |-> {cur} \cap no, node |-> Detached, lst |-> lst]

\* The loop frees every node of the subtree at most once: it needs no more
\* turns than there are nodes.
Freed(no) ==
  LET after[k \in 0 .. Len(node)] ==
        IF k = 0 THEN LoopStart(no)
        ELSE LET s == after[k - 1]
             IN IF s.que = << >> THEN s ELSE FreeOne(s, no)
  IN after[Len(node)]

\* The nodes of the tree, those reached from the root along dwn and nxt.
TreeNodes ==
  LET within[d \in 0 .. Len(node)] ==
        IF d = 0 THEN {fst} \ {0}
        ELSE LET s == within[d - 1]
             IN (s \cup {node[n].dwn : n \in s} \cup {node[n].nxt : n \in s}) \ {0}
  IN within[Len(node)]

\* The nodes of T in S and below them, in the nodes t.
ClosedFrom(t, T, S, C) == S \subseteq C /\ \A n \in T : t[n].upn \in C => n \in C
Below(t, T, S) == {n \in T : \A C \in SUBSET T : ClosedFrom(t, T, S, C) => n \in C}

PruneAll ==
  /\ fst # 0 /\ cur = fst
  /\ node' = << >> /\ fst' = 0 /\ lst' = 0 /\ cur' = 0 /\ lost' = {}

\* A node that is passed over is in no list any more, nor is one below it.
PruneSubtree ==
  /\ fst # 0 /\ cur # fst
  /\ DetachFinds
  /\ \E no \in SUBSET Below(node, TreeNodes, {cur}) :
       LET end == Freed(no) IN
       /\ end.que = << >>
       /\ node' = end.node /\ lst' = end.lst
       /\ lost' = lost \cup Below(node, TreeNodes, end.passed)
  /\ cur' = node[cur].upn
  /\ UNCHANGED fst

\* utl_arb_prune
Prune == PruneAll \/ PruneSubtree

-----------------------------------------------------------------------------
(* Moving around.  A move along a missing link stays where it is. *)

MoveTo(n) == cur' = IF n = 0 THEN cur ELSE n

Root == fst # 0 /\ cur' = fst /\ UNCHANGED << node, fst, lst, lost >>
FirstChild == cur # 0 /\ MoveTo(node[cur].dwn) /\ UNCHANGED << node, fst, lst, lost >>
NextSibling == cur # 0 /\ MoveTo(node[cur].nxt) /\ UNCHANGED << node, fst, lst, lost >>
Parent == cur # 0 /\ MoveTo(node[cur].upn) /\ UNCHANGED << node, fst, lst, lost >>

\* utl_arb_current, with a node number the caller kept: one still in the tree.
Current(n) == cur' = n /\ UNCHANGED << node, fst, lst, lost >>

SetData(x) ==
  /\ cur # 0
  /\ node' = [node EXCEPT ![cur].dat = x]
  /\ UNCHANGED << fst, lst, cur, lost >>

Next ==
  \/ AddNode
  \/ AddSibling
  \/ Prune
  \/ Root \/ FirstChild \/ NextSibling \/ Parent
  \/ \E n \in TreeNodes : Current(n)
  \/ \E x \in Data : SetData(x)

Spec == Init /\ [][Next]_vars

-----------------------------------------------------------------------------
(* Properties *)

FreeNodes == Range(Chain(node, lst))

TypeOK ==
  /\ node \in Seq([upn : NodeOrNone \cup {DELETED_NODE}, dwn : NodeOrNone,
                   nxt : NodeOrNone, dat : Data \cup 0 .. MaxNodes])
  /\ Len(node) <= MaxNodes
  /\ fst \in NodeOrNone /\ lst \in NodeOrNone /\ cur \in NodeOrNone
  /\ lost \subseteq NodeIds

\* Every node of the vector is in the tree or in the free list, and never in
\* both, so none is handed out while it is still in use; the only nodes in
\* neither are those of subtrees for which a prune got no memory, and they
\* never come back.
TreeOrFree ==
  /\ TypeOK
  /\ TreeNodes \cap FreeNodes = {}
  /\ TreeNodes \cup FreeNodes = NodeIds \ lost

\* The child lists end, their nodes know their parent, and no node is in two
\* lists or twice in one.
LinksAgree ==
  /\ \A p \in TreeNodes :
       /\ Ends(node, node[p].dwn)
       /\ \A n \in Range(Chain(node, node[p].dwn)) : node[n].upn = p
  /\ fst # 0 => node[fst].upn = 0

\* arbcount
ArbCnt == Len(node) - IF lst = 0 THEN 0 ELSE node[lst].dat

\* arbcount is the number of nodes of the tree (test/ut_arb.c:219 and 225) until
\* a prune gets no memory.  What was lost then it goes on counting, but prunes and
\* reuses of nodes never make it differ by another number.
CountIsTreeAndLost == ArbCnt = Cardinality(TreeNodes) + Cardinality(lost)

\* utl_vec.c:1477 "logassert(nxt != 0);": the node to detach is found among
\* the children of its parent.
DetachAssertion == cur # 0 /\ cur # fst => DetachFinds

\* The nodes implement an ordered tree.
Abs == INSTANCE ArbTree WITH
         NodeIds <- 1 .. MaxNodes,
         Data <- Data \cup 0 .. MaxNodes,
         kids <- [n \in TreeNodes |-> Chain(node, node[n].dwn)],
         data <- [n \in TreeNodes |-> node[n].dat],
         root <- fst,
         here <- cur
ImplementsArbTree == Abs!Spec
=============================================================================
