------------------------------ MODULE Dpqsort -------------------------------
(***************************************************************************)
(* utl_dpqsort (utl_vec.c): the dual-pivot quicksort behind vecsort, one   *)
(* action per turn of its loops.  Ranges still to be sorted wait on a      *)
(* stack; short ones are sorted by insertion, the others are split around  *)
(* two pivots taken at random.                                             *)
(*                                                                         *)
(* The comparison function is a rank: cmp(a,b) has the sign of             *)
(* Rank[cmp][a] - Rank[cmp][b], so different elements may compare equal.   *)
(* left, right, L, K and G are the variables of the C function; between    *)
(* two ranges, when their values are dead, they are 0.                     *)
(***************************************************************************)
EXTENDS Integers, Sequences

CONSTANTS
  Elems,   \* the elements
  Cmps,    \* the comparison functions
  NoCmp,   \* no comparison function (NULL)
  Rank,    \* the order each of them gives
  Small    \* right - left of the longest range sorted by insertion (16)

ASSUME RankAssumption == Rank \in [Cmps -> [Elems -> Int]] /\ NoCmp \notin Cmps

ASSUME SmallAssumption == Small \in Nat /\ Small >= 1

VARIABLES
  vec,     \* the storage: a function on 0 .. max - 1
  cnt,     \* number of elements (nel)
  cmp,     \* the comparison function, or NoCmp
  stack,   \* the ranges still to sort, the next one last
  pc,      \* "pop", "insert" or "part"
  left, right, L, K, G

sortvars == << vec, stack, pc, left, right, L, K, G >>

\* cmp(vec[i], vec[j]) > 0
Above(i, j) == Rank[cmp][vec[i]] > Rank[cmp][vec[j]]

Swapped(f, i, j) == [f EXCEPT ![i] = f[j], ![j] = f[i]]

\* The stack is not empty or a range is being worked on.
Sorting == stack # <<>> \/ pc # "pop"

Work(p, lo, hi, l, k, g) ==
  pc' = p /\ left' = lo /\ right' = hi /\ L' = l /\ K' = k /\ G' = g

NextRange == Work("pop", 0, 0, 0, 0, 0)

-----------------------------------------------------------------------------
(* Taking a range from the stack *)

Top == stack[Len(stack)]
Below == SubSeq(stack, 1, Len(stack) - 1)

\* A range of one element or none.
PopSorted ==
  /\ Top[1] >= Top[2]
  /\ NextRange /\ UNCHANGED vec

PopShort ==
  /\ Top[1] < Top[2] /\ Top[2] - Top[1] <= Small
  /\ Work("insert", Top[1], Top[2], 0, Top[1] + 1, 0)
  /\ UNCHANGED vec

\* The two random elements are swapped to the ends, the smaller to the left.
WithPivots(l, r, p, q) ==
  LET ends == Swapped(Swapped(vec, p, l), q, r) IN
  IF Rank[cmp][ends[l]] > Rank[cmp][ends[r]] THEN Swapped(ends, l, r) ELSE ends

PopLong ==
  /\ Top[2] - Top[1] > Small
  /\ \E p, q \in Top[1] .. Top[2] - 1 : vec' = WithPivots(Top[1], Top[2], p, q)
  /\ Work("part", Top[1], Top[2], Top[1] + 1, Top[1] + 1, Top[2] - 1)

Pop ==
  /\ pc = "pop" /\ stack # <<>>
  /\ stack' = Below
  /\ PopSorted \/ PopShort \/ PopLong

-----------------------------------------------------------------------------
(* Insertion sort *)

\* Where element K ends up: it goes down past every element above it.  The
\* code's only limit is the beginning of the storage, not that of the range.
InsertAt == CHOOSE p \in 0 .. K : /\ \A j \in p .. K - 1 : Above(j, K)
                                  /\ p > 0 => ~ Above(p - 1, K)

\* Seeded fault: the loop goes on only after an element that had to move.
InsertWaitsForMove ==
  /\ pc = "insert"
  /\ vec' = [k \in DOMAIN vec |->
               IF k = InsertAt THEN vec[K]
               ELSE IF k > InsertAt /\ k <= K THEN vec[k - 1] ELSE vec[k]]
  /\ IF InsertAt = K THEN Work("insert", left, right, 0, K, 0)
     ELSE IF K < right THEN Work("insert", left, right, 0, K + 1, 0) ELSE NextRange
  /\ UNCHANGED stack

Insert ==
  /\ pc = "insert"
  /\ vec' = [k \in DOMAIN vec |->
               IF k = InsertAt THEN vec[K]
               ELSE IF k > InsertAt /\ k <= K THEN vec[k - 1] ELSE vec[k]]
  /\ IF K < right THEN Work("insert", left, right, 0, K + 1, 0) ELSE NextRange
  /\ UNCHANGED stack

-----------------------------------------------------------------------------
(* Splitting a range: [left+1, L) below the left pivot, [L, K) between the  *)
(* pivots, (G, right-1] above the right pivot, [K, G] not seen yet.         *)

PartLow ==
  /\ Above(left, K)
  /\ vec' = Swapped(vec, K, L)
  /\ Work("part", left, right, L + 1, K + 1, G)

PartMiddle ==
  /\ ~ Above(left, K) /\ ~ Above(K, right)
  /\ Work("part", left, right, L, K + 1, G)
  /\ UNCHANGED vec

\* The inner loop: the last element not above the right pivot, K at worst.
LastNotAbove == CHOOSE g \in K .. G : /\ \A j \in g + 1 .. G : Above(j, right)
                                      /\ g > K => ~ Above(g, right)

\* Seeded fault: what comes from the right end is not compared with the left
\* pivot.
PartHighUnchecked ==
  /\ ~ Above(left, K) /\ Above(K, right)
  /\ vec' = Swapped(vec, K, LastNotAbove)
  /\ Work("part", left, right, L, K + 1, LastNotAbove - 1)

PartHigh ==
  /\ ~ Above(left, K) /\ Above(K, right)
  /\ LET g == LastNotAbove
         v == Swapped(vec, K, g)
         low == Rank[cmp][v[K]] < Rank[cmp][v[left]]
     IN /\ vec' = IF low THEN Swapped(v, K, L) ELSE v
        /\ Work("part", left, right, IF low THEN L + 1 ELSE L, K + 1, g - 1)

Part ==
  /\ pc = "part" /\ K <= G
  /\ PartLow \/ PartMiddle \/ PartHigh
  /\ UNCHANGED stack

\* Seeded fault: the three ranges are pushed the shortest first.
PushedLargestOnTop(l, m, r) ==
  LET len(x) == x[2] - x[1] IN
  IF len(r) > len(m)
  THEN IF len(m) > len(l) THEN << l, m, r >>
       ELSE IF len(l) > len(r) THEN << m, r, l >> ELSE << m, l, r >>
  ELSE IF len(r) > len(l) THEN << l, r, m >>
       ELSE IF len(l) > len(m) THEN << r, m, l >> ELSE << r, l, m >>

\* utl_dpqordrange and the switch: the longest range is pushed first, so that
\* the shortest is sorted next.
Pushed(l, m, r) ==
  LET len(x) == x[2] - x[1] IN
  IF len(r) > len(m)
  THEN IF len(m) > len(l) THEN << r, m, l >>
       ELSE IF len(l) > len(r) THEN << l, r, m >> ELSE << r, l, m >>
  ELSE IF len(r) > len(l) THEN << m, r, l >>
       ELSE IF len(l) > len(m) THEN << l, m, r >> ELSE << m, l, r >>

\* The pivots go between the parts, and the three parts on the stack.
Split ==
  /\ pc = "part" /\ K > G
  /\ vec' = Swapped(Swapped(vec, left, L - 1), right, G + 1)
  /\ stack' = stack \o Pushed(<< left, L - 2 >>, << L, G >>, << G + 2, right >>)
  /\ NextRange

StartSort == stack' = << << 0, cnt - 1 >> >> /\ UNCHANGED << pc, left, right, L, K, G >>

SortStep == Pop \/ Insert \/ Part \/ Split

-----------------------------------------------------------------------------
(* Properties *)

InRange(i, rng) == rng[1] <= i /\ i <= rng[2]

\* The ranges not finished: those on the stack and the one at work.
Open == {stack[k] : k \in 1 .. Len(stack)}
          \cup (IF pc = "pop" THEN {} ELSE {<< left, right >>})

\* While a sort runs, two elements that are not in one unfinished range are
\* already in order: splitting puts every element on its side of the pivots,
\* and sorting one range never disturbs another (insertion has no left limit
\* but the order itself).
RangesInPlace ==
  Sorting =>
    \A i, j \in 0 .. cnt - 1 :
      i < j /\ Above(i, j) => \E rng \in Open : InRange(i, rng) /\ InRange(j, rng)

\* The depth a stack reaches when each range is split in three and the
\* shortest part is always sorted first; n is the number of elements.
DepthFor[n \in Nat] ==
  IF n <= Small + 1 THEN 1
  ELSE LET deepest == {3, 2 + DepthFor[(n - 2) \div 3],
                       1 + DepthFor[(n - 2) \div 2], DepthFor[n - 2]}
       IN CHOOSE d \in deepest : \A x \in deepest : x <= d

\* "Enough for 2^31 max elements in the array" (utl_vec.c:404): the fixed
\* stack[128] is never overrun because the shortest range is sorted first; its
\* depth stays logarithmic in the number of elements.
StackIsShallow == Len(stack) <= DepthFor[cnt]
=============================================================================
