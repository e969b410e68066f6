-------------------------------- MODULE Vec ---------------------------------
(***************************************************************************)
(* A vec_t used as an array, a stack and a sorted set (utl_vec.c).  Calls  *)
(* that need the order (vecsort, vecsearch, vecadd and vecremove on a      *)
(* vector with a comparison function) first run the sort of Dpqsort.tla    *)
(* when the SORTED flag is not set; the other calls take one step.         *)
(*                                                                         *)
(* cnt, max, cmp and vec keep the names of vec_s, `srt' is the SORTED bit  *)
(* of flg, `call' the call that is being executed, `ret' the position the  *)
(* last search, add or remove found (None for NULL).                       *)
(***************************************************************************)
EXTENDS Dpqsort

CONSTANTS
  vec_MIN_ELEM,  \* slots of a new vector (16 in the code)
  MaxMax,        \* bound: no realloc beyond this many slots succeeds
  Hole,          \* bound: how far past the end vecset and vecins write
  Args,          \* bound: the elements vecsearch, vecadd and vecremove get
  Fill,          \* the element with every byte 0xFF
  None           \* no call, no position

ASSUME SizeAssumption ==
  /\ vec_MIN_ELEM \in Nat /\ vec_MIN_ELEM >= 2 /\ vec_MIN_ELEM % 2 = 0
  /\ MaxMax \in Nat /\ MaxMax >= vec_MIN_ELEM
  /\ Hole \in Nat /\ Args \subseteq Elems /\ Fill \in Elems /\ None \notin Nat

VARIABLES max, srt, call, ret

vars == << sortvars, cnt, cmp, max, srt, call, ret >>

Running == [op : {"sort"}, arg : {None}] \cup [op : {"search", "add", "remove"}, arg : Args]

ASSUME NoneAssumption == None \notin Running

TypeOK ==
  /\ max \in vec_MIN_ELEM .. MaxMax /\ cnt \in 0 .. max
  /\ vec \in [0 .. max - 1 -> Elems]
  /\ cmp \in Cmps \cup {NoCmp} /\ srt \in BOOLEAN
  /\ call \in Running \cup {None} /\ ret \in 0 .. max - 1 \cup {None}
  /\ \A k \in 1 .. Len(stack) :
       stack[k][1] \in 0 .. cnt + 1 /\ stack[k][2] \in -2 .. cnt - 1
  /\ pc \in {"pop", "insert", "part"}
  /\ pc # "pop" => /\ 0 <= left /\ left < right /\ right < cnt
                   /\ K \in left + 1 .. right
  /\ pc = "part" => /\ left < L /\ L <= K /\ K <= G + 2
                    /\ L - 1 <= G /\ G < right

Init ==
  /\ vec = [i \in 0 .. vec_MIN_ELEM - 1 |-> Fill]
  /\ cnt = 0 /\ max = vec_MIN_ELEM
  /\ cmp \in Cmps \cup {NoCmp} /\ srt = FALSE
  /\ stack = <<>> /\ pc = "pop"
  /\ left = 0 /\ right = 0 /\ L = 0 /\ K = 0 /\ G = 0
  /\ call = None /\ ret = None

-----------------------------------------------------------------------------
(* Storage *)

NewMax(m) == LET half == m + (m \div 2) IN half + (half % 2)

\* The loop of utl_vec_makeroom(v,n) on a storage of m slots
Grown(m, n) ==
  LET grow[s \in Nat] == IF s > n THEN s ELSE grow[NewMax(s)] IN grow[m]

\* Seeded fault: a storage with exactly n slots is taken to have a slot n.
RoomLate(m, n) ==
  IF n <= m THEN {m} ELSE {0} \cup {s \in {Grown(m, n)} : s <= MaxMax}

\* The sizes utl_vec_makeroom(v,n) can leave: the size it has when that is
\* enough, a larger one, or 0 when realloc fails.
Room(m, n) ==
  IF n < m THEN {m} ELSE {0} \cup {s \in {Grown(m, n)} : s <= MaxMax}

\* The storage with m slots; the new ones hold what realloc finds there
\* (one element g for all of them).
Resized(m, g) == [i \in 0 .. m - 1 |-> IF i < max THEN vec[i] ELSE g]

\* Seeded fault: the gap is opened one element late.
GapLate(f, i) == [k \in DOMAIN f |-> IF k > i + 1 /\ k <= cnt THEN f[k - 1] ELSE f[k]]

\* utl_vec_makegap's memmove
Gap(f, i) == [k \in DOMAIN f |-> IF k > i /\ k <= cnt THEN f[k - 1] ELSE f[k]]

\* utl_vec_delgap's memmove
Closed(i, n) ==
  [k \in DOMAIN vec |-> IF k >= i /\ k < cnt - n THEN vec[k + n] ELSE vec[k]]

Larger(a, b) == IF a < b THEN b ELSE a

-----------------------------------------------------------------------------
(* Array and stack calls: one step, while no other call is executed. *)

Idle == call = None
NoSort == UNCHANGED << stack, pc, left, right, L, K, G >>

\* What realloc may leave in the new slots of a storage of m slots.
Garbage(m) == IF m > max THEN Elems ELSE {Fill}

\* utl_vec_set: past the end of the elements the count jumps to i + 1.
SetAt(i, e) ==
  \E m \in Room(max, i) : \E g \in Garbage(m) :
    IF m = 0 THEN UNCHANGED << vec, cnt, max, srt >>
    ELSE /\ vec' = [Resized(m, g) EXCEPT ![i] = e]
         /\ max' = m /\ cnt' = Larger(cnt, i + 1) /\ srt' = FALSE

Set(i, e) ==
  /\ Idle /\ SetAt(i, e) /\ ret' = None
  /\ NoSort /\ UNCHANGED << cmp, call >>

\* utl_vec_alloc: as vecset, but the element is left as it is.
Alloc(i) ==
  /\ Idle
  /\ \E m \in Room(max, i) : \E g \in Garbage(m) :
       IF m = 0 THEN UNCHANGED << vec, cnt, max, srt >>
       ELSE /\ vec' = Resized(m, g)
            /\ max' = m /\ cnt' = Larger(cnt, i + 1) /\ srt' = FALSE
  /\ ret' = None
  /\ NoSort /\ UNCHANGED << cmp, call >>

\* utl_vec_ins (vecpush inserts at cnt): room for the gap, then vecset, whose own
\* makeroom matters when i is past the end and may fail after the first has
\* grown the storage.
InsAt(i, e) ==
  /\ srt' = FALSE
  /\ \E m \in Room(max, cnt + 1) :
       IF m = 0 THEN UNCHANGED << vec, cnt, max >> /\ ret' = None
       ELSE \E n \in Room(m, i) :
              IF n = 0
              THEN /\ \E g \in Garbage(m) : vec' = Resized(m, g)
                   /\ max' = m /\ ret' = None /\ UNCHANGED cnt
              ELSE /\ \E g \in Garbage(n) : vec' = [Gap(Resized(n, g), i) EXCEPT ![i] = e]
                   /\ cnt' = IF i < cnt THEN cnt + 1 ELSE i + 1
                   /\ max' = n /\ ret' = i

Ins(i, e) == Idle /\ InsAt(i, e) /\ NoSort /\ UNCHANGED << cmp, call >>

\* utl_vec_delrange (vecdel is the range from i to i): the flag stays.
DelRangeAt(i, j) ==
  /\ vec' = IF i < cnt /\ j + 1 < cnt THEN Closed(i, j - i + 1) ELSE vec
  /\ cnt' = IF i >= cnt THEN cnt ELSE IF j + 1 >= cnt THEN i ELSE cnt - (j - i + 1)

DelRange(i, j) ==
  /\ Idle /\ i <= j
  /\ DelRangeAt(i, j)
  /\ NoSort /\ UNCHANGED << cmp, max, srt, call >> /\ ret' = None

\* vecdrop(v,n), and vecdropall or vecclear for the largest n
Drop(n) ==
  /\ Idle
  /\ cnt' = IF cnt > n THEN cnt - n ELSE 0
  /\ NoSort /\ UNCHANGED << vec, cmp, max, srt, call >> /\ ret' = None

-----------------------------------------------------------------------------
(* Calls that sort first *)

\* Seeded fault: setting another comparison function leaves the flag alone.
UseCmpKeepFlag(c) == cmp' = c /\ UNCHANGED srt

\* utl_vec_sort with a comparison function of its own
UseCmp(c) == cmp' = c /\ srt' = (srt /\ c = cmp)

\* The call begins: the sort is entered unless the flag says it is sorted.
Enter(c) ==
  /\ Idle /\ call' = c /\ ret' = None
  /\ IF srt' \/ cnt <= 1 THEN NoSort ELSE StartSort
  /\ UNCHANGED << vec, cnt, max >>

\* vecsort(v) keeps the comparison function of the vector: nothing is sorted
\* when there is none.
Sort ==
  /\ cmp # NoCmp /\ UNCHANGED << cmp, srt >>
  /\ Enter([op |-> "sort", arg |-> None])

SortBy(c) == UseCmp(c) /\ Enter([op |-> "sort", arg |-> None])

\* vecsort(v, NULL): the vector has no order any more.
DropCmp ==
  /\ Idle /\ cmp' = NoCmp /\ srt' = FALSE /\ ret' = None
  /\ NoSort /\ UNCHANGED << vec, cnt, max, call >>

\* vecsearch, vecremove and vecadd on an ordered vector that is not empty
\* (without elements or order, the first two return at once and vecadd is
\* utl_vec_set at the end).
Lookup(op, e) ==
  /\ cmp # NoCmp /\ cnt > 0 /\ UNCHANGED << cmp, srt >>
  /\ Enter([op |-> op, arg |-> e])

AddUnordered(e) ==
  /\ cmp = NoCmp \/ cnt = 0
  /\ Set(cnt, e)

\* One turn of the sort's loops.
SortTurn == ~ Idle /\ SortStep /\ UNCHANGED << cnt, cmp, max, srt, call, ret >>

\* The binary search of utl_vec_add_sorted and utl_vec_search_sorted.  A turn of
\* its loop halves the range lo .. hi; it is over when the range is empty or
\* its middle is equal to e.
Mid(r) == r.lo + ((r.hi - r.lo) \div 2)

\* Seeded fault: the two arguments of cmp are swapped.
OrderSwapped(e, i) == Rank[cmp][vec[i]] - Rank[cmp][e]

Order(e, i) == Rank[cmp][e] - Rank[cmp][vec[i]]
Over(e, r) == r.lo > r.hi \/ Order(e, Mid(r)) = 0

Halved(e, r) ==
  IF Order(e, Mid(r)) < 0 THEN [r EXCEPT !.hi = Mid(r) - 1] ELSE [r EXCEPT !.lo = Mid(r) + 1]

Ranges == [lo : 0 .. cnt, hi : -1 .. cnt - 1]

LastRange(e) ==
  LET search[r \in Ranges] == IF Over(e, r) THEN r ELSE search[Halved(e, r)]
  IN search[[lo |-> 0, hi |-> cnt - 1]]

\* An equal element was met, at Mid(r); otherwise r.lo is where to insert.
Found(r) == r.lo <= r.hi

\* The sort is done: vecsorted(v), then the rest of the call.
Resume(op) ==
  /\ ~ Idle /\ call.op = op /\ ~ Sorting
  /\ call' = None
  /\ NoSort /\ UNCHANGED cmp

ReturnSort == Resume("sort") /\ srt' = TRUE /\ UNCHANGED << vec, cnt, max, ret >>

ReturnSearch ==
  /\ Resume("search") /\ srt' = TRUE
  /\ LET r == LastRange(call.arg) IN ret' = IF Found(r) THEN Mid(r) ELSE None
  /\ UNCHANGED << vec, cnt, max >>

\* An equal element is overwritten; a new one is inserted in its place, which
\* clears the flag.
ReturnAdd ==
  /\ Resume("add")
  /\ LET r == LastRange(call.arg) IN
     IF Found(r) THEN /\ vec' = [vec EXCEPT ![Mid(r)] = call.arg]
                      /\ srt' = TRUE /\ ret' = Mid(r) /\ UNCHANGED << cnt, max >>
     ELSE InsAt(r.lo, call.arg)

ReturnRemove ==
  /\ Resume("remove") /\ srt' = TRUE
  /\ LET r == LastRange(call.arg) IN
     IF Found(r) THEN DelRangeAt(Mid(r), Mid(r)) /\ ret' = Mid(r)
     ELSE UNCHANGED << vec, cnt, ret >>
  /\ UNCHANGED max

Return == ReturnSort \/ ReturnSearch \/ ReturnAdd \/ ReturnRemove

Next ==
  \/ \E i \in 0 .. cnt + Hole : \E e \in Elems : Set(i, e) \/ Ins(i, e)
  \/ \E i \in 0 .. cnt + Hole : Alloc(i)
  \/ \E n \in 1 .. cnt : Drop(n)
  \/ \E i, j \in 0 .. cnt : DelRange(i, j)
  \/ \E e \in Args : AddUnordered(e)
  \/ Sort
  \/ \E c \in Cmps : SortBy(c)
  \/ DropCmp
  \/ \E op \in {"search", "add", "remove"}, e \in Args : Lookup(op, e)
  \/ SortTurn
  \/ Return

\* A call that is executed goes on to its end: the library does not block.
Spec == Init /\ [][Next]_vars /\ WF_vars(SortTurn) /\ WF_vars(Return)

-----------------------------------------------------------------------------
(* Properties *)

Ordered == \A i, j \in 0 .. cnt - 1 : i < j => ~ Above(i, j)

\* The SORTED flag tells the truth: no call that can disturb the order, or
\* that changes what the order is, leaves it set.  Every later search trusts
\* it without looking.
FlagTellsTheTruth == srt => cmp # NoCmp /\ Ordered

Equal(i, e) == Rank[cmp][vec[i]] = Rank[cmp][e]
Has(e) == \E i \in 0 .. cnt - 1 : Equal(i, e)

\* What becomes of the elements: all stay, e is in the place of element i, e has
\* come in before it, or it is gone.
AllStay == cnt' = cnt /\ \A k \in 0 .. cnt - 1 : vec'[k] = vec[k]
InPlaceOf(i, e) == cnt' = cnt /\ \A k \in 0 .. cnt - 1 : vec'[k] = IF k = i THEN e ELSE vec[k]
InBefore(i, e) ==
  cnt' = cnt + 1 /\ \A k \in 0 .. cnt :
    vec'[k] = IF k < i THEN vec[k] ELSE IF k = i THEN e ELSE vec[k - 1]
Gone(i) ==
  cnt' = cnt - 1 /\ \A k \in 0 .. cnt - 2 : vec'[k] = IF k < i THEN vec[k] ELSE vec[k + 1]

\* The set calls do what a set does, whatever was done to the vector since it
\* was last sorted: vecsearch finds an element equal to the one asked for exactly
\* when there is one; vecadd overwrites one equal element, or inserts the new one
\* where it belongs (or the storage could not grow); vecremove takes one equal
\* element away; and all other elements stay as they are, in their order.
RightAnswer ==
  LET e == call.arg IN
  /\ ReturnSearch =>
       /\ AllStay
       /\ IF Has(e) THEN ret' \in 0 .. cnt - 1 /\ Equal(ret', e) ELSE ret' = None
  /\ ReturnAdd =>
       IF Has(e) THEN \E i \in 0 .. cnt - 1 : Equal(i, e) /\ InPlaceOf(i, e)
       ELSE IF ret' = None THEN AllStay
       ELSE Ordered' /\ \E i \in 0 .. cnt : InBefore(i, e)
  /\ ReturnRemove =>
       IF Has(e) THEN \E i \in 0 .. cnt - 1 : Equal(i, e) /\ Gone(i) ELSE AllStay

SetCallsAreRight == [][RightAnswer]_vars

\* Every call that was begun returns: the sort ends whatever pivots the random
\* numbers give.
EveryCallReturns == call # None ~> call = None

\* The code implements the list: growth, gaps, deletions and every single step
\* of the sort keep the elements that the call is not about.
Contents == [k \in 1 .. cnt |-> vec[k - 1]]
Abs == INSTANCE List WITH list <- Contents
ImplementsList == Abs!Spec
=============================================================================
