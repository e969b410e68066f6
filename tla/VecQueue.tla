------------------------------ MODULE VecQueue ------------------------------
(***************************************************************************)
(* A vec_t used as a queue (utl_vec.c, "QUEUE" and the iterators): a       *)
(* circular buffer of max slots that grows by half when it is full.        *)
(*                                                                         *)
(* The fields of vec_s keep their names.  `slots' is the storage v->vec    *)
(* seen as a function from positions to values; `ret' is the element the   *)
(* last call returned (Null for a NULL pointer, Wild for a pointer outside *)
(* the storage).  Dequeued values stay in their slots, as in the code, and *)
(* memory that was never written holds Blank.                              *)
(***************************************************************************)
EXTENDS Integers, Sequences

CONSTANTS
  Values,        \* the element values
  Null,          \* a NULL return value
  Wild,          \* the content of memory outside the storage
  Blank,         \* the content of a slot nobody wrote
  vec_MIN_ELEM,  \* slots of a new vector (16 in the code)
  vec_MAX_CNT,   \* the "no position" marker (UINT32_MAX in the code)
  MaxMax         \* bound: no realloc beyond this many slots succeeds

ASSUME MinElemAssumption ==
  /\ vec_MIN_ELEM \in Nat /\ vec_MIN_ELEM >= 2 /\ vec_MIN_ELEM % 2 = 0

ASSUME MaxAssumption ==
  /\ MaxMax \in Nat /\ MaxMax >= vec_MIN_ELEM
  /\ vec_MAX_CNT \in Nat /\ vec_MAX_CNT >= MaxMax + 2

ASSUME MarkerAssumption ==
  /\ Null \notin Values /\ Wild \notin Values /\ Blank \notin Values
  /\ Null # Wild /\ Null # Blank /\ Wild # Blank

VARIABLES
  fst,    \* position of the oldest element
  lst,    \* position the next element goes to; vec_MAX_CNT until the first enq
  cur,    \* position of the iterator
  max,    \* number of slots
  cnt,    \* number of elements
  slots,  \* the storage
  ret     \* what the last call returned

vars == << fst, lst, cur, max, cnt, slots, ret >>

TypeOK ==
  /\ max \in vec_MIN_ELEM .. MaxMax
  /\ fst \in 0 .. max - 1
  /\ lst \in 0 .. max - 1 \cup {vec_MAX_CNT}
  /\ cur \in 0 .. vec_MAX_CNT
  /\ cnt \in 0 .. max
  /\ slots \in [0 .. max - 1 -> Values \cup {Blank}]
  /\ ret \in Values \cup {Null, Wild, Blank}

-----------------------------------------------------------------------------
\* utl_vec_new: storage filled with 0xFF, no queue position yet
Init ==
  /\ fst = 0 /\ lst = vec_MAX_CNT /\ cur = 0 /\ cnt = 0
  /\ max = vec_MIN_ELEM
  /\ slots = [i \in 0 .. vec_MIN_ELEM - 1 |-> Blank]
  /\ ret = Null

\* What a read of position i returns.
At(i) == IF i < max THEN slots[i] ELSE Wild

\* Seeded fault: the wrap-around test is off by one.
AfterOffByOne(i) == IF i + 1 > max THEN 0 ELSE i + 1

\* A position one step on, around the end of the storage.
After(i) == IF i + 1 >= max THEN 0 ELSE i + 1

\* Seeded fault: the new size is not rounded.
NewMaxUnrounded(m) == m + (m \div 2)

\* Half as much again, rounded up to an even number.
NewMax(m) == LET half == m + (m \div 2) IN half + (half % 2)

\* Where the live elements of a full queue go in the larger storage: which
\* end is moved, and to where (utl_que_makeroom's three cases).
HeadFits == fst < max \div 2
MovedFrom == IF HeadFits THEN 0 ELSE fst
MovedTo == IF HeadFits THEN max ELSE NewMax(max) - (max - fst)
MovedLen == IF HeadFits THEN fst ELSE max - fst

\* Seeded fault: realloc alone, nothing is moved.
GrownUnmoved ==
  [i \in 0 .. NewMax(max) - 1 |-> IF i < max THEN slots[i] ELSE Blank]

Grown ==
  [i \in 0 .. NewMax(max) - 1 |->
     IF i >= MovedTo /\ i < MovedTo + MovedLen
     THEN slots[MovedFrom + (i - MovedTo)]
     ELSE IF i < max THEN slots[i] ELSE Blank]

-----------------------------------------------------------------------------
\* utl_vec_enq stores e at position p and moves the tail on.
Put(e, p, m, s) ==
  /\ slots' = [s EXCEPT ![p] = e]
  /\ lst' = IF p + 1 >= m THEN 0 ELSE p + 1
  /\ max' = m
  /\ cnt' = cnt + 1
  /\ ret' = e

\* A queue that was never used starts at position 0.
Tail0 == IF lst = vec_MAX_CNT THEN 0 ELSE lst

EnqRoom(e) ==
  /\ cnt < max
  /\ Put(e, Tail0, max, slots)
  /\ UNCHANGED << fst, cur >>

\* Seeded fault: the tail stays where it was when the head part was moved.
EnqGrowOldTail(e) ==
  /\ cnt >= max
  /\ NewMax(max) <= MaxMax
  /\ Put(e, Tail0, NewMax(max), Grown)
  /\ fst' = IF HeadFits THEN fst ELSE MovedTo
  /\ UNCHANGED cur

\* The queue is full and realloc gives the larger storage.
EnqGrow(e) ==
  /\ cnt >= max
  /\ NewMax(max) <= MaxMax
  /\ Put(e, IF HeadFits THEN max + fst ELSE Tail0, NewMax(max), Grown)
  /\ fst' = IF HeadFits THEN fst ELSE MovedTo
  /\ UNCHANGED cur

\* The queue is full and realloc fails: the caller gets NULL.
EnqFail ==
  /\ cnt >= max
  /\ lst' = Tail0
  /\ ret' = Null
  /\ UNCHANGED << fst, cur, max, cnt, slots >>

Enq(e) == EnqRoom(e) \/ EnqGrow(e) \/ EnqFail

\* Seeded fault: an emptied queue resets its head only.
DeqHeadReset ==
  LET left == IF cnt > 0 THEN cnt - 1 ELSE 0 IN
  /\ cnt' = left
  /\ fst' = IF left = 0 THEN 0 ELSE After(fst)
  /\ ret' = Null
  /\ UNCHANGED << lst, cur, max, slots >>

\* utl_vec_deq: an emptied queue starts over at position 0.
Deq ==
  LET left == IF cnt > 0 THEN cnt - 1 ELSE 0 IN
  /\ cnt' = left
  /\ fst' = IF left = 0 THEN 0 ELSE After(fst)
  /\ lst' = IF left = 0 THEN 0 ELSE lst
  /\ ret' = Null
  /\ UNCHANGED << cur, max, slots >>

\* utl_vec_deq_all
DeqAll ==
  /\ cnt' = 0 /\ fst' = 0 /\ lst' = 0
  /\ ret' = Null
  /\ UNCHANGED << cur, max, slots >>

-----------------------------------------------------------------------------
(* The iterators.  They change only the cursor. *)

\* The cursor moves to position p, whose content is returned.
Visit(p) == cur' = p /\ ret' = At(p)
EndAt(p) == cur' = p /\ ret' = Null

First ==
  /\ IF cnt = 0 THEN EndAt(vec_MAX_CNT) ELSE Visit(fst)
  /\ UNCHANGED << fst, lst, max, cnt, slots >>

\* lst - 1 is an unsigned subtraction: when the tail has just wrapped to 0 it
\* gives a position beyond every slot.
Last ==
  /\ IF cnt = 0 THEN EndAt(vec_MAX_CNT)
     ELSE Visit(IF lst = 0 THEN vec_MAX_CNT - 1 ELSE lst - 1)
  /\ UNCHANGED << fst, lst, max, cnt, slots >>

\* Seeded fault: the tail is compared before the cursor wraps around.
NextElmLateWrap ==
  /\ IF cnt = 0 \/ cur = lst \/ cur = vec_MAX_CNT THEN EndAt(vec_MAX_CNT)
     ELSE IF lst # vec_MAX_CNT /\ cur + 1 = lst THEN EndAt(max)
     ELSE Visit(After(cur))
  /\ UNCHANGED << fst, lst, max, cnt, slots >>

NextElm ==
  /\ IF cnt = 0 \/ cur = lst \/ cur = vec_MAX_CNT THEN EndAt(vec_MAX_CNT)
     ELSE IF lst # vec_MAX_CNT /\ After(cur) = lst THEN EndAt(max)
     ELSE Visit(After(cur))
  /\ UNCHANGED << fst, lst, max, cnt, slots >>

PrevElm ==
  /\ IF cnt = 0 \/ cur \in {fst, 0, vec_MAX_CNT} THEN EndAt(vec_MAX_CNT)
     ELSE Visit(cur - 1)
  /\ UNCHANGED << fst, lst, max, cnt, slots >>

Next ==
  \/ \E e \in Values : Enq(e)
  \/ Deq
  \/ DeqAll
  \/ First
  \/ Last
  \/ NextElm
  \/ PrevElm

Spec == Init /\ [][Next]_vars

-----------------------------------------------------------------------------
(* Properties *)

\* The position of the k-th oldest element, counting from 0.
Pos(k) == IF fst + k >= max THEN fst + k - max ELSE fst + k

\* The values held, oldest first.
Contents == [k \in 1 .. cnt |-> slots[Pos(k - 1)]]

\* The queue's three counters agree: the tail is cnt positions after the head,
\* around the storage, whatever mixture of growth, wrapping and emptying led
\* here.  (cnt is kept separately from fst and lst by every operation.)
TailFollowsHead ==
  IF lst = vec_MAX_CNT THEN cnt = 0 /\ fst = 0
  ELSE lst = IF fst + cnt >= max THEN fst + cnt - max ELSE fst + cnt

\* Every position between head and tail was written by an enq: no element is
\* memory that a growth left uninitialised.
NoBlankElement == \A k \in 0 .. cnt - 1 : slots[Pos(k)] \in Values

\* The memcpy calls of que_makeroom never overlap and stay in the new storage:
\* a memcpy on overlapping ranges is undefined behaviour.
GrowthMoveIsLegal ==
  cnt >= max => /\ MovedTo >= MovedFrom + MovedLen
                /\ MovedTo + MovedLen <= NewMax(max)

\* Iterating with vecfirst/vecnext visits the elements in FIFO order: from the
\* k-th oldest element of a queue that is not full, vecnext returns the next
\* oldest, or NULL after the newest, across the end of the storage too.
NextVisitsInOrder ==
  [][\A k \in 0 .. cnt - 1 :
       NextElm /\ cnt < max /\ cur = Pos(k) =>
         IF k = cnt - 1 THEN ret' = Null
         ELSE cur' = Pos(k + 1) /\ ret' = Contents[k + 2]]_vars

\* The code implements the abstract queue: an enq that finds memory appends, a
\* deq drops the oldest value, and growth, failed growth and iteration leave
\* the values and their order alone.
Abs == INSTANCE Fifo WITH queue <- Contents
ImplementsFifo == Abs!Spec

\* test/ut_vec3.c:93 expects veclastptr to be the value enqueued last.
LastIsNewest == [][Last /\ cnt > 0 => ret' = Contents[cnt]]_vars
=============================================================================
