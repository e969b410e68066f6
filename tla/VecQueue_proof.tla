--------------------------- MODULE VecQueue_proof ---------------------------
(***************************************************************************)
(* Proofs about VecQueue, for every storage size and every set of values.  *)
(***************************************************************************)
EXTENDS VecQueue, SequenceTheorems, TLAPS

(***************************************************************************)
(* The inductive invariant.  TailFollowsHead alone is not inductive: that  *)
(* growth copies the right range needs the storage size to be even, and    *)
(* NoBlankElement needs to know where the tail is.                         *)
(***************************************************************************)
EvenMax == max % 2 = 0

IInv == TypeOK /\ EvenMax /\ TailFollowsHead /\ NoBlankElement

-----------------------------------------------------------------------------
(* An even size grows to an even size, by at least half of itself. *)
LEMMA NewMaxFacts ==
  ASSUME NEW m \in Nat, m >= 2, m % 2 = 0
  PROVE  /\ NewMax(m) \in Nat
         /\ NewMax(m) % 2 = 0
         /\ NewMax(m) >= m + (m \div 2)
         /\ m \div 2 \in Nat
         /\ m = 2 * (m \div 2)
BY DEF NewMax

(* The range a growth moves lies in the old storage, and its destination   *)
(* in the memory the growth adds.                                          *)
LEMMA MoveFacts ==
  ASSUME TypeOK, EvenMax
  PROVE  /\ NewMax(max) \in Nat /\ NewMax(max) % 2 = 0
         /\ NewMax(max) > max
         /\ MovedFrom \in Nat /\ MovedTo \in Nat /\ MovedLen \in Nat
         /\ MovedFrom + MovedLen <= max
         /\ MovedTo >= max
         /\ MovedTo + MovedLen <= NewMax(max)
         /\ HeadFits => max + fst < NewMax(max)
<1>1. max \in Nat /\ max >= 2 /\ fst \in Nat /\ fst < max
  BY MinElemAssumption, MaxAssumption DEF TypeOK
<1>2. /\ NewMax(max) \in Nat /\ NewMax(max) % 2 = 0
      /\ NewMax(max) >= max + (max \div 2)
      /\ max \div 2 \in Nat
      /\ max = 2 * (max \div 2)
  BY <1>1, NewMaxFacts DEF EvenMax
<1> DEFINE n == NewMax(max)
           h == max \div 2
<1>3. n \in Nat /\ h \in Nat /\ n >= max + h /\ max = 2 * h /\ h >= 1
  BY <1>1, <1>2
<1> HIDE DEF n, h
<1>4. CASE fst < h
  BY <1>1, <1>2, <1>3, <1>4 DEF n, h, MovedFrom, MovedTo, MovedLen, HeadFits
<1>5. CASE ~(fst < h)
  <2>1. /\ MovedFrom = fst /\ MovedTo = n - (max - fst) /\ MovedLen = max - fst
    BY <1>5 DEF n, h, MovedFrom, MovedTo, MovedLen, HeadFits
  <2>2. ~HeadFits
    BY <1>5 DEF h, HeadFits
  <2>3. n - (max - fst) >= max
    BY <1>1, <1>3, <1>5
  <2> QED
    BY <1>1, <1>2, <1>3, <2>1, <2>2, <2>3 DEF n
<1> QED
  BY <1>4, <1>5

(* What a growth leaves in the storage: the old slots stay, and the moved   *)
(* range is also found at its destination.                                  *)
LEMMA GrownFacts ==
  ASSUME TypeOK, EvenMax
  PROVE  /\ Grown \in [0 .. NewMax(max) - 1 -> Values \cup {Blank}]
         /\ \A j \in 0 .. max - 1 : Grown[j] = slots[j]
         /\ \A j \in 0 .. MovedLen - 1 : Grown[MovedTo + j] = slots[MovedFrom + j]
<1>1. max \in Nat /\ slots \in [0 .. max - 1 -> Values \cup {Blank}]
  BY MinElemAssumption, MaxAssumption DEF TypeOK
<1>2. /\ NewMax(max) \in Nat /\ NewMax(max) > max
      /\ MovedFrom \in Nat /\ MovedTo \in Nat /\ MovedLen \in Nat
      /\ MovedFrom + MovedLen <= max
      /\ MovedTo >= max
      /\ MovedTo + MovedLen <= NewMax(max)
  BY MoveFacts
<1>3. ASSUME NEW i \in 0 .. NewMax(max) - 1
      PROVE  Grown[i] \in Values \cup {Blank}
  <2>1. CASE i >= MovedTo /\ i < MovedTo + MovedLen
    BY <1>1, <1>2, <2>1, MovedFrom + (i - MovedTo) \in 0 .. max - 1 DEF Grown
  <2>2. CASE ~(i >= MovedTo /\ i < MovedTo + MovedLen)
    BY <1>1, <1>2, <2>2 DEF Grown
  <2> QED
    BY <2>1, <2>2
<1>4. Grown \in [0 .. NewMax(max) - 1 -> Values \cup {Blank}]
  BY <1>3 DEF Grown
<1>5. ASSUME NEW j \in 0 .. max - 1 PROVE Grown[j] = slots[j]
  BY <1>1, <1>2 DEF Grown
<1>6. ASSUME NEW j \in 0 .. MovedLen - 1
      PROVE  Grown[MovedTo + j] = slots[MovedFrom + j]
  <2>1. /\ MovedTo + j \in 0 .. NewMax(max) - 1
        /\ MovedTo + j >= MovedTo /\ MovedTo + j < MovedTo + MovedLen
        /\ MovedFrom + ((MovedTo + j) - MovedTo) = MovedFrom + j
    BY <1>1, <1>2
  <2> QED
    BY <2>1 DEF Grown
<1> QED
  BY <1>4, <1>5, <1>6

(* Positions of live elements are positions of the storage.                 *)
LEMMA PosFacts ==
  ASSUME TypeOK, NEW k \in 0 .. max - 1
  PROVE  Pos(k) \in 0 .. max - 1
BY MinElemAssumption, MaxAssumption DEF TypeOK, Pos

LEMMA PosDistinct ==
  ASSUME TypeOK, NEW k \in 0 .. max - 1, NEW j \in 0 .. max - 1, k # j
  PROVE  Pos(k) # Pos(j)
BY MinElemAssumption, MaxAssumption DEF TypeOK, Pos

(* The two ways an enq succeeds have the same effect on what is held.       *)
Appended(e) ==
  /\ cnt' = cnt + 1
  /\ \A k \in 0 .. cnt :
       slots'[Pos(k)'] = IF k = cnt THEN e ELSE slots[Pos(k)]

LEMMA EnqRoomAppends ==
  ASSUME IInv, NEW e \in Values, EnqRoom(e)
  PROVE  IInv' /\ Appended(e)
<1> USE DEF IInv
<1>1. /\ max \in Nat /\ max >= 2 /\ fst \in 0 .. max - 1 /\ cnt \in 0 .. max - 1
      /\ vec_MAX_CNT \in Nat /\ vec_MAX_CNT >= max + 2
      /\ slots \in [0 .. max - 1 -> Values \cup {Blank}]
  BY MinElemAssumption, MaxAssumption DEF TypeOK, EnqRoom
<1>2. Tail0 = Pos(cnt) /\ Pos(cnt) \in 0 .. max - 1
  BY <1>1, PosFacts DEF Tail0, TailFollowsHead, Pos, TypeOK
<1>3. /\ fst' = fst /\ cur' = cur /\ max' = max /\ cnt' = cnt + 1 /\ ret' = e
      /\ slots' = [slots EXCEPT ![Pos(cnt)] = e]
      /\ lst' = IF Pos(cnt) + 1 >= max THEN 0 ELSE Pos(cnt) + 1
  BY <1>2 DEF EnqRoom, Put
<1>4. \A k \in 0 .. max - 1 : Pos(k)' = Pos(k)
  BY <1>3 DEF Pos
<1>5. ASSUME NEW k \in 0 .. cnt
      PROVE  slots'[Pos(k)'] = IF k = cnt THEN e ELSE slots[Pos(k)]
  BY <1>1, <1>2, <1>3, <1>4, PosFacts, PosDistinct
<1>7. TypeOK'
  <2>1. slots' \in [0 .. max - 1 -> Values \cup {Blank}]
    BY <1>1, <1>2, <1>3
  <2>2. lst' \in 0 .. max - 1
    BY <1>1, <1>2, <1>3
  <2> QED
    BY <1>1, <1>3, <2>1, <2>2 DEF TypeOK
<1>8. TailFollowsHead'
  BY <1>1, <1>2, <1>3 DEF TailFollowsHead, Pos
<1>9. NoBlankElement'
  <2> SUFFICES ASSUME NEW k \in 0 .. cnt PROVE slots'[Pos(k)'] \in Values
    BY <1>1, <1>3 DEF NoBlankElement
  <2>1. CASE k = cnt
    BY <2>1, <1>5
  <2>2. CASE k # cnt
    BY <2>2, <1>1, <1>5 DEF NoBlankElement
  <2> QED
    BY <2>1, <2>2
<1> QED
  BY <1>3, <1>5, <1>7, <1>8, <1>9 DEF EvenMax, Appended

LEMMA EnqGrowAppends ==
  ASSUME IInv, NEW e \in Values, EnqGrow(e)
  PROVE  IInv' /\ Appended(e)
<1> USE DEF IInv
<1> DEFINE N == NewMax(max)
           p == IF HeadFits THEN max + fst ELSE fst
           old == Values \cup {Blank}
<1>1. /\ max \in Nat /\ max >= 2 /\ fst \in 0 .. max - 1 /\ cnt = max
      /\ vec_MAX_CNT \in Nat /\ vec_MAX_CNT >= N + 2 /\ N <= MaxMax
      /\ slots \in [0 .. max - 1 -> old]
  BY MinElemAssumption, MaxAssumption, MoveFacts DEF TypeOK, EnqGrow
<1>2. lst = fst
  BY <1>1 DEF TailFollowsHead, TypeOK
<1>3. /\ N \in Nat /\ N % 2 = 0 /\ N > max
      /\ MovedFrom \in Nat /\ MovedTo \in Nat /\ MovedLen \in Nat
      /\ MovedFrom + MovedLen <= max
      /\ MovedTo >= max
      /\ MovedTo + MovedLen <= N
      /\ HeadFits => max + fst < N
  BY MoveFacts
<1>4. /\ Grown \in [0 .. N - 1 -> old]
      /\ \A j \in 0 .. max - 1 : Grown[j] = slots[j]
      /\ \A j \in 0 .. MovedLen - 1 : Grown[MovedTo + j] = slots[MovedFrom + j]
  BY GrownFacts
<1>5. p \in 0 .. N - 1
  BY <1>1, <1>3
<1>6. /\ cur' = cur /\ max' = N /\ cnt' = max + 1 /\ ret' = e
      /\ slots' = [Grown EXCEPT ![p] = e]
      /\ lst' = IF p + 1 >= N THEN 0 ELSE p + 1
      /\ fst' = IF HeadFits THEN fst ELSE MovedTo
  <2>1. Tail0 = fst
    BY <1>1, <1>2, <1>3 DEF Tail0
  <2>2. Put(e, p, N, Grown) /\ cur' = cur /\ fst' = IF HeadFits THEN fst ELSE MovedTo
    BY <2>1 DEF EnqGrow
  <2> HIDE DEF N, p
  <2> QED
    BY <1>1, <2>2 DEF Put
<1> HIDE DEF N, p, old
<1>7. ASSUME NEW k \in 0 .. max
      PROVE  /\ Pos(k)' \in 0 .. N - 1
             /\ slots'[Pos(k)'] = IF k = max THEN e ELSE slots[Pos(k)]
  <2>1. CASE HeadFits
    <3>1. MovedFrom = 0 /\ MovedTo = max /\ MovedLen = fst /\ p = max + fst
      BY <2>1 DEF MovedFrom, MovedTo, MovedLen, p
    <3>2. Pos(k)' = fst + k /\ fst + k \in 0 .. N - 1
      BY <1>1, <1>3, <1>6, <2>1 DEF Pos
    <3>3. CASE k = max
      BY <1>1, <1>4, <1>5, <1>6, <3>1, <3>2, <3>3
    <3>4. CASE k # max /\ fst + k < max
      <4>1. Pos(k) = fst + k /\ fst + k \in 0 .. max - 1 /\ fst + k # p
        BY <1>1, <3>1, <3>4 DEF Pos
      <4> QED
        BY <1>1, <1>4, <1>5, <1>6, <3>2, <3>4, <4>1
    <3>5. CASE k # max /\ fst + k >= max
      <4>1. /\ Pos(k) = fst + k - max /\ fst + k - max \in 0 .. fst - 1
            /\ fst + k # p
        BY <1>1, <3>1, <3>5 DEF Pos
      <4>2. Grown[fst + k] = slots[Pos(k)]
        <5>1. Grown[MovedTo + (fst + k - max)] = slots[MovedFrom + (fst + k - max)]
          BY <1>4, <3>1, <4>1
        <5>2. /\ MovedTo + (fst + k - max) = fst + k
              /\ MovedFrom + (fst + k - max) = Pos(k)
          BY <1>1, <3>1, <4>1
        <5> QED
          BY <5>1, <5>2
      <4> QED
        BY <1>1, <1>4, <1>5, <1>6, <3>2, <3>5, <4>1, <4>2
    <3> QED
      BY <1>1, <3>3, <3>4, <3>5
  <2>2. CASE ~HeadFits
    <3>1. /\ MovedFrom = fst /\ MovedTo = N - (max - fst)
          /\ MovedLen = max - fst /\ p = fst /\ fst' = MovedTo
      BY <1>6, <2>2 DEF MovedFrom, MovedTo, MovedLen, p, N
    <3>2. CASE k < max - fst
      <4>1. /\ Pos(k)' = MovedTo + k /\ MovedTo + k \in 0 .. N - 1
            /\ MovedTo + k # p
        BY <1>1, <1>3, <1>6, <3>1, <3>2 DEF Pos
      <4>2. Pos(k) = MovedFrom + k /\ k \in 0 .. MovedLen - 1
        BY <1>1, <3>1, <3>2 DEF Pos
      <4> QED
        BY <1>1, <1>4, <1>5, <1>6, <3>2, <4>1, <4>2
    <3>3. CASE k >= max - fst
      <4>1. Pos(k)' = fst + k - max /\ fst + k - max \in 0 .. fst
        BY <1>1, <1>3, <1>6, <3>1, <3>3 DEF Pos
      <4>2. k # max => Pos(k) = fst + k - max /\ fst + k - max # p
        BY <1>1, <3>1, <3>3 DEF Pos
      <4>3. fst + k - max \in 0 .. N - 1 /\ fst + k - max \in 0 .. max - 1
        BY <1>1, <1>3, <4>1
      <4>4. CASE k = max
        <5>1. fst + k - max = p
          BY <1>1, <3>1, <4>4
        <5> QED
          BY <1>4, <1>5, <1>6, <4>1, <4>3, <4>4, <5>1
      <4>5. CASE k # max
        BY <1>4, <1>5, <1>6, <4>1, <4>2, <4>3, <4>5
      <4> QED
        BY <4>4, <4>5
    <3> QED
      BY <1>1, <3>2, <3>3
  <2> QED
    BY <2>1, <2>2
<1>8. TypeOK'
  <2>1. slots' \in [0 .. N - 1 -> Values \cup {Blank}]
    BY <1>4, <1>5, <1>6 DEF old
  <2>2. lst' \in 0 .. N - 1
    BY <1>3, <1>5, <1>6
  <2>3. fst' \in 0 .. N - 1
    BY <1>1, <1>3, <1>6 DEF MovedTo, MovedLen, N
  <2>4. N \in vec_MIN_ELEM .. MaxMax
    BY <1>1, <1>3, MinElemAssumption, MaxAssumption DEF TypeOK
  <2> QED
    BY <1>1, <1>3, <1>6, <2>1, <2>2, <2>3, <2>4 DEF TypeOK
<1>9. TailFollowsHead'
  <2>1. CASE HeadFits
    BY <1>1, <1>3, <1>5, <1>6, <2>1 DEF TailFollowsHead, p
  <2>2. CASE ~HeadFits
    BY <1>1, <1>3, <1>5, <1>6, <2>2, SMTT(30) DEF TailFollowsHead, p, MovedTo, N
  <2> QED
    BY <2>1, <2>2
<1>10. NoBlankElement'
  <2> SUFFICES ASSUME NEW k \in 0 .. max PROVE slots'[Pos(k)'] \in Values
    BY <1>1, <1>6 DEF NoBlankElement
  <2>1. CASE k = max
    BY <2>1, <1>7
  <2>2. CASE k # max
    BY <2>2, <1>1, <1>7 DEF NoBlankElement
  <2> QED
    BY <2>1, <2>2
<1> QED
  BY <1>1, <1>3, <1>6, <1>7, <1>8, <1>9, <1>10 DEF EvenMax, Appended

-----------------------------------------------------------------------------
(* The remaining operations write no slot. *)

LEMMA InitIInv == Init => IInv
<1> SUFFICES ASSUME Init PROVE IInv
  OBVIOUS
<1> USE MinElemAssumption, MaxAssumption DEF Init
<1>1. TypeOK
  BY DEF TypeOK
<1>2. EvenMax /\ TailFollowsHead /\ NoBlankElement
  BY DEF EvenMax, TailFollowsHead, NoBlankElement
<1> QED
  BY <1>1, <1>2 DEF IInv

LEMMA EnqFailIInv ==
  ASSUME IInv, EnqFail
  PROVE  IInv' /\ Contents' = Contents
<1> USE DEF IInv
<1>1. /\ max \in Nat /\ max >= 2 /\ cnt = max /\ lst = fst /\ Tail0 = fst
  BY MinElemAssumption, MaxAssumption DEF TypeOK, EnqFail, Tail0, TailFollowsHead
<1>2. /\ fst' = fst /\ cur' = cur /\ max' = max /\ cnt' = cnt
      /\ slots' = slots /\ ret' = Null /\ lst' = lst
  BY <1>1 DEF EnqFail
<1>3. TypeOK' /\ EvenMax' /\ TailFollowsHead'
  BY <1>1, <1>2 DEF TypeOK, EvenMax, TailFollowsHead
<1>4. \A k : Pos(k)' = Pos(k)
  BY <1>2 DEF Pos
<1> QED
  BY <1>2, <1>3, <1>4 DEF NoBlankElement, Contents

(* The iterators touch only the cursor.                                     *)
LEMMA ReadIInv ==
  ASSUME IInv, First \/ Last \/ NextElm \/ PrevElm
  PROVE  IInv' /\ Contents' = Contents
<1> USE DEF IInv
<1>1. /\ max \in Nat /\ max >= 2 /\ vec_MAX_CNT \in Nat /\ vec_MAX_CNT >= max + 2
      /\ fst \in 0 .. max - 1 /\ lst \in 0 .. max - 1 \cup {vec_MAX_CNT}
      /\ cur \in 0 .. vec_MAX_CNT
      /\ slots \in [0 .. max - 1 -> Values \cup {Blank}]
  BY MinElemAssumption, MaxAssumption DEF TypeOK
<1>2. /\ fst' = fst /\ lst' = lst /\ max' = max /\ cnt' = cnt /\ slots' = slots
  BY DEF First, Last, NextElm, PrevElm
<1>3. \A i \in Nat : At(i) \in Values \cup {Wild, Blank}
  BY <1>1 DEF At
<1>4. \A i \in 0 .. vec_MAX_CNT : Visit(i) \/ EndAt(i) =>
        cur' \in 0 .. vec_MAX_CNT /\ ret' \in Values \cup {Null, Wild, Blank}
  BY <1>1, <1>3 DEF Visit, EndAt
<1>5. cur' \in 0 .. vec_MAX_CNT /\ ret' \in Values \cup {Null, Wild, Blank}
  <2>1. CASE First
    BY <1>1, <1>4, <2>1 DEF First
  <2>2. CASE Last
    <3>1. lst # 0 => lst - 1 \in 0 .. vec_MAX_CNT
      BY <1>1
    <3> QED
      BY <1>1, <1>4, <2>2, <3>1 DEF Last
  <2>3. CASE NextElm
    <3>1. After(cur) \in 0 .. vec_MAX_CNT
      BY <1>1 DEF After
    <3> QED
      BY <1>1, <1>4, <2>3, <3>1 DEF NextElm
  <2>4. CASE PrevElm
    <3>1. cur # 0 => cur - 1 \in 0 .. vec_MAX_CNT
      BY <1>1
    <3> QED
      BY <1>1, <1>4, <2>4, <3>1 DEF PrevElm
  <2> QED
    BY <2>1, <2>2, <2>3, <2>4
<1>6. \A k : Pos(k)' = Pos(k)
  BY <1>2 DEF Pos
<1>7. TypeOK'
  BY <1>2, <1>5 DEF TypeOK
<1> QED
  BY <1>2, <1>6, <1>7 DEF EvenMax, TailFollowsHead, NoBlankElement, Contents

LEMMA DeqIInv ==
  ASSUME IInv, Deq
  PROVE  /\ IInv'
         /\ cnt' = IF cnt > 0 THEN cnt - 1 ELSE 0
         /\ slots' = slots /\ max' = max
         /\ \A k \in 0 .. cnt - 2 : Pos(k)' = Pos(k + 1)
<1> USE DEF IInv
<1> DEFINE left == IF cnt > 0 THEN cnt - 1 ELSE 0
<1>1. /\ max \in Nat /\ max >= 2 /\ vec_MAX_CNT \in Nat /\ vec_MAX_CNT >= max + 2
      /\ fst \in 0 .. max - 1 /\ lst \in 0 .. max - 1 \cup {vec_MAX_CNT}
      /\ cnt \in 0 .. max /\ left \in 0 .. max
  BY MinElemAssumption, MaxAssumption DEF TypeOK
<1>2. /\ cnt' = left /\ max' = max /\ slots' = slots /\ cur' = cur
      /\ ret' = Null
      /\ fst' = IF left = 0 THEN 0 ELSE After(fst)
      /\ lst' = IF left = 0 THEN 0 ELSE lst
  BY DEF Deq
<1> HIDE DEF left
<1>3. TypeOK' /\ EvenMax'
  BY <1>1, <1>2 DEF TypeOK, EvenMax, After
<1>4. TailFollowsHead'
  BY <1>1, <1>2 DEF TailFollowsHead, After, left
<1>5. ASSUME NEW k \in 0 .. cnt - 2 PROVE Pos(k)' = Pos(k + 1)
  BY <1>1, <1>2 DEF Pos, After, left
<1>6. NoBlankElement'
  <2> SUFFICES ASSUME NEW k \in 0 .. left - 1 PROVE slots'[Pos(k)'] \in Values
    BY <1>2 DEF NoBlankElement
  <2>1. k \in 0 .. cnt - 2 /\ k + 1 \in 0 .. cnt - 1
    BY <1>1 DEF left
  <2> QED
    BY <1>2, <1>5, <2>1 DEF NoBlankElement
<1> QED
  BY <1>2, <1>3, <1>4, <1>5, <1>6 DEF left

LEMMA DeqAllIInv ==
  ASSUME IInv, DeqAll
  PROVE  IInv' /\ cnt' = 0
<1> USE DEF IInv
<1>1. TypeOK' /\ EvenMax' /\ TailFollowsHead'
  BY MinElemAssumption, MaxAssumption DEF DeqAll, TypeOK, EvenMax, TailFollowsHead
<1> QED
  BY <1>1 DEF DeqAll, NoBlankElement

-----------------------------------------------------------------------------
LEMMA NextIInv == IInv /\ [Next]_vars => IInv'
<1> SUFFICES ASSUME IInv, [Next]_vars PROVE IInv'
  OBVIOUS
<1>1. ASSUME NEW e \in Values, Enq(e) PROVE IInv'
  BY <1>1, EnqRoomAppends, EnqGrowAppends, EnqFailIInv DEF Enq
<1>2. CASE Deq
  BY <1>2, DeqIInv
<1>3. CASE DeqAll
  BY <1>3, DeqAllIInv
<1>4. CASE First \/ Last \/ NextElm \/ PrevElm
  BY <1>4, ReadIInv
<1>5. CASE UNCHANGED vars
  BY <1>5 DEF vars, IInv, TypeOK, EvenMax, TailFollowsHead, NoBlankElement, Pos
<1> QED
  BY <1>1, <1>2, <1>3, <1>4, <1>5 DEF Next

(* The fields keep their types, and so does the storage, for every size.    *)
THEOREM Typing == Spec => []TypeOK
<1>1. IInv => TypeOK
  BY DEF IInv
<1> QED
  BY InitIInv, NextIInv, <1>1, PTL DEF Spec

(* The three counters of the queue agree in every reachable state.          *)
THEOREM Counters == Spec => []TailFollowsHead
<1>1. IInv => TailFollowsHead
  BY DEF IInv
<1> QED
  BY InitIInv, NextIInv, <1>1, PTL DEF Spec

(* No position between head and tail holds uninitialised memory.            *)
THEOREM Initialised == Spec => []NoBlankElement
<1>1. IInv => NoBlankElement
  BY DEF IInv
<1> QED
  BY InitIInv, NextIInv, <1>1, PTL DEF Spec

(* que_makeroom's memcpy never overlaps and never leaves the new storage.   *)
THEOREM LegalMoves == Spec => []GrowthMoveIsLegal
<1>1. IInv => GrowthMoveIsLegal
  <2> SUFFICES ASSUME IInv PROVE GrowthMoveIsLegal
    OBVIOUS
  <2>1. max \in Nat
    BY MinElemAssumption, MaxAssumption DEF IInv, TypeOK
  <2> QED
    BY <2>1, MoveFacts DEF IInv, GrowthMoveIsLegal
<1> QED
  BY InitIInv, NextIInv, <1>1, PTL DEF Spec

-----------------------------------------------------------------------------
(* The refinement.  What the queue holds is a sequence of values.           *)
ContentsAreSeq ==
  /\ cnt \in Nat
  /\ Contents \in Seq(Values)
  /\ Len(Contents) = cnt
  /\ \A i \in 1 .. cnt : Contents[i] = slots[Pos(i - 1)]

LEMMA ContentsFacts == IInv => ContentsAreSeq
<1> SUFFICES ASSUME IInv PROVE ContentsAreSeq
  OBVIOUS
<1>1. cnt \in Nat
  BY MinElemAssumption, MaxAssumption DEF IInv, TypeOK
<1>2. \A i \in 1 .. cnt : slots[Pos(i - 1)] \in Values
  BY <1>1, \A i \in 1 .. cnt : i - 1 \in 0 .. cnt - 1 DEF IInv, NoBlankElement
<1>3. Contents \in [1 .. cnt -> Values]
  BY <1>2 DEF Contents
<1>4. Contents \in Seq(Values) /\ Len(Contents) = cnt
  BY <1>1, <1>3
<1> QED
  BY <1>1, <1>4 DEF Contents, ContentsAreSeq

LEMMA ContentsFactsNext == IInv' => ContentsAreSeq'
BY ContentsFacts, PTL

LEMMA AppendedRefines ==
  ASSUME IInv, IInv', NEW e \in Values, Appended(e)
  PROVE  Contents' = Append(Contents, e)
<1>1. /\ cnt \in Nat /\ Contents \in Seq(Values) /\ Len(Contents) = cnt
      /\ \A i \in 1 .. cnt : Contents[i] = slots[Pos(i - 1)]
  BY ContentsFacts DEF ContentsAreSeq
<1>2. /\ Contents' \in Seq(Values) /\ Len(Contents') = cnt'
      /\ \A i \in 1 .. cnt' : Contents'[i] = slots'[Pos(i - 1)']
  BY ContentsFactsNext DEF ContentsAreSeq
<1>3. /\ cnt' = cnt + 1
      /\ \A k \in 0 .. cnt :
           slots'[Pos(k)'] = IF k = cnt THEN e ELSE slots[Pos(k)]
  BY DEF Appended
<1>4. /\ Append(Contents, e) \in Seq(Values)
      /\ Len(Append(Contents, e)) = cnt + 1
      /\ \A i \in 1 .. cnt : Append(Contents, e)[i] = Contents[i]
      /\ Append(Contents, e)[cnt + 1] = e
  BY <1>1, AppendProperties
<1>5. ASSUME NEW i \in 1 .. cnt + 1
      PROVE  Contents'[i] = Append(Contents, e)[i]
  <2>1. i - 1 \in 0 .. cnt /\ i \in 1 .. cnt'
    BY <1>1, <1>3
  <2>2. Contents'[i] = IF i - 1 = cnt THEN e ELSE slots[Pos(i - 1)]
    BY <1>2, <1>3, <2>1
  <2>3. CASE i - 1 = cnt
    BY <1>1, <1>4, <2>2, <2>3
  <2>4. CASE i - 1 # cnt
    BY <1>1, <1>4, <2>2, <2>4
  <2> QED
    BY <2>3, <2>4
<1> QED
  BY <1>1, <1>2, <1>3, <1>4, <1>5, SeqEqual

LEMMA DeqRefines ==
  ASSUME IInv, Deq
  PROVE  IF cnt = 0 THEN Contents' = Contents ELSE Contents # << >> /\ Contents' = Tail(Contents)
<1>1. /\ cnt \in Nat /\ Contents \in Seq(Values) /\ Len(Contents) = cnt
      /\ \A i \in 1 .. cnt : Contents[i] = slots[Pos(i - 1)]
  BY ContentsFacts DEF ContentsAreSeq
<1>2. /\ IInv'
      /\ cnt' = IF cnt > 0 THEN cnt - 1 ELSE 0
      /\ slots' = slots
      /\ \A k \in 0 .. cnt - 2 : Pos(k)' = Pos(k + 1)
  BY DeqIInv
<1>3. /\ Contents' \in Seq(Values) /\ Len(Contents') = cnt'
      /\ \A i \in 1 .. cnt' : Contents'[i] = slots'[Pos(i - 1)']
  BY <1>2, ContentsFactsNext DEF ContentsAreSeq
<1>4. CASE cnt = 0
  BY <1>1, <1>2, <1>3, <1>4, SeqEqual
<1>5. CASE cnt > 0
  <2>1. Contents # << >>
    BY <1>1, <1>5
  <2>2. /\ Tail(Contents) \in Seq(Values) /\ Len(Tail(Contents)) = cnt - 1
        /\ \A i \in 1 .. cnt - 1 : Tail(Contents)[i] = Contents[i + 1]
    BY <1>1, <2>1, HeadTailProperties
  <2>3. ASSUME NEW i \in 1 .. cnt - 1
        PROVE  Contents'[i] = Tail(Contents)[i]
    <3>1. i - 1 \in 0 .. cnt - 2 /\ i + 1 \in 1 .. cnt /\ i \in 1 .. cnt'
      BY <1>1, <1>2, <1>5
    <3>2. Contents'[i] = slots[Pos(i - 1 + 1)]
      BY <1>2, <1>3, <3>1
    <3>3. i - 1 + 1 = i /\ (i + 1) - 1 = i
      BY <3>1
    <3> QED
      BY <1>1, <2>2, <3>1, <3>2, <3>3
  <2> QED
    BY <1>1, <1>2, <1>3, <1>5, <2>1, <2>2, <2>3, SeqEqual
<1> QED
  BY <1>1, <1>4, <1>5

(* Every step of the circular buffer is a step of the abstract queue, or    *)
(* leaves what it holds alone.                                              *)
THEOREM Refinement == Spec => ImplementsFifo
<1>1. Init => Abs!Init
  <2> SUFFICES ASSUME Init PROVE Contents = << >>
    BY DEF Abs!Init
  <2>1. ContentsAreSeq /\ cnt = 0
    BY InitIInv, ContentsFacts DEF Init
  <2> QED
    BY <2>1 DEF ContentsAreSeq
<1>2. IInv /\ IInv' /\ [Next]_vars => [Abs!Next]_Contents
  <2> SUFFICES ASSUME IInv, IInv', [Next]_vars PROVE [Abs!Next]_Contents
    OBVIOUS
  <2>1. ASSUME NEW e \in Values, Enq(e) PROVE [Abs!Next]_Contents
    <3>1. CASE EnqFail
      BY <3>1, EnqFailIInv
    <3>2. CASE EnqRoom(e) \/ EnqGrow(e)
      <4>1. Contents' = Append(Contents, e)
        BY <3>2, EnqRoomAppends, EnqGrowAppends, AppendedRefines
      <4> QED
        BY <4>1 DEF Abs!Next, Abs!Enqueue
    <3> QED
      BY <2>1, <3>1, <3>2 DEF Enq
  <2>2. CASE Deq
    <3>1. Contents' = Contents \/ (Contents # << >> /\ Contents' = Tail(Contents))
      BY <2>2, DeqRefines
    <3> QED
      BY <3>1 DEF Abs!Next, Abs!Dequeue
  <2>3. CASE DeqAll
    <3>1. ContentsAreSeq' /\ cnt' = 0
      BY <2>3, DeqAllIInv, ContentsFactsNext
    <3>2. Contents' = << >>
      BY <3>1 DEF ContentsAreSeq
    <3> QED
      BY <3>2 DEF Abs!Next, Abs!DequeueAll
  <2>4. CASE First \/ Last \/ NextElm \/ PrevElm
    BY <2>4, ReadIInv
  <2>5. CASE UNCHANGED vars
    BY <2>5 DEF vars, Contents, Pos
  <2> QED
    BY <2>1, <2>2, <2>3, <2>4, <2>5 DEF Next
<1> QED
  BY <1>1, <1>2, InitIInv, NextIInv, PTL DEF Spec, ImplementsFifo, Abs!Spec

-----------------------------------------------------------------------------
(* Iteration with vecnext follows the order of insertion, around the end of *)
(* the storage too, as long as the queue is not full.                       *)
LEMMA NextStep ==
  ASSUME IInv, NextElm, cnt < max, NEW k \in 0 .. cnt - 1, cur = Pos(k)
  PROVE  IF k = cnt - 1 THEN ret' = Null
         ELSE cur' = Pos(k + 1) /\ ret' = Contents[k + 2]
<1> USE DEF IInv
<1>1. /\ max \in Nat /\ max >= 2 /\ vec_MAX_CNT \in Nat /\ vec_MAX_CNT >= max + 2
      /\ fst \in 0 .. max - 1 /\ lst \in 0 .. max - 1 /\ lst = Pos(cnt)
      /\ cnt \in 1 .. max - 1
  BY MinElemAssumption, MaxAssumption DEF TypeOK, TailFollowsHead, Pos
<1>2. /\ cur \in 0 .. max - 1 /\ cur # lst /\ cur # vec_MAX_CNT
      /\ After(cur) = Pos(k + 1) /\ Pos(k + 1) \in 0 .. max - 1
  BY <1>1 DEF Pos, After
<1>3. k = cnt - 1 => After(cur) = lst
  BY <1>1, <1>2
<1>4. k # cnt - 1 => After(cur) # lst
  BY <1>1, <1>2 DEF Pos
<1>5. CASE k = cnt - 1
  BY <1>1, <1>2, <1>3, <1>5 DEF NextElm, EndAt
<1>6. CASE k # cnt - 1
  <2>1. cur' = Pos(k + 1) /\ ret' = slots[Pos(k + 1)]
    BY <1>1, <1>2, <1>4, <1>6 DEF NextElm, Visit, At
  <2>2. Contents[k + 2] = slots[Pos(k + 1)]
    <3>1. k + 2 \in 1 .. cnt /\ (k + 2) - 1 = k + 1
      BY <1>1, <1>6
    <3>2. Contents[k + 2] = slots[Pos((k + 2) - 1)]
      BY <3>1, ContentsFacts DEF ContentsAreSeq
    <3> QED
      BY <3>1, <3>2
  <2> QED
    BY <1>6, <2>1, <2>2
<1> QED
  BY <1>5, <1>6

THEOREM IterationOrder == Spec => NextVisitsInOrder
<1>1. IInv /\ [Next]_vars =>
        [\A k \in 0 .. cnt - 1 :
           NextElm /\ cnt < max /\ cur = Pos(k) =>
             IF k = cnt - 1 THEN ret' = Null
             ELSE cur' = Pos(k + 1) /\ ret' = Contents[k + 2]]_vars
  BY NextStep
<1> QED
  BY InitIInv, NextIInv, <1>1, PTL DEF Spec, NextVisitsInOrder
=============================================================================
