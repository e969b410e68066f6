---------------------------- MODULE Program_proof -----------------------------
(***************************************************************************)
(* Proofs about Program, for every set of exceptions and patterns, depth   *)
(* of blocks, number of checks and memory: the two pointers into the C     *)
(* stack are live and innermost, the end of a watch reports what it has    *)
(* to, and the tracer counts the memory that is in use.                    *)
(***************************************************************************)
EXTENDS Program, NatLemmas, FiniteSetTheorems, TLAPS

\* d is the innermost logwatch block of the first n, or 0.
IsInnermostWatch(d, n) ==
  /\ d \in 0 .. n
  /\ d > 0 => scopes[d].kind = "watch"
  /\ \A i \in d + 1 .. n : scopes[i].kind # "watch"

\* Of the first n blocks: what utl_jmp_list was when a try block was entered is
\* the innermost armed block below it, for as long as the block is live.
TryLinked(n) ==
  \A i \in 1 .. n : scopes[i].kind = "try" => IsInnermostArmed(scopes[i].prv, i - 1)

\* Likewise utl_log_watch and logwatch blocks.
WatchLinked(n) ==
  \A i \in 1 .. n : scopes[i].kind = "watch" => IsInnermostWatch(scopes[i].prv, i - 1)

\* The array of a watch holds the wanted patterns that have not come.
TodoIsUnseen(n) ==
  \A i \in 1 .. n :
    scopes[i].kind = "watch" => scopes[i].todo = scopes[i].want \ scopes[i].seen

Counts == num \in Nat /\ fails \in Nat

\* The links of watches hold as long as no exception has left one.
IInv ==
  /\ TypeOK /\ Counts
  /\ ThrowFindsHandler /\ TryLinked(Depth)
  /\ left \/ (IsInnermostWatch(watch, Depth) /\ WatchLinked(Depth))
  /\ TodoIsUnseen(Depth)

-----------------------------------------------------------------------------

(* A watch block, if there is one, has an innermost one. *)
LEMMA InnermostExists ==
  ASSUME TypeOK PROVE IsInnermostWatch(Innermost, Depth)
<1>1. Depth \in Nat
  BY DEF TypeOK, Depth
<1>2. CASE ~ \E i \in 1 .. Depth : scopes[i].kind = "watch"
  BY <1>1, <1>2 DEF Innermost, IsInnermostWatch
<1>3. CASE \E i \in 1 .. Depth : scopes[i].kind = "watch"
  <2> DEFINE W == {i \in 1 .. Depth : scopes[i].kind = "watch"}
             T == {Depth - i : i \in W}
  <2>1. T \subseteq Nat /\ T # {}
    BY <1>1, <1>3
  <2>2. PICK x \in T : \A y \in T : x <= y
    BY <2>1, LeastNatural
  <2>3. PICK d \in W : x = Depth - d
    BY <2>2
  <2>4. \A j \in d + 1 .. Depth : scopes[j].kind # "watch"
    <3> SUFFICES ASSUME NEW j \in d + 1 .. Depth, scopes[j].kind = "watch" PROVE FALSE
      OBVIOUS
    <3>1. j \in W
      BY <1>1
    <3>2. Depth - j \in T
      BY <3>1
    <3>3. Depth - d <= Depth - j
      BY <2>2, <2>3, <3>2
    <3> QED
      BY <1>1, <3>3
  <2>5. Innermost \in 1 .. Depth /\ scopes[Innermost].kind = "watch"
        /\ \A j \in Innermost + 1 .. Depth : scopes[j].kind # "watch"
    BY <1>3, <2>3, <2>4 DEF Innermost
  <2> QED
    BY <1>1, <2>5 DEF IsInnermostWatch
<1> QED
  BY <1>2, <1>3

(* There is one innermost watch at most. *)
LEMMA InnermostIsUnique ==
  ASSUME NEW n \in Nat, NEW d, NEW e, IsInnermostWatch(d, n), IsInnermostWatch(e, n)
  PROVE  d = e
<1>1. d \in 0 .. n /\ e \in 0 .. n
  BY DEF IsInnermostWatch
<1>2. ~ (d < e)
  BY <1>1 DEF IsInnermostWatch
<1>3. ~ (e < d)
  BY <1>1 DEF IsInnermostWatch
<1> QED
  BY <1>1, <1>2, <1>3

(* The blocks a step leaves in place keep their links.                     *)
LEMMA PrefixLinks ==
  ASSUME NEW n \in Nat,
         \A i \in 1 .. n : /\ Armed(i)' <=> Armed(i)
                           /\ scopes'[i].kind = scopes[i].kind
                           /\ scopes'[i].prv = scopes[i].prv
  PROVE  /\ \A d \in Nat : IsInnermostArmed(d, n) => IsInnermostArmed(d, n)'
         /\ \A d \in Nat : IsInnermostWatch(d, n) => IsInnermostWatch(d, n)'
         /\ TryLinked(n) => TryLinked(n)'
         /\ WatchLinked(n) => WatchLinked(n)'
<1>1. ASSUME NEW m \in 0 .. n, NEW d \in Nat, IsInnermostArmed(d, m) PROVE IsInnermostArmed(d, m)'
  <2>1. d \in 0 .. m /\ (d > 0 => Armed(d)) /\ \A i \in d + 1 .. m : ~ Armed(i)
    BY <1>1 DEF IsInnermostArmed
  <2>2. (d > 0 => Armed(d)') /\ \A i \in d + 1 .. m : ~ Armed(i)'
    BY <2>1
  <2> QED
    BY <2>1, <2>2 DEF IsInnermostArmed
<1>2. ASSUME NEW m \in 0 .. n, NEW d \in Nat, IsInnermostWatch(d, m) PROVE IsInnermostWatch(d, m)'
  BY <1>2 DEF IsInnermostWatch
<1>3. ASSUME TryLinked(n), NEW i \in 1 .. n, scopes'[i].kind = "try"
      PROVE  IsInnermostArmed(scopes[i].prv, i - 1)'
  <2>1. IsInnermostArmed(scopes[i].prv, i - 1) /\ scopes[i].prv \in 0 .. i - 1
    BY <1>3 DEF TryLinked, IsInnermostArmed
  <2>2. PICK e \in 0 .. i - 1 : e = scopes[i].prv
    BY <2>1
  <2>3. IsInnermostArmed(e, i - 1)'
    BY <1>1, <2>1, <2>2
  <2>4. scopes'[i].prv = e
    BY <2>2
  <2> QED
    BY <2>3, <2>4 DEF IsInnermostArmed
<1>4. ASSUME WatchLinked(n), NEW i \in 1 .. n, scopes'[i].kind = "watch"
      PROVE  IsInnermostWatch(scopes[i].prv, i - 1)'
  <2>1. IsInnermostWatch(scopes[i].prv, i - 1) /\ scopes[i].prv \in 0 .. i - 1
    BY <1>4 DEF WatchLinked, IsInnermostWatch
  <2>2. PICK e \in 0 .. i - 1 : e = scopes[i].prv
    BY <2>1
  <2>3. IsInnermostWatch(e, i - 1)'
    BY <1>2, <2>1, <2>2
  <2>4. scopes'[i].prv = e
    BY <2>2
  <2> QED
    BY <2>3, <2>4 DEF IsInnermostWatch
<1> QED
  BY <1>1, <1>2, <1>3, <1>4 DEF TryLinked, WatchLinked

(* A step that leaves the first n blocks, the new ones, as they were.      *)
LEMMA CutLinks ==
  ASSUME IInv, NEW n \in Nat, n <= Depth, \A i \in 1 .. n : scopes'[i] = scopes[i]
  PROVE  /\ \A d \in Nat : IsInnermostArmed(d, n) => IsInnermostArmed(d, n)'
         /\ \A d \in Nat : IsInnermostWatch(d, n) => IsInnermostWatch(d, n)'
         /\ TryLinked(n)' /\ TodoIsUnseen(n)'
         /\ left \/ WatchLinked(n)'
<1>1. Depth \in Nat
  BY DEF IInv, TypeOK, Depth
<1>2. \A i \in 1 .. n : Armed(i)' <=> Armed(i)
  BY DEF Armed
<1>3. TryLinked(n) /\ TodoIsUnseen(n) /\ (left \/ WatchLinked(n))
  BY <1>1 DEF IInv, TryLinked, TodoIsUnseen, WatchLinked
<1>4. TodoIsUnseen(n)'
  BY <1>3 DEF TodoIsUnseen
<1> QED
  BY <1>2, <1>3, <1>4, PrefixLinks

(* A step that leaves the first n blocks and nothing above them.           *)
LEMMA CutStep ==
  ASSUME IInv, NEW n \in Nat, n <= Depth, scopes' = SubSeq(scopes, 1, n),
         IsInnermostArmed(jmp', n), left' \/ (~ left /\ IsInnermostWatch(watch', n)),
         run' \in {"yes", "aborted", "undefined"}, left' \in BOOLEAN, watch' \in 0 .. MaxDepth,
         Counts'
  PROVE  IInv'
<1>1. scopes \in Seq(Scope) /\ Depth \in Nat /\ Depth <= MaxDepth /\ MaxDepth \in Nat
  BY BoundsAssumption DEF IInv, TypeOK, Depth
<1>2. /\ scopes' \in Seq(Scope) /\ Depth' = n
      /\ \A i \in 1 .. n : scopes'[i] = scopes[i]
  BY <1>1 DEF Depth
<1>3. /\ \A d \in Nat : IsInnermostArmed(d, n) => IsInnermostArmed(d, n)'
      /\ \A d \in Nat : IsInnermostWatch(d, n) => IsInnermostWatch(d, n)'
      /\ TryLinked(n)' /\ TodoIsUnseen(n)'
      /\ left \/ WatchLinked(n)'
  BY <1>2, CutLinks
<1>4. PICK d \in 0 .. n : d = jmp'
  BY DEF IsInnermostArmed
<1>5. IsInnermostArmed(d, n)'
  BY <1>3, <1>4
<1>6. ThrowFindsHandler'
  BY <1>2, <1>4, <1>5 DEF ThrowFindsHandler, IsInnermostArmed
<1>7. left' \/ IsInnermostWatch(watch, n)'
  <2>1. SUFFICES ASSUME ~ left' PROVE IsInnermostWatch(watch, n)'
    OBVIOUS
  <2>2. IsInnermostWatch(watch', n)
    BY <2>1
  <2>3. PICK e \in 0 .. n : e = watch'
    BY <2>2 DEF IsInnermostWatch
  <2>4. IsInnermostWatch(e, n)'
    BY <1>3, <2>2, <2>3
  <2> QED
    BY <2>3, <2>4 DEF IsInnermostWatch
<1>8. TypeOK'
  BY <1>1, <1>2, <1>4 DEF TypeOK
<1> QED
  BY <1>2, <1>3, <1>6, <1>7, <1>8 DEF IInv, Counts

(* A step that leaves the first n blocks and one above them.               *)
LEMMA PushStep ==
  ASSUME IInv, NEW n \in Nat, n <= Depth, n < MaxDepth,
         scopes' \in Seq(Scope), Depth' = n + 1, \A i \in 1 .. n : scopes'[i] = scopes[i],
         scopes'[n + 1].kind = "try" => IsInnermostArmed(scopes'[n + 1].prv, n),
         scopes'[n + 1].kind = "watch" =>
           /\ left' \/ IsInnermostWatch(scopes'[n + 1].prv, n)
           /\ scopes'[n + 1].todo = scopes'[n + 1].want \ scopes'[n + 1].seen,
         ThrowFindsHandler', left => left', left' \/ IsInnermostWatch(watch, n + 1)',
         run' \in {"yes", "aborted", "undefined"}, left' \in BOOLEAN, watch' \in 0 .. MaxDepth,
         Counts'
  PROVE  IInv'
<1>1. /\ \A d \in Nat : IsInnermostArmed(d, n) => IsInnermostArmed(d, n)'
      /\ \A d \in Nat : IsInnermostWatch(d, n) => IsInnermostWatch(d, n)'
      /\ TryLinked(n)' /\ TodoIsUnseen(n)'
      /\ left \/ WatchLinked(n)'
  BY CutLinks
<1>2. TryLinked(n + 1)'
  <2>1. SUFFICES ASSUME scopes'[n + 1].kind = "try" PROVE IsInnermostArmed(scopes[n + 1].prv, n)'
    BY <1>1 DEF TryLinked
  <2>2. PICK d \in 0 .. n : d = scopes'[n + 1].prv
    BY <2>1 DEF IsInnermostArmed
  <2>3. IsInnermostArmed(d, n)'
    BY <1>1, <2>1, <2>2
  <2> QED
    BY <2>2, <2>3 DEF IsInnermostArmed
<1>3. left' \/ WatchLinked(n + 1)'
  <2>1. SUFFICES ASSUME ~ left', scopes'[n + 1].kind = "watch"
                 PROVE  IsInnermostWatch(scopes[n + 1].prv, n)'
    BY <1>1 DEF WatchLinked
  <2>2. PICK d \in 0 .. n : d = scopes'[n + 1].prv
    BY <2>1 DEF IsInnermostWatch
  <2>3. IsInnermostWatch(d, n)'
    BY <1>1, <2>1, <2>2
  <2> QED
    BY <2>2, <2>3 DEF IsInnermostWatch
<1>4. TodoIsUnseen(n + 1)'
  BY <1>1 DEF TodoIsUnseen
<1>5. TypeOK'
  BY BoundsAssumption DEF TypeOK, ThrowFindsHandler, IsInnermostArmed
<1> QED
  BY <1>2, <1>3, <1>4, <1>5 DEF IInv, Counts

LEMMA PatternCounts ==
  ASSUME NEW S \in SUBSET Pats PROVE Cardinality(S) \in Nat
BY BoundsAssumption, FS_Subset, FS_CardinalityType

(* What the steps need to know of the blocks.                              *)
LEMMA Blocks ==
  ASSUME TypeOK
  PROVE  /\ scopes \in Seq(Scope) /\ Depth \in Nat /\ Depth <= MaxDepth /\ MaxDepth \in Nat
         /\ \A i \in 1 .. Depth :
              /\ scopes[i] \in Scope /\ scopes[i].kind \in {"try", "watch"}
              /\ scopes[i].prv \in 0 .. MaxDepth
BY BoundsAssumption DEF TypeOK, Depth, Scope

-----------------------------------------------------------------------------
(* Each step keeps the invariant. *)

LEMMA EnterTryStep ==
  ASSUME IInv, EnterTry PROVE IInv'
<1>1. PICK C \in SUBSET Excs :
        scopes' = Append(scopes, [kind |-> "try", body |-> TRUE, catches |-> C, prv |-> jmp])
  BY DEF EnterTry
<1> DEFINE new == [kind |-> "try", body |-> TRUE, catches |-> C, prv |-> jmp]
<1>2. /\ scopes \in Seq(Scope) /\ Depth \in Nat /\ MaxDepth \in Nat
  BY Blocks DEF IInv
<1>3. new \in Scope
  BY DEF Scope, IInv, TypeOK
<1>4. new.kind = "try" /\ new.body = TRUE /\ new.prv = jmp
  OBVIOUS
<1> HIDE DEF new
<1>5. PICK n \in Nat : n = Depth
  BY <1>2
<1>6. /\ scopes' \in Seq(Scope) /\ Depth' = n + 1 /\ scopes'[n + 1] = new
      /\ \A i \in 1 .. n : scopes'[i] = scopes[i]
  BY <1>1, <1>2, <1>3, <1>5 DEF Depth, new
<1>7. Armed(n + 1)'
  BY <1>4, <1>6, Zenon DEF Armed
<1>8. ThrowFindsHandler'
  BY <1>5, <1>6, <1>7 DEF ThrowFindsHandler, IsInnermostArmed, EnterTry
<1>9. IsInnermostArmed(new.prv, n)
  BY <1>4, <1>5 DEF IInv, ThrowFindsHandler
<1>10. left \/ IsInnermostWatch(watch, n + 1)'
  <2>1. SUFFICES ASSUME ~ left PROVE IsInnermostWatch(watch, n + 1)'
    OBVIOUS
  <2>2. /\ watch \in 0 .. n /\ watch' = watch
        /\ watch > 0 => scopes[watch].kind = "watch"
        /\ \A i \in watch + 1 .. n : scopes[i].kind # "watch"
    BY <1>5, <2>1 DEF IInv, IsInnermostWatch, EnterTry
  <2>3. watch > 0 => scopes'[watch].kind = "watch"
    BY <1>6, <2>2
  <2>4. \A i \in watch + 1 .. n + 1 : scopes'[i].kind # "watch"
    <3> SUFFICES ASSUME NEW i \in watch + 1 .. n + 1 PROVE scopes'[i].kind # "watch"
      OBVIOUS
    <3>1. CASE i = n + 1
      BY <1>4, <1>6, <3>1
    <3>2. CASE i \in watch + 1 .. n
      BY <1>6, <2>2, <3>2
    <3> QED
      BY <2>2, <3>1, <3>2
  <2> QED
    BY <2>2, <2>3, <2>4 DEF IsInnermostWatch
<1>11. /\ n < MaxDepth /\ run' = run /\ left' = left /\ watch' = watch
       /\ num' = num /\ fails' = fails
  BY <1>5 DEF EnterTry, log
<1> QED
  BY <1>4, <1>5, <1>6, <1>8, <1>9, <1>10, <1>11, PushStep DEF IInv, Counts, TypeOK

LEMMA LeaveTryStep ==
  ASSUME IInv, LeaveTry PROVE IInv'
<1>1. /\ scopes \in Seq(Scope) /\ Depth \in Nat /\ Depth > 0
  BY Blocks DEF IInv, LeaveTry
<1>2. PICK n \in Nat : n = Depth - 1
  BY <1>1
<1>3. Top = scopes[n + 1] /\ scopes[n + 1].kind = "try" /\ jmp' = scopes[n + 1].prv
  BY <1>1, <1>2 DEF Top, LeaveTry
<1>4. IsInnermostArmed(jmp', n)
  BY <1>1, <1>2, <1>3 DEF IInv, TryLinked
<1>5. left \/ IsInnermostWatch(watch, n)
  BY <1>1, <1>2, <1>3 DEF IInv, IsInnermostWatch
<1>6. /\ scopes' = SubSeq(scopes, 1, n) /\ run' = run /\ left' = left /\ watch' = watch
      /\ num' = num /\ fails' = fails
  BY <1>2 DEF LeaveTry, log
<1> QED
  BY <1>1, <1>2, <1>4, <1>5, <1>6, CutStep DEF IInv, Counts, TypeOK

LEMMA ThrowStep ==
  ASSUME IInv, Throw PROVE IInv'
<1>1. /\ scopes \in Seq(Scope) /\ Depth \in Nat /\ Depth <= MaxDepth /\ MaxDepth \in Nat
      /\ \A i \in 1 .. Depth : scopes[i] \in Scope
  BY Blocks DEF IInv
<1>2. jmp \in 1 .. Depth /\ Armed(jmp)
  BY DEF IInv, ThrowFindsHandler, IsInnermostArmed, Throw
<1>3. PICK n \in Nat : n = jmp - 1
  BY <1>2
<1>4. n + 1 = jmp /\ n + 1 <= Depth /\ scopes[n + 1].kind = "try"
  BY <1>1, <1>2, <1>3 DEF Armed
<1>5. IsInnermostArmed(scopes[n + 1].prv, n)
  BY <1>1, <1>3, <1>4 DEF IInv, TryLinked
<1>6. run' = run /\ watch' = watch /\ num' = num /\ fails' = fails
  BY DEF Throw, log
<1>7. left' = (left \/ \E i \in n + 2 .. Depth : scopes[i].kind = "watch")
  <2>1. jmp + 1 = n + 2
    BY <1>2, <1>3
  <2> QED
    BY <2>1 DEF Throw
<1>8. left' \in BOOLEAN /\ (left => left')
  BY <1>7, Zenon DEF IInv, TypeOK
<1>9. left' \/ \A i \in n + 2 .. Depth : scopes[i].kind # "watch"
  BY <1>7, Zenon
<1>10. left' \/ (~ left /\ IsInnermostWatch(watch, n))
  <2>1. SUFFICES ASSUME ~ left' PROVE IsInnermostWatch(watch, n)
    BY <1>8
  <2>2. IsInnermostWatch(watch, Depth)
    BY <1>8, <2>1 DEF IInv
  <2>3. watch \in 0 .. n
    BY <1>1, <1>3, <1>4, <1>9, <2>1, <2>2 DEF IsInnermostWatch
  <2> QED
    BY <1>1, <1>4, <2>2, <2>3 DEF IsInnermostWatch
<1>11. CASE scopes' = SubSeq(scopes, 1, jmp - 1) /\ jmp' = scopes[jmp].prv
  <2>1. scopes' = SubSeq(scopes, 1, n) /\ n <= Depth
    BY <1>1, <1>3, <1>4, <1>11
  <2>2. IsInnermostArmed(jmp', n)
    BY <1>4, <1>5, <1>11
  <2>3. left' \/ (~ left /\ IsInnermostWatch(watch', n))
    BY <1>6, <1>10
  <2>4. /\ run' \in {"yes", "aborted", "undefined"} /\ left' \in BOOLEAN
        /\ watch' \in 0 .. MaxDepth /\ Counts'
    BY <1>6, <1>8 DEF IInv, Counts, TypeOK
  <2> QED
    BY <2>1, <2>2, <2>3, <2>4, CutStep
<1>12. CASE InClause(jmp)
  <2>1. /\ scopes' = [SubSeq(scopes, 1, n + 1) EXCEPT ![n + 1].body = FALSE]
        /\ jmp' = scopes[n + 1].prv
    BY <1>4, <1>12 DEF InClause
  <2> DEFINE new == [scopes[n + 1] EXCEPT !.body = FALSE]
  <2>2. scopes[n + 1] \in Scope
    BY <1>1, <1>4
  <2>3. /\ new \in Scope /\ new.kind = "try" /\ new.prv = scopes[n + 1].prv /\ ~ new.body
    BY <1>4, <2>2 DEF Scope
  <2> HIDE DEF new
  <2>4. /\ scopes' \in Seq(Scope) /\ Depth' = n + 1 /\ scopes'[n + 1] = new
        /\ \A i \in 1 .. n : scopes'[i] = scopes[i]
    <3> DEFINE pre == SubSeq(scopes, 1, n + 1)
    <3>1. pre \in Seq(Scope) /\ Len(pre) = n + 1 /\ \A i \in 1 .. n + 1 : pre[i] = scopes[i]
      BY <1>1, <1>4 DEF Depth
    <3>2. scopes' = [pre EXCEPT ![n + 1].body = FALSE]
      BY <2>1
    <3> HIDE DEF pre
    <3>3. new = [pre[n + 1] EXCEPT !.body = FALSE]
      <4>1. pre[n + 1] = scopes[n + 1]
        BY <3>1
      <4> QED
        BY <4>1 DEF new
    <3>4. scopes' = [pre EXCEPT ![n + 1] = new]
      BY <3>2, <3>3
    <3>5. QED
      BY <2>3, <3>1, <3>4 DEF Depth
  <2>5. n <= Depth
    BY <1>1, <1>4
  <2>6. /\ \A d \in Nat : IsInnermostArmed(d, n) => IsInnermostArmed(d, n)'
        /\ \A d \in Nat : IsInnermostWatch(d, n) => IsInnermostWatch(d, n)'
    BY <2>4, <2>5, CutLinks
  <2>7. ThrowFindsHandler'
    <3>1. PICK d \in 0 .. n : d = jmp'
      BY <1>5, <2>1 DEF IsInnermostArmed
    <3>2. IsInnermostArmed(d, n)'
      BY <1>5, <2>1, <2>6, <3>1
    <3>3. ~ Armed(n + 1)'
      BY <2>3, <2>4, Zenon DEF Armed
    <3> QED
      <4>1. /\ d > 0 => Armed(d)'
            /\ \A i \in d + 1 .. n : ~ Armed(i)'
        BY <3>2 DEF IsInnermostArmed
      <4>2. \A i \in d + 1 .. n + 1 : ~ Armed(i)'
        BY <3>3, <4>1
      <4>3. IsInnermostArmed(d, n + 1)'
        BY <4>1, <4>2 DEF IsInnermostArmed
      <4> QED
        BY <2>4, <3>1, <4>3 DEF ThrowFindsHandler, IsInnermostArmed
  <2>8. left' \/ IsInnermostWatch(watch, n + 1)'
    <3>1. SUFFICES ASSUME ~ left' PROVE IsInnermostWatch(watch, n + 1)'
      OBVIOUS
    <3>2. IsInnermostWatch(watch, n) /\ watch \in 0 .. n
      BY <1>10, <3>1 DEF IsInnermostWatch
    <3>3. PICK e \in 0 .. n : e = watch
      BY <3>2
    <3>4. IsInnermostWatch(e, n)'
      BY <2>6, <3>2, <3>3
    <3>5. scopes'[n + 1].kind # "watch"
      BY <2>3, <2>4
    <3> QED
      BY <1>6, <3>3, <3>4, <3>5 DEF IsInnermostWatch
  <2> QED
    BY <1>1, <1>4, <1>5, <1>6, <1>8, <2>3, <2>4, <2>7, <2>8, PushStep DEF IInv, Counts, TypeOK
<1> QED
  BY <1>11, <1>12, Zenon DEF Throw

LEMMA EnterWatchStep ==
  ASSUME IInv, EnterWatch PROVE IInv'
<1>1. PICK W, B \in SUBSET Pats :
        scopes' = Append(scopes, [kind |-> "watch", prv |-> watch, want |-> W, ban |-> B,
                                  todo |-> W, seen |-> {}])
  BY DEF EnterWatch
<1> DEFINE new == [kind |-> "watch", prv |-> watch, want |-> W, ban |-> B,
                   todo |-> W, seen |-> {}]
<1>2. /\ scopes \in Seq(Scope) /\ Depth \in Nat /\ MaxDepth \in Nat
  BY Blocks DEF IInv
<1>3. new \in Scope
  BY DEF Scope, IInv, TypeOK
<1>4. new.kind = "watch" /\ new.prv = watch /\ new.todo = new.want \ new.seen
  OBVIOUS
<1> HIDE DEF new
<1>5. PICK n \in Nat : n = Depth
  BY <1>2
<1>6. /\ scopes' \in Seq(Scope) /\ Depth' = n + 1 /\ scopes'[n + 1] = new
      /\ \A i \in 1 .. n : scopes'[i] = scopes[i]
  BY <1>1, <1>2, <1>3, <1>5 DEF Depth, new
<1>7. /\ n < MaxDepth /\ run' = run /\ left' = left /\ watch' = n + 1 /\ jmp' = jmp
      /\ num' = num /\ fails' = fails
  BY <1>5 DEF EnterWatch
<1>8. ~ Armed(n + 1)'
  BY <1>4, <1>6 DEF Armed
<1>9. ThrowFindsHandler'
  <2>1. IsInnermostArmed(jmp, n) /\ jmp \in 0 .. n
    BY <1>5 DEF IInv, ThrowFindsHandler, IsInnermostArmed
  <2>2. PICK d \in 0 .. n : d = jmp
    BY <2>1
  <2>3. \A k \in Nat : IsInnermostArmed(k, n) => IsInnermostArmed(k, n)'
    BY <1>5, <1>6, <1>2, CutLinks
  <2>4. IsInnermostArmed(d, n)'
    BY <2>1, <2>2, <2>3
  <2>5. (d > 0 => Armed(d)') /\ \A i \in d + 1 .. n : ~ Armed(i)'
    BY <2>4 DEF IsInnermostArmed
  <2>6. \A i \in d + 1 .. n + 1 : ~ Armed(i)'
    BY <1>8, <2>5
  <2>7. IsInnermostArmed(d, n + 1)'
    BY <2>5, <2>6 DEF IsInnermostArmed
  <2> QED
    BY <1>6, <1>7, <2>2, <2>7 DEF ThrowFindsHandler, IsInnermostArmed
<1>10. IsInnermostWatch(watch, n + 1)'
  BY <1>4, <1>6, <1>7 DEF IsInnermostWatch
<1>11. left \/ IsInnermostWatch(new.prv, n)
  BY <1>4, <1>5 DEF IInv
<1> QED
  BY <1>2, <1>4, <1>5, <1>6, <1>7, <1>9, <1>10, <1>11, PushStep, SMTT(30) DEF IInv, Counts, TypeOK

LEMMA LeaveWatchStep ==
  ASSUME IInv, LeaveWatch PROVE IInv'
<1>1. /\ scopes \in Seq(Scope) /\ Depth \in Nat /\ Depth > 0
      /\ \A i \in 1 .. Depth : scopes[i] \in Scope
  BY Blocks DEF IInv, LeaveWatch
<1>2. PICK n \in Nat : n = Depth - 1
  BY <1>1
<1>3. /\ Top = scopes[n + 1] /\ scopes[n + 1].kind = "watch" /\ watch' = scopes[n + 1].prv
      /\ scopes[n + 1] \in Scope
  BY <1>1, <1>2 DEF Top, LeaveWatch
<1>4. /\ scopes[n + 1].prv \in 0 .. MaxDepth
      /\ scopes[n + 1].ban \in SUBSET Pats /\ scopes[n + 1].todo \in SUBSET Pats
  BY <1>3 DEF Scope
<1>5. Counts'
  <2>1. Cardinality(Top.ban) \in Nat /\ Cardinality(Top.todo) \in Nat
    BY <1>3, <1>4, PatternCounts
  <2> QED
    BY <2>1 DEF LeaveWatch, Count, Counts, IInv
<1>6. IsInnermostArmed(jmp, n)
  <2>1. IsInnermostArmed(jmp, n + 1) /\ ~ Armed(n + 1)
    BY <1>1, <1>2, <1>3 DEF IInv, ThrowFindsHandler, Armed
  <2> QED
    BY <2>1 DEF IsInnermostArmed
<1>7. left \/ IsInnermostWatch(watch', n)
  BY <1>1, <1>2, <1>3 DEF IInv, WatchLinked
<1>8. scopes' = SubSeq(scopes, 1, n) /\ run' = run /\ left' = left /\ jmp' = jmp
  BY <1>2 DEF LeaveWatch
<1>9. /\ n <= Depth /\ IsInnermostArmed(jmp', n)
      /\ left' \/ (~ left /\ IsInnermostWatch(watch', n))
  BY <1>1, <1>2, <1>6, <1>7, <1>8 DEF IInv, TypeOK
<1>10. /\ run' \in {"yes", "aborted", "undefined"} /\ left' \in BOOLEAN
       /\ watch' \in 0 .. MaxDepth
  BY <1>3, <1>4, <1>8 DEF IInv, TypeOK
<1> QED
  BY <1>5, <1>8, <1>9, <1>10, CutStep

(* A step that leaves the blocks alone.                                    *)
LEMMA OtherStep ==
  ASSUME IInv, scopes' = scopes, jmp' = jmp, watch' = watch, left' = left,
         run' \in {"yes", "aborted", "undefined"}, Counts'
  PROVE  IInv'
BY DEF IInv, TypeOK, Depth, ThrowFindsHandler, TryLinked, WatchLinked, TodoIsUnseen,
       IsInnermostArmed, IsInnermostWatch, Armed

LEMMA MessageStep ==
  ASSUME IInv, Message PROVE IInv'
<1>1. /\ scopes \in Seq(Scope) /\ Depth \in Nat
      /\ \A i \in 1 .. Depth : scopes[i] \in Scope
  BY Blocks DEF IInv
<1>2. run' = run /\ jmp' = jmp /\ watch' = watch /\ left' = left
  BY DEF Message
<1>3. CASE watch = 0
  BY <1>2, <1>3, OtherStep DEF Message, IInv, TypeOK, Counts
<1>4. CASE watch # 0
  <2>1. PICK msg \in SUBSET Pats :
          LET s == scopes[watch] IN
            /\ scopes' = [scopes EXCEPT ![watch].todo = Remaining(s, msg), ![watch].seen = @ \cup msg]
            /\ IF dbg > UTL_LOG_D THEN file' = Opened(file) /\ UNCHANGED << num, fails >>
               ELSE LET ok == Cardinality(s.todo \cap msg)
                        ko == Cardinality(s.ban \cap msg)
                    IN /\ num + ok + ko <= MaxCount
                       /\ num' = num + ok + ko /\ fails' = fails + ko /\ file' = Opened(file)
    BY <1>4 DEF Message
  <2>2. PICK w \in Nat : w = watch
    BY DEF IInv, TypeOK
  <2>3. w \in 1 .. Depth /\ scopes[w].kind = "watch"
    <3>1. IsInnermostWatch(Innermost, Depth)
      BY InnermostExists DEF IInv
    <3>2. watch = Innermost
      BY DEF Message, Dangling
    <3> QED
      BY <1>1, <1>4, <2>2, <3>1, <3>2 DEF IsInnermostWatch
  <2> DEFINE s == scopes[w]
             new == [s EXCEPT !.todo = s.todo \ msg, !.seen = s.seen \cup msg]
  <2>4. s \in [kind : {"watch"}, prv : 0 .. MaxDepth, want : SUBSET Pats, ban : SUBSET Pats,
               todo : SUBSET Pats, seen : SUBSET Pats]
    BY <1>1, <2>3 DEF Scope
  <2>5. /\ new \in Scope /\ new.kind = "watch" /\ new.prv = s.prv /\ new.want = s.want
        /\ new.todo = s.todo \ msg /\ new.seen = s.seen \cup msg
    BY <2>4 DEF Scope
  <2>6. scopes' = [scopes EXCEPT ![w] = new]
    BY <1>1, <2>1, <2>2, <2>3 DEF Remaining, Depth
  <2> HIDE DEF new
  <2>7. PICK n \in Nat : n = Depth
    BY <1>1
  <2>8. /\ scopes' \in Seq(Scope) /\ Depth' = n /\ scopes'[w] = new
        /\ \A i \in 1 .. n : i # w => scopes'[i] = scopes[i]
    BY <1>1, <2>3, <2>5, <2>6, <2>7 DEF Depth
  <2>9. \A i \in 1 .. n : /\ Armed(i)' <=> Armed(i)
                          /\ scopes'[i].kind = scopes[i].kind
                          /\ scopes'[i].prv = scopes[i].prv
    <3> SUFFICES ASSUME NEW i \in 1 .. n
                 PROVE  /\ Armed(i)' <=> Armed(i)
                        /\ scopes'[i].kind = scopes[i].kind
                        /\ scopes'[i].prv = scopes[i].prv
      OBVIOUS
    <3>1. CASE i = w
      BY <2>3, <2>5, <2>8, <3>1 DEF Armed
    <3>2. CASE i # w
      BY <2>8, <3>2 DEF Armed
    <3> QED
      BY <3>1, <3>2
  <2>10. /\ \A d \in Nat : IsInnermostArmed(d, n) => IsInnermostArmed(d, n)'
         /\ \A d \in Nat : IsInnermostWatch(d, n) => IsInnermostWatch(d, n)'
         /\ TryLinked(n) => TryLinked(n)'
         /\ WatchLinked(n) => WatchLinked(n)'
    BY <2>9, PrefixLinks
  <2>11. ThrowFindsHandler'
    <3>1. PICK d \in Nat : d = jmp
      BY DEF IInv, TypeOK
    <3>2. IsInnermostArmed(d, n)'
      BY <2>7, <2>10, <3>1 DEF IInv, ThrowFindsHandler
    <3> QED
      BY <1>2, <2>8, <3>1, <3>2 DEF ThrowFindsHandler, IsInnermostArmed
  <2>12. left \/ (IsInnermostWatch(watch, n)' /\ WatchLinked(n)')
    <3>1. SUFFICES ASSUME ~ left PROVE IsInnermostWatch(watch, n)' /\ WatchLinked(n)'
      OBVIOUS
    <3>2. IsInnermostWatch(w, n) /\ WatchLinked(n)
      BY <2>2, <2>7, <3>1 DEF IInv
    <3>3. IsInnermostWatch(w, n)' /\ WatchLinked(n)'
      BY <2>10, <3>2
    <3> QED
      BY <1>2, <2>2, <3>3 DEF IsInnermostWatch
  <2>13. TodoIsUnseen(n)'
    <3>1. TodoIsUnseen(n)
      BY <2>7 DEF IInv
    <3>2. new.todo = new.want \ new.seen
      BY <2>3, <2>5, <2>7, <3>1 DEF TodoIsUnseen
    <3> QED
      BY <2>8, <3>1, <3>2 DEF TodoIsUnseen
  <2>14. Counts'
    <3>1. Cardinality(s.todo \cap msg) \in Nat /\ Cardinality(s.ban \cap msg) \in Nat
      BY <2>4, PatternCounts
    <3> QED
      BY <2>1, <2>2, <3>1 DEF Counts, IInv
  <2>15. TypeOK' /\ TryLinked(n)'
    BY <1>2, <2>7, <2>8, <2>10 DEF IInv, TypeOK
  <2> QED
    BY <1>2, <2>8, <2>11, <2>12, <2>13, <2>14, <2>15 DEF IInv
<1> QED
  BY <1>3, <1>4

-----------------------------------------------------------------------------

LEMMA Initially == Init => IInv
<1> SUFFICES ASSUME Init PROVE IInv
  OBVIOUS
<1>1. scopes = <<>> /\ Depth = 0 /\ scopes \in Seq(Scope)
  BY DEF Init, Depth
<1>2. TypeOK
  <2>1. 0 \in 0 .. MaxDepth /\ Depth <= MaxDepth
    BY <1>1, BoundsAssumption
  <2>2. jmp = 0 /\ watch = 0 /\ run = "yes" /\ left \in BOOLEAN
    BY Zenon DEF Init
  <2> QED
    BY <1>1, <2>1, <2>2 DEF TypeOK
<1>3. TryLinked(Depth) /\ WatchLinked(Depth) /\ TodoIsUnseen(Depth)
  BY <1>1 DEF TryLinked, WatchLinked, TodoIsUnseen
<1>4. ThrowFindsHandler /\ IsInnermostWatch(watch, Depth)
  BY <1>1 DEF Init, ThrowFindsHandler, IsInnermostArmed, IsInnermostWatch
<1> QED
  BY <1>2, <1>3, <1>4 DEF Init, IInv, Counts

LEMMA Inductive == IInv /\ [Next]_vars => IInv'
<1> SUFFICES ASSUME IInv, [Next]_vars PROVE IInv'
  OBVIOUS
<1>1. CASE EnterTry
  BY <1>1, EnterTryStep
<1>2. CASE LeaveTry
  BY <1>2, LeaveTryStep
<1>3. CASE Throw
  BY <1>3, ThrowStep
<1>4. CASE EnterWatch
  BY <1>4, EnterWatchStep
<1>5. CASE Message
  BY <1>5, MessageStep
<1>6. CASE LeaveWatch
  BY <1>6, LeaveWatchStep
<1>7. CASE LogOpen \/ LogClose \/ LogCheck \/ LogAssert \/ SetLevel \/ ReadDeadWatch
  <2>1. /\ scopes' = scopes /\ jmp' = jmp /\ watch' = watch /\ left' = left
        /\ run' \in {"yes", "aborted", "undefined"}
    BY <1>7 DEF LogOpen, LogClose, LogCheck, LogAssert, SetLevel, ReadDeadWatch, blocks,
                IInv, TypeOK
  <2>2. Counts'
    BY <1>7 DEF LogOpen, LogClose, LogCheck, LogAssert, SetLevel, ReadDeadWatch, Count, log,
                IInv, Counts
  <2> QED
    BY <2>1, <2>2, OtherStep
<1>8. CASE Allocation
  BY <1>8, OtherStep DEF Allocation, blocks, IInv, TypeOK, Counts
<1>9. CASE UNCHANGED vars
  BY <1>9, OtherStep DEF vars, blocks, log, IInv, TypeOK, Counts
<1> QED
  BY <1>1, <1>2, <1>3, <1>4, <1>5, <1>6, <1>7, <1>8, <1>9 DEF Next, Trace

(* The invariant the other results follow from.                            *)
THEOREM Invariance == Spec => []IInv
BY Initially, Inductive, PTL DEF Spec

(* A throw always finds the innermost try block whose body is running, or  *)
(* none is live, and the watch that messages are checked against is live   *)
(* and innermost until an exception has left one (utl_try.h, utl_log.h).   *)
THEOREM PointersAreLive == Spec => []ScopesAgree
<1>1. ASSUME IInv PROVE ScopesAgree
  <2>1. left \/ watch = Innermost
    <3>1. Depth \in Nat /\ IsInnermostWatch(Innermost, Depth)
      BY <1>1, InnermostExists, Blocks DEF IInv
    <3>2. SUFFICES ASSUME ~ left PROVE watch = Innermost
      OBVIOUS
    <3>3. IsInnermostWatch(watch, Depth)
      BY <1>1, <3>2 DEF IInv
    <3>4. PICK n \in Nat : n = Depth
      BY <3>1
    <3>5. PICK d \in 0 .. n : d = watch
      BY <3>3, <3>4 DEF IsInnermostWatch
    <3>6. PICK e \in 0 .. n : e = Innermost
      BY <3>1, <3>4 DEF IsInnermostWatch
    <3>7. IsInnermostWatch(d, n) /\ IsInnermostWatch(e, n)
      BY <3>1, <3>3, <3>4, <3>5, <3>6
    <3> QED
      BY <3>5, <3>6, <3>7, InnermostIsUnique
  <2> QED
    BY <1>1, <2>1 DEF IInv, ScopesAgree, WatchIsLive
<1> QED
  BY <1>1, Invariance, PTL

\* The levels the code compares with are numbers.
LevelOK == dbg \in {UTL_LOG_T, UTL_LOG_D, UTL_LOG_N}

LEMMA Level == Spec => []LevelOK
<1>1. Init => LevelOK
  BY DEF Init, LevelOK
<1>2. LevelOK /\ [Next]_vars => LevelOK'
  BY DEF LevelOK, Next, Trace, Allocation, vars, log, EnterTry, LeaveTry, Throw, LogOpen,
         LogClose, LogCheck, LogAssert, SetLevel, EnterWatch, Message, LeaveWatch, ReadDeadWatch
<1> QED
  BY <1>1, <1>2, PTL DEF Spec

(* The end of a watch counts what doc/log.md says it does.                 *)
THEOREM WatchesReport == Spec => ReportsAreRight
<1>1. ASSUME IInv, LevelOK, LeaveWatch, dbg <= UTL_LOG_D
      PROVE  /\ fails' - fails = Cardinality(Top.want \ Top.seen)
             /\ num' - num = Cardinality(Top.want \ Top.seen) + Cardinality(Top.ban)
  <2>1. Depth \in Nat /\ Depth > 0 /\ scopes[Depth] \in Scope
    BY <1>1, Blocks DEF IInv, LeaveWatch
  <2>2. Top.todo = Top.want \ Top.seen /\ Top.todo \in SUBSET Pats /\ Top.ban \in SUBSET Pats
    BY <1>1, <2>1 DEF IInv, TodoIsUnseen, LeaveWatch, Top, Scope
  <2>3. Cardinality(Top.todo) \in Nat /\ Cardinality(Top.ban) \in Nat
    BY <2>2, PatternCounts
  <2>4. /\ num' = num + Cardinality(Top.ban) + Cardinality(Top.todo)
        /\ fails' = fails + Cardinality(Top.todo)
    <3>1. ~ (dbg > UTL_LOG_D)
      BY <1>1 DEF LevelOK, UTL_LOG_T, UTL_LOG_D, UTL_LOG_N
    <3> QED
      BY <1>1, <3>1 DEF LeaveWatch, Count
  <2> QED
    BY <1>1, <2>2, <2>3, <2>4 DEF IInv, Counts
<1> QED
  BY <1>1, Invariance, Level, PTL DEF ReportsAreRight

-----------------------------------------------------------------------------
(* Sums over finite sets *)

\* A collection of subsets of a finite set has a least one.
LEMMA LeastSet ==
  ASSUME NEW S, IsFiniteSet(S), NEW T, T \subseteq SUBSET S, T # {}
  PROVE  \E m \in T : \A a \in m : m \ {a} \notin T
<1> DEFINE C == {Cardinality(t) : t \in T}
<1>1. \A t \in T : IsFiniteSet(t) /\ Cardinality(t) \in Nat
  BY FS_Subset, FS_CardinalityType
<1>2. C \subseteq Nat /\ C # {}
  BY <1>1
<1>3. PICK n \in C : \A k \in C : n <= k
  BY <1>2, LeastNatural
<1>4. PICK m \in T : n = Cardinality(m)
  BY <1>3
<1>5. ASSUME NEW a \in m, m \ {a} \in T
      PROVE  FALSE
  <2>1. Cardinality(m \ {a}) = Cardinality(m) - 1
    BY <1>1, FS_RemoveElement
  <2>2. Cardinality(m \ {a}) \in C
    BY <1>5
  <2>3. n <= n - 1 /\ n \in Nat
    BY <1>1, <1>3, <1>4, <2>1, <2>2
  <2> QED
    BY <2>3
<1> QED
  BY <1>5

\* One turn of the sum of the sizes of a set of blocks.
SumTurn(h, f, s) ==
  IF s = {} THEN 0 ELSE LET a == CHOOSE a \in s : TRUE IN h[a].size + f[s \ {a}]

\* The sum that UsedIsLive takes, of the sizes of the blocks of h at S.
Sum(h, S) == LET iter[s \in SUBSET S] == SumTurn(h, iter, s) IN iter[S]

\* The fold of UsedIsLive is that sum.
LEMMA SumIs ==
  ASSUME NEW S
  PROVE  MapThenSumSet(LAMBDA a : heap[a].size, S) = Sum(heap, S)
BY Zenon DEF MapThenSumSet, MapThenFoldSet, Sum, SumTurn

\* A set that is not empty has the element that is chosen.
LEMMA ChosenIsIn == ASSUME NEW s, s # {} PROVE (CHOOSE a \in s : TRUE) \in s
OBVIOUS

\* The recursion of the sum defines a function.
LEMMA SumExists ==
  ASSUME NEW h, NEW S, IsFiniteSet(S)
  PROVE  \E f : f = [s \in SUBSET S |-> SumTurn(h, f, s)]
<1> DEFINE Ok(f, k) == \A s \in SUBSET S : Cardinality(s) <= k => f[s] = SumTurn(h, f, s)
           Some(k) == \E f : f = [s \in SUBSET S |-> f[s]] /\ Ok(f, k)
           T == {k \in Nat : ~ Some(k)}
<1>1. \A s \in SUBSET S : IsFiniteSet(s) /\ Cardinality(s) \in Nat /\ Cardinality(s) <= Cardinality(S)
  BY FS_Subset, FS_CardinalityType
<1>2. Cardinality(S) \in Nat
  BY FS_CardinalityType
<1>3. Some(0)
  <2> DEFINE f == [s \in SUBSET S |-> 0]
  <2>1. f = [s \in SUBSET S |-> f[s]] /\ \A s \in SUBSET S : f[s] = 0
    OBVIOUS
  <2>2. \A s \in SUBSET S : Cardinality(s) <= 0 => s = {}
    <3> TAKE s \in SUBSET S
    <3> HAVE Cardinality(s) <= 0
    <3>1. Cardinality(s) = 0
      BY <1>1
    <3> QED
      BY <1>1, <3>1, FS_EmptySet
  <2> HIDE DEF f
  <2>3. Ok(f, 0)
    BY <2>1, <2>2 DEF SumTurn
  <2> QED
    BY <2>1, <2>3
<1>4. ASSUME NEW k \in Nat, Some(k)
      PROVE  Some(k + 1)
  <2>1. PICK f : f = [s \in SUBSET S |-> f[s]] /\ Ok(f, k)
    BY <1>4
  <2> DEFINE g == [s \in SUBSET S |-> IF Cardinality(s) = k + 1 THEN SumTurn(h, f, s) ELSE f[s]]
  <2>2. /\ g = [s \in SUBSET S |-> g[s]]
        /\ \A s \in SUBSET S : g[s] = IF Cardinality(s) = k + 1 THEN SumTurn(h, f, s) ELSE f[s]
    OBVIOUS
  <2> HIDE DEF g
  <2>3. ASSUME NEW s \in SUBSET S, Cardinality(s) <= k + 1
        PROVE  g[s] = SumTurn(h, g, s)
    <3>1. g[s] = SumTurn(h, f, s)
      <4>1. CASE Cardinality(s) = k + 1
        BY <2>2, <4>1
      <4>2. CASE Cardinality(s) # k + 1
        <5>1. Cardinality(s) <= k
          BY <1>1, <2>3, <4>2
        <5> QED
          BY <2>1, <2>2, <4>2, <5>1
      <4> QED
        BY <4>1, <4>2
    <3>2. ASSUME NEW a \in s
          PROVE  g[s \ {a}] = f[s \ {a}]
      <4>1. Cardinality(s \ {a}) = Cardinality(s) - 1 /\ Cardinality(s) \in Nat
        BY <1>1, FS_RemoveElement
      <4>2. Cardinality(s \ {a}) # k + 1 /\ s \ {a} \in SUBSET S
        BY <2>3, <4>1
      <4> QED
        BY <2>2, <4>2
    <3>3. s # {} => g[s \ {CHOOSE a \in s : TRUE}] = f[s \ {CHOOSE a \in s : TRUE}]
      BY <3>2, ChosenIsIn
    <3> QED
      BY <3>1, <3>3 DEF SumTurn
  <2> QED
    BY <2>2, <2>3
<1> HIDE DEF Some
<1>5. T = {}
  <2> SUFFICES ASSUME T # {}
               PROVE  FALSE
    OBVIOUS
  <2>1. T \subseteq Nat
    OBVIOUS
  <2>2. PICK k \in T : \A y \in T : k <= y
    BY <2>1, LeastNatural
  <2>3. k \in Nat /\ k # 0 /\ k - 1 \in Nat /\ k - 1 + 1 = k /\ ~ (k <= k - 1)
    BY <1>3, <2>2
  <2>4. Some(k - 1)
    BY <2>2, <2>3
  <2>5. Some(k - 1 + 1)
    BY <1>4, <2>3, <2>4
  <2> QED
    BY <2>2, <2>3, <2>5
<1>6. Some(Cardinality(S))
  BY <1>2, <1>5
<1>7. PICK f : f = [s \in SUBSET S |-> f[s]] /\ Ok(f, Cardinality(S))
  BY <1>6 DEF Some
<1>8. \A s \in SUBSET S : f[s] = SumTurn(h, f, s)
  BY <1>1, <1>7
<1> QED
  BY <1>7, <1>8

\* f is the sum of each part of S.
Sums(f, h, S) == f = [s \in SUBSET S |-> SumTurn(h, f, s)]

\* There is one such function, and it does not depend on S.
LEMMA SumUnique ==
  ASSUME NEW h, NEW S, IsFiniteSet(S), NEW R, R \subseteq S, NEW f, NEW g,
         Sums(f, h, S), Sums(g, h, R)
  PROVE  f[R] = g[R]
<1>1. /\ \A s \in SUBSET S : f[s] = SumTurn(h, f, s)
      /\ \A s \in SUBSET R : g[s] = SumTurn(h, g, s)
  BY DEF Sums
<1> DEFINE T == {s \in SUBSET R : f[s] # g[s]}
<1> SUFFICES ASSUME T # {}
             PROVE  FALSE
  OBVIOUS
<1>2. IsFiniteSet(R) /\ T \subseteq SUBSET R
  BY FS_Subset
<1>3. PICK m \in T : \A a \in m : m \ {a} \notin T
  BY <1>2, LeastSet
<1>4. m \in SUBSET R /\ m \in SUBSET S /\ f[m] # g[m]
  OBVIOUS
<1>5. \A a \in m : f[m \ {a}] = g[m \ {a}]
  BY <1>3
<1> HIDE DEF T
<1>6. m # {} => f[m \ {CHOOSE a \in m : TRUE}] = g[m \ {CHOOSE a \in m : TRUE}]
  BY <1>5, ChosenIsIn
<1>7. SumTurn(h, f, m) = SumTurn(h, g, m)
  BY <1>6 DEF SumTurn
<1> QED
  BY <1>1, <1>4, <1>7

\* The sum is 0 for no block, and otherwise the size of the block chosen and
\* the sum of the others.
LEMMA SumEquation ==
  ASSUME NEW h, NEW S, IsFiniteSet(S)
  PROVE  Sum(h, S) = IF S = {} THEN 0
                     ELSE h[CHOOSE a \in S : TRUE].size + Sum(h, S \ {CHOOSE a \in S : TRUE})
<1> DEFINE Iter(X) == CHOOSE f : Sums(f, h, X)
<1>1. \A X : Sum(h, X) = Iter(X)[X]
  BY Zenon DEF Sum, Sums
<1>2. \A X : IsFiniteSet(X) => Sums(Iter(X), h, X)
  <2> TAKE X
  <2> HAVE IsFiniteSet(X)
  <2>1. \E f : Sums(f, h, X)
    BY SumExists DEF Sums
  <2> QED
    BY <2>1
<1> HIDE DEF Iter
<1>3. Iter(S)[S] = SumTurn(h, Iter(S), S)
  <2>1. Iter(S) = [s \in SUBSET S |-> SumTurn(h, Iter(S), s)]
    BY <1>2 DEF Sums
  <2>2. \A f, k : f = [s \in SUBSET S |-> SumTurn(h, k, s)] => f[S] = SumTurn(h, k, S)
    OBVIOUS
  <2> QED
    BY <2>1, <2>2
<1>4. \A R \in SUBSET S : Iter(S)[R] = Sum(h, R)
  <2> TAKE R \in SUBSET S
  <2>1. IsFiniteSet(R)
    BY FS_Subset
  <2>2. Sums(Iter(S), h, S) /\ Sums(Iter(R), h, R)
    BY <1>2, <2>1
  <2>3. Iter(S)[R] = Iter(R)[R]
    BY <2>2, SumUnique
  <2> QED
    BY <1>1, <2>3
<1>5. S \ {CHOOSE a \in S : TRUE} \in SUBSET S
  OBVIOUS
<1>6. Iter(S)[S \ {CHOOSE a \in S : TRUE}] = Sum(h, S \ {CHOOSE a \in S : TRUE})
  BY <1>4, <1>5
<1> QED
  BY <1>1, <1>3, <1>6, Zenon DEF SumTurn

\* Sizes are numbers at S.
Sized(h, S) == \A a \in S : h[a].size \in Int

\* The sum of numbers is a number.
LEMMA SumIsInt ==
  ASSUME NEW h, NEW S, IsFiniteSet(S), Sized(h, S)
  PROVE  Sum(h, S) \in Int
<1> DEFINE T == {s \in SUBSET S : Sum(h, s) \notin Int}
<1> SUFFICES ASSUME T # {}
             PROVE  FALSE
  OBVIOUS
<1>1. T \subseteq SUBSET S
  OBVIOUS
<1>2. PICK m \in T : \A a \in m : m \ {a} \notin T
  BY <1>1, LeastSet
<1>3. m \in SUBSET S /\ IsFiniteSet(m) /\ Sum(h, m) \notin Int
  BY FS_Subset
<1>4. \A a \in m : Sum(h, m \ {a}) \in Int
  BY <1>2
<1>5. m # {}
  <2> SUFFICES ASSUME m = {}
               PROVE  Sum(h, m) = 0
    BY <1>3
  <2> QED
    BY <1>3, SumEquation, Zenon
<1> DEFINE c == CHOOSE a \in m : TRUE
<1>6. c \in m
  BY <1>5, ChosenIsIn
<1>7. Sum(h, m) = h[c].size + Sum(h, m \ {c})
  BY <1>3, <1>5, SumEquation
<1> HIDE DEF c, T
<1>8. h[c].size \in Int /\ Sum(h, m \ {c}) \in Int
  BY <1>3, <1>4, <1>6 DEF Sized
<1> QED
  BY <1>3, <1>7, <1>8

\* The order of the sum does not matter: any block may be the first.
LEMMA SumAny ==
  ASSUME NEW h, NEW S, IsFiniteSet(S), Sized(h, S), NEW x \in S
  PROVE  Sum(h, S) = h[x].size + Sum(h, S \ {x})
<1> DEFINE Any(s) == \A a \in s : Sum(h, s) = h[a].size + Sum(h, s \ {a})
           T == {s \in SUBSET S : ~ Any(s)}
<1>1. ASSUME T # {}
      PROVE  FALSE
  <2>1. T \subseteq SUBSET S
    OBVIOUS
  <2>2. PICK m \in T : \A a \in m : m \ {a} \notin T
    BY <1>1, <2>1, LeastSet
  <2>3. m \in SUBSET S /\ IsFiniteSet(m)
    BY <2>1, FS_Subset
  <2>4. \A a \in m : Any(m \ {a})
    BY <2>2, <2>3
  <2> DEFINE c == CHOOSE a \in m : TRUE
  <2>5. ASSUME NEW a \in m
        PROVE  Sum(h, m) = h[a].size + Sum(h, m \ {a})
    <3>1. c \in m
      BY ChosenIsIn
    <3>2. Sum(h, m) = h[c].size + Sum(h, m \ {c})
      BY <2>3, <2>5, SumEquation
    <3> HIDE DEF c, T
    <3>3. CASE a = c
      BY <3>2, <3>3
    <3>4. CASE a # c
      <4> DEFINE n == m \ {a, c}
      <4>1. (m \ {c}) \ {a} = n /\ (m \ {a}) \ {c} = n /\ a \in m \ {c} /\ c \in m \ {a}
        BY <3>1, <3>4
      <4>2. Sum(h, m \ {c}) = h[a].size + Sum(h, n)
        BY <2>4, <3>1, <4>1
      <4>3. Sum(h, m \ {a}) = h[c].size + Sum(h, n)
        BY <2>4, <2>5, <4>1
      <4>4. h[a].size \in Int /\ h[c].size \in Int
        BY <2>3, <3>1 DEF Sized
      <4>5. Sum(h, n) \in Int
        <5>1. n \in SUBSET S /\ IsFiniteSet(n)
          BY <2>3, FS_Subset
        <5>2. Sized(h, n)
          BY <5>1 DEF Sized
        <5> QED
          BY <5>1, <5>2, SumIsInt
      <4> HIDE DEF n
      <4> QED
        BY <3>2, <4>2, <4>3, <4>4, <4>5
    <3> QED
      BY <3>3, <3>4
  <2> QED
    BY <2>2, <2>5
<1>2. Any(S)
  BY <1>1
<1> QED
  BY <1>2

\* The sum looks at no other block.
LEMMA SumSame ==
  ASSUME NEW h, NEW g, NEW S, IsFiniteSet(S), \A a \in S : h[a].size = g[a].size
  PROVE  Sum(h, S) = Sum(g, S)
<1> DEFINE T == {s \in SUBSET S : Sum(h, s) # Sum(g, s)}
<1> SUFFICES ASSUME T # {}
             PROVE  FALSE
  OBVIOUS
<1>1. T \subseteq SUBSET S
  OBVIOUS
<1>2. PICK m \in T : \A a \in m : m \ {a} \notin T
  BY <1>1, LeastSet
<1>3. m \in SUBSET S /\ IsFiniteSet(m) /\ Sum(h, m) # Sum(g, m)
  BY FS_Subset
<1>4. \A a \in m : Sum(h, m \ {a}) = Sum(g, m \ {a})
  BY <1>2
<1>5. m # {}
  BY <1>3, SumEquation
<1> DEFINE c == CHOOSE a \in m : TRUE
<1>6. c \in m
  BY <1>5, ChosenIsIn
<1>7. Sum(h, m) = h[c].size + Sum(h, m \ {c}) /\ Sum(g, m) = g[c].size + Sum(g, m \ {c})
  BY <1>3, <1>5, SumEquation
<1> HIDE DEF c, T
<1> QED
  BY <1>3, <1>4, <1>6, <1>7

-----------------------------------------------------------------------------
(* The used memory *)

\* The blocks the program holds.
Held == {a \in Addrs : Live(a)}

\* The inductive invariant of the tracer: the number it keeps, and that the
\* mark before a block tells whether the program holds it, without which a block
\* could be given back twice and taken off the number twice.
MemInv ==
  /\ heap \in [Addrs -> BlockSet \cup {Empty}]
  /\ IsFiniteSet(Held)
  /\ allocated = Sum(heap, Held)
  /\ \A a \in Addrs : Used(a) => (heap[a].beg <=> heap[a].live)

\* What is held has a size.
LEMMA HeldSizes ==
  ASSUME MemInv
  PROVE  /\ \A a \in Addrs : Used(a) => heap[a] \in BlockSet
         /\ Sized(heap, Held) /\ allocated \in Int
<1>1. \A a \in Addrs : Used(a) => heap[a] \in BlockSet
  BY DEF MemInv, Used
<1>2. \A a \in Held : Used(a) /\ a \in Addrs
  BY DEF Held, Live, Used
<1>3. Sized(heap, Held)
  BY <1>1, <1>2 DEF Sized, BlockSet
<1> QED
  BY <1>1, <1>3, SumIsInt DEF MemInv

\* What malloc gives is a block, and so is what free leaves.
LEMMA BlockFacts ==
  /\ \A n \in Nat : /\ Block(n) \in BlockSet /\ Block(n) # Empty /\ Block(n).size = n
                    /\ Block(n).live = TRUE /\ Block(n).beg = TRUE
  /\ Dead \in BlockSet /\ Dead.live = FALSE /\ Dead.beg = FALSE
<1>1. \A n \in Nat : /\ Block(n) \in BlockSet /\ Block(n).size = n
                     /\ Block(n).live = TRUE /\ Block(n).beg = TRUE
  BY DEF Block, BlockSet
<1>2. Dead \in BlockSet /\ Dead.live = FALSE /\ Dead.beg = FALSE
  BY DEF Dead, BlockSet
<1> QED
  BY <1>1, <1>2, MemAssumption

\* g has the sizes of h at S, where x is not.
Apart(h, g, S, x) ==
  /\ x \notin S /\ IsFiniteSet(S) /\ Sized(h, S)
  /\ h[x].size \in Int /\ \A a \in S : g[a].size = h[a].size

\* The block of h at x adds its size to those at S.
Adds(h, g, S, x) ==
  /\ IsFiniteSet(S \cup {x})
  /\ Sum(h, S \cup {x}) = h[x].size + Sum(g, S)
  /\ Sum(g, S) \in Int

\* A block more or less is its size more or less, if the others stay.
LEMMA OneBlock ==
  ASSUME NEW h, NEW g, NEW S, NEW x, Apart(h, g, S, x)
  PROVE  Adds(h, g, S, x)
<1> DEFINE R == S \cup {x}
<1>1. IsFiniteSet(R) /\ x \in R /\ R \ {x} = S
  BY FS_AddElement DEF Apart
<1>2. Sized(h, R)
  BY DEF Sized, Apart
<1>3. Sum(h, R) = h[x].size + Sum(h, S)
  <2> HIDE DEF R
  <2> QED
    BY <1>1, <1>2, SumAny
<1>4. Sum(h, S) = Sum(g, S)
  BY SumSame DEF Apart
<1>5. Sum(h, S) \in Int
  BY SumIsInt DEF Apart
<1> QED
  BY <1>1, <1>3, <1>4, <1>5 DEF Adds

\* utl_malloc takes an address where no block is held.
LEMMA MallocCounts ==
  ASSUME MemInv, Malloc
  PROVE  MemInv'
<1>1. PICK x \in Addrs, n \in Sizes :
        ~ Live(x) /\ heap' = [heap EXCEPT ![x] = Block(n)] /\ allocated' = allocated + n
  BY DEF Malloc
<1>2. n \in Nat /\ Block(n) \in BlockSet /\ Block(n).size = n /\ Block(n).live = TRUE
      /\ Block(n).beg = TRUE /\ Block(n) # Empty
  BY BlockFacts, MemAssumption
<1>3. heap \in [Addrs -> BlockSet \cup {Empty}] /\ IsFiniteSet(Held) /\ allocated = Sum(heap, Held)
      /\ \A a \in Addrs : Used(a) => (heap[a].beg <=> heap[a].live)
  BY DEF MemInv
<1>4. heap' \in [Addrs -> BlockSet \cup {Empty}] /\ heap'[x] = Block(n)
      /\ \A a \in Addrs : a # x => heap'[a] = heap[a]
  BY <1>1, <1>2, <1>3
<1>5. Held' = Held \cup {x} /\ x \notin Held
  BY <1>1, <1>2, <1>4 DEF Held, Live
<1>6. Sized(heap', Held) /\ \A a \in Held : heap[a].size = heap'[a].size
  BY <1>4, <1>5, HeldSizes DEF Held, Sized
<1>7. heap'[x].size \in Int
  BY <1>2, <1>4
<1>8. /\ IsFiniteSet(Held \cup {x})
      /\ Sum(heap', Held \cup {x}) = heap'[x].size + Sum(heap, Held)
      /\ Sum(heap, Held) \in Int
  <2>1. Apart(heap', heap, Held, x)
    BY <1>3, <1>5, <1>6, <1>7 DEF Apart
  <2>2. Adds(heap', heap, Held, x)
    BY <2>1, OneBlock
  <2> QED
    BY <2>2, Zenon DEF Adds
<1>9. allocated' = Sum(heap', Held')
  BY <1>1, <1>2, <1>3, <1>4, <1>5, <1>8
<1>10. \A a \in Addrs : Used(a)' => (heap'[a].beg <=> heap'[a].live)
  BY <1>2, <1>3, <1>4 DEF Used
<1> QED
  BY <1>4, <1>5, <1>8, <1>9, <1>10 DEF MemInv

\* utl_free takes a block off the number that is held.
LEMMA FreeCounts ==
  ASSUME MemInv, Free
  PROVE  MemInv'
<1>1. PICK x \in Addrs :
        Used(x) /\ heap[x].beg /\ heap' = [heap EXCEPT ![x] = Dead] /\ allocated' = allocated - heap[x].size
  BY DEF Free
<1>2. Dead \in BlockSet /\ Dead.live = FALSE /\ Dead.beg = FALSE
  BY BlockFacts
<1>3. heap \in [Addrs -> BlockSet \cup {Empty}] /\ IsFiniteSet(Held) /\ allocated = Sum(heap, Held)
      /\ \A a \in Addrs : Used(a) => (heap[a].beg <=> heap[a].live)
  BY DEF MemInv
<1>4. heap' \in [Addrs -> BlockSet \cup {Empty}] /\ heap'[x] = Dead
      /\ \A a \in Addrs : a # x => heap'[a] = heap[a]
  BY <1>1, <1>2, <1>3
<1> DEFINE S == Held'
<1>5. x \in Held
  BY <1>1, <1>3 DEF Held, Live, Used
<1>6. Held = S \cup {x} /\ x \notin S
  BY <1>2, <1>4, <1>5 DEF Held, Live
<1>7. IsFiniteSet(S) /\ Sized(heap, S) /\ heap[x].size \in Int
      /\ \A a \in S : heap'[a].size = heap[a].size
  <2>1. \A a \in S : a \in Held /\ a \in Addrs /\ a # x
    BY <1>6 DEF Held
  <2>2. IsFiniteSet(S)
    BY <1>3, <1>6, FS_Subset
  <2> QED
    BY <1>4, <1>5, <2>1, <2>2, HeldSizes DEF Sized
<1> HIDE DEF S
<1>8. /\ Sum(heap, S \cup {x}) = heap[x].size + Sum(heap', S)
      /\ Sum(heap', S) \in Int
  <2>1. Apart(heap, heap', S, x)
    BY <1>6, <1>7 DEF Apart
  <2>2. Adds(heap, heap', S, x)
    BY <2>1, OneBlock
  <2> QED
    BY <2>2, Zenon DEF Adds
<1>9. allocated' = Sum(heap', S)
  BY <1>1, <1>3, <1>6, <1>7, <1>8
<1>10. \A a \in Addrs : Used(a)' => (heap'[a].beg <=> heap'[a].live)
  BY <1>2, <1>3, <1>4 DEF Used
<1> QED
  BY <1>4, <1>7, <1>9, <1>10 DEF MemInv, S

\* utl_realloc gives a block back and takes another one, or the same again.
LEMMA ReallocCounts ==
  ASSUME MemInv, Realloc
  PROVE  MemInv'
<1>1. PICK x \in Addrs, y \in Addrs, n \in Sizes \ {0} :
        /\ Used(x) /\ Valid(x) /\ (y = x \/ ~ Live(y))
        /\ heap' = [heap EXCEPT ![x] = Dead, ![y] = Block(n)]
        /\ allocated' = Resized(x, n)
  BY DEF Realloc
<1>2. n \in Nat /\ Block(n) \in BlockSet /\ Block(n).size = n /\ Block(n).live = TRUE
      /\ Block(n).beg = TRUE /\ Block(n) # Empty
      /\ Dead \in BlockSet /\ Dead.live = FALSE /\ Dead.beg = FALSE
  BY BlockFacts, MemAssumption
<1>3. heap \in [Addrs -> BlockSet \cup {Empty}] /\ IsFiniteSet(Held) /\ allocated = Sum(heap, Held)
      /\ \A a \in Addrs : Used(a) => (heap[a].beg <=> heap[a].live)
  BY DEF MemInv
<1>4. heap' \in [Addrs -> BlockSet \cup {Empty}] /\ heap'[y] = Block(n)
      /\ (x # y => heap'[x] = Dead)
      /\ \A a \in Addrs : a # x /\ a # y => heap'[a] = heap[a]
  BY <1>1, <1>2, <1>3
<1> DEFINE S == Held \ {x}
<1>5. x \in Held
  BY <1>1, <1>3 DEF Held, Live, Used, Valid
<1>6. Held = S \cup {x} /\ x \notin S /\ y \notin S
  BY <1>1, <1>5 DEF Held
<1>7. Held' = S \cup {y}
  BY <1>1, <1>2, <1>4 DEF Held, Live
<1>8. IsFiniteSet(S) /\ Sized(heap, S) /\ heap[x].size \in Int
  BY <1>3, <1>5, FS_Subset, HeldSizes DEF Sized
<1>9. \A a \in S : heap'[a].size = heap[a].size /\ heap[a].size = heap'[a].size
  BY <1>4, <1>6 DEF Held
<1>10. Sized(heap', S) /\ heap'[y].size \in Int
  BY <1>2, <1>4, <1>8, <1>9 DEF Sized
<1> HIDE DEF S
<1>11. /\ Sum(heap, S \cup {x}) = heap[x].size + Sum(heap', S)
       /\ Sum(heap', S) \in Int
  <2>1. Apart(heap, heap', S, x)
    BY <1>6, <1>8, <1>9 DEF Apart
  <2>2. Adds(heap, heap', S, x)
    BY <2>1, OneBlock
  <2> QED
    BY <2>2, Zenon DEF Adds
<1>12. /\ IsFiniteSet(S \cup {y})
       /\ Sum(heap', S \cup {y}) = heap'[y].size + Sum(heap', S)
  <2>1. Apart(heap', heap', S, y)
    BY <1>6, <1>8, <1>10 DEF Apart
  <2>2. Adds(heap', heap', S, y)
    BY <2>1, OneBlock
  <2> QED
    BY <2>2, Zenon DEF Adds
<1>13. allocated' = Sum(heap', Held')
  BY <1>1, <1>2, <1>3, <1>4, <1>6, <1>7, <1>8, <1>11, <1>12 DEF Resized
<1>14. \A a \in Addrs : Used(a)' => (heap'[a].beg <=> heap'[a].live)
  BY <1>2, <1>3, <1>4 DEF Used
<1> QED
  BY <1>4, <1>7, <1>12, <1>13, <1>14 DEF MemInv

\* Writing beyond the end of a block changes no size.
LEMMA OverrunCounts ==
  ASSUME MemInv, Overrun
  PROVE  MemInv'
<1>1. PICK x \in Addrs : Live(x) /\ heap' = [heap EXCEPT ![x].end = FALSE] /\ allocated' = allocated
  BY DEF Overrun
<1>2. heap \in [Addrs -> BlockSet \cup {Empty}] /\ IsFiniteSet(Held) /\ allocated = Sum(heap, Held)
      /\ \A a \in Addrs : Used(a) => (heap[a].beg <=> heap[a].live)
  BY DEF MemInv
<1>3. heap[x] \in BlockSet
  BY <1>1, <1>2 DEF Live
<1> DEFINE b == [heap[x] EXCEPT !.end = FALSE]
<1>4. b \in BlockSet /\ b.size = heap[x].size /\ b.live = heap[x].live /\ b.beg = heap[x].beg
  BY <1>3 DEF BlockSet
<1>5. heap' = [heap EXCEPT ![x] = b]
  BY <1>1
<1>6. b # Empty
  BY <1>4, MemAssumption
<1> HIDE DEF b
<1>7. /\ heap' \in [Addrs -> BlockSet \cup {Empty}] /\ heap'[x] = b
      /\ \A a \in Addrs : a # x => heap'[a] = heap[a]
  BY <1>2, <1>4, <1>5
<1>8. Held' = Held
  BY <1>1, <1>4, <1>6, <1>7 DEF Held, Live
<1>9. \A a \in Held : heap[a].size = heap'[a].size
  BY <1>4, <1>7 DEF Held
<1>10. Sum(heap, Held) = Sum(heap', Held)
  BY <1>2, <1>9, SumSame
<1>11. \A a \in Addrs : Used(a)' => (heap'[a].beg <=> heap'[a].live)
  BY <1>1, <1>2, <1>4, <1>7 DEF Used, Live
<1> QED
  BY <1>1, <1>2, <1>7, <1>8, <1>10, <1>11 DEF MemInv

\* The program holds no block at first.
LEMMA NothingHeld == MemInit => MemInv
<1> SUFFICES ASSUME MemInit
             PROVE  MemInv
  OBVIOUS
<1>1. heap = [a \in Addrs |-> Empty] /\ allocated = 0
  BY DEF MemInit
<1>2. Held = {} /\ \A a \in Addrs : ~ Used(a)
  BY <1>1 DEF Held, Live, Used
<1>3. IsFiniteSet(Held) /\ Sum(heap, Held) = 0
  BY <1>2, FS_EmptySet, SumEquation
<1> QED
  BY <1>1, <1>2, <1>3 DEF MemInv

\* utl_mem_used is the size of all the blocks the program holds, and a block
\* is marked exactly as long as it is held, for any blocks, sizes and faults of
\* the program, in the middle of any nesting of exceptions and watches.
THEOREM UsedIsCounted == Spec => []UsedIsLive
<1>1. Init => MemInv
  BY NothingHeld DEF Init
<1>2. ASSUME MemInv, [Next]_vars
      PROVE  MemInv'
  <2>1. ASSUME UNCHANGED mem
        PROVE  MemInv'
    <3>1. heap' = heap /\ allocated' = allocated
      BY <2>1 DEF mem
    <3>2. Held' = Held
      BY <3>1 DEF Held, Live
    <3> QED
      BY <1>2, <3>1, <3>2 DEF MemInv, Used
  <2>2. CASE Next
    BY <1>2, <2>1, <2>2, MallocCounts, FreeCounts, ReallocCounts, OverrunCounts
    DEF Next, Trace, Allocation
  <2>3. CASE UNCHANGED vars
    BY <2>1, <2>3 DEF vars
  <2> QED
    BY <1>2, <2>2, <2>3
<1>3. MemInv => UsedIsLive
  <2>1. MapThenSumSet(LAMBDA a : heap[a].size, Held) = Sum(heap, Held)
    BY SumIs
  <2> QED
    BY <2>1 DEF MemInv, UsedIsLive, Held
<1> QED
  BY <1>1, <1>2, <1>3, PTL DEF Spec
=============================================================================
