----------------------------- MODULE NatLemmas ------------------------------
(***************************************************************************)
(* Induction over numbers, in the form the proofs of this project use it:  *)
(* a claim about every natural number is proved by looking at the least    *)
(* number it fails for.                                                    *)
(***************************************************************************)
EXTENDS Integers, WellFoundedInduction, TLAPS

(* Every set of natural numbers that is not empty has a least element.     *)
THEOREM LeastNatural ==
  ASSUME NEW T, T \subseteq Nat, T # {}
  PROVE  \E x \in T : \A y \in T : x <= y
<1> DEFINE R == OpToRel(<, Nat)
<1>1. IsWellFoundedOn(R, Nat)
  BY NatLessThanWellFounded
<1>2. \A x, y \in Nat : y < x => << y, x >> \in R
  BY DEF OpToRel
<1> HIDE DEF R
<1>3. PICK x \in T : \A y \in T : << y, x >> \notin R
  BY <1>1, WFMin
<1>4. \A y \in T : ~ (y < x)
  BY <1>2, <1>3
<1> QED
  BY <1>4

(* A loop that stops: a recursive function whose every turn lowers a        *)
(* measure exists.                                                          *)
TailTurn(f, x, stop, next) == IF stop[x] THEN x ELSE f[next[x]]

Shrinks(S, stop, next, m, N) ==
  /\ \A x \in S : m[x] \in 0 .. N
  /\ \A x \in S : ~ stop[x] => next[x] \in S /\ m[next[x]] < m[x]

THEOREM LoopExists ==
  ASSUME NEW S, NEW stop, NEW next, NEW m, NEW N \in Nat, Shrinks(S, stop, next, m, N)
  PROVE  \E f : f = [x \in S |-> TailTurn(f, x, stop, next)]
<1> DEFINE UpTo(f, n) == \A x \in S : m[x] < n => f[x] = TailTurn(f, x, stop, next)
           T == {n \in Nat : ~ \E f : UpTo(f, n)}
<1> USE DEF Shrinks
<1>1. UpTo(m, 0)
  OBVIOUS
<1>2. ASSUME NEW n \in Nat, NEW f, UpTo(f, n) PROVE \E g : UpTo(g, n + 1)
  <2> DEFINE g == [x \in S |-> IF m[x] < n THEN f[x] ELSE TailTurn(f, x, stop, next)]
  <2>1. ASSUME NEW x \in S, m[x] < n + 1 PROVE g[x] = TailTurn(g, x, stop, next)
    <3>1. g[x] = TailTurn(f, x, stop, next)
      BY <1>2
    <3>2. ~ stop[x] => next[x] \in S /\ m[next[x]] < n
      BY <2>1
    <3>3. ~ stop[x] => g[next[x]] = f[next[x]]
      BY <3>2
    <3> QED
      BY <3>1, <3>3 DEF TailTurn
  <2>2. UpTo(g, n + 1)
    BY <2>1
  <2> QED
    BY <2>2
<1>3. T = {}
  <2>1. SUFFICES ASSUME T # {} PROVE FALSE
    OBVIOUS
  <2>2. T \subseteq Nat
    OBVIOUS
  <2> HIDE DEF UpTo
  <2>3. PICK n \in T : \A k \in T : n <= k
    <3> HIDE DEF T
    <3> QED
      BY <2>1, <2>2, LeastNatural
  <2>4. n # 0 /\ n \in Nat
    BY <1>1, <2>3
  <2>5. n - 1 \in Nat /\ n - 1 \notin T
    BY <2>3, <2>4
  <2>6. PICK f : UpTo(f, n - 1)
    BY <2>5
  <2>7. \E g : UpTo(g, (n - 1) + 1)
    BY <1>2, <2>5, <2>6
  <2> QED
    BY <2>3, <2>4, <2>7
<1>4. PICK f : UpTo(f, N + 1)
  <2> HIDE DEF UpTo
  <2> QED
    BY <1>3
<1> DEFINE g == [x \in S |-> f[x]]
<1>5. ASSUME NEW x \in S PROVE g[x] = TailTurn(g, x, stop, next)
  <2>1. f[x] = TailTurn(f, x, stop, next)
    BY <1>4
  <2>2. ~ stop[x] => g[next[x]] = f[next[x]]
    OBVIOUS
  <2> QED
    BY <2>1, <2>2 DEF TailTurn
<1>6. g = [x \in S |-> TailTurn(g, x, stop, next)]
  BY <1>5
<1> QED
  BY <1>6

(* What a loop leaves, by the turn that is nearest to its end: a value is  *)
(* in R, or is that of a later turn.                                       *)
THEOREM LoopLeaves ==
  ASSUME NEW I, NEW R, NEW f, NEW m,
         \A x \in I : m[x] \in Nat,
         \A x \in I : f[x] \in R \/ \E y \in I : m[y] < m[x] /\ f[y] = f[x]
  PROVE  \A x \in I : f[x] \in R
<1> DEFINE T == {m[x] : x \in {x \in I : f[x] \notin R}}
<1>1. SUFFICES ASSUME T # {} PROVE FALSE
  OBVIOUS
<1>2. T \subseteq Nat
  OBVIOUS
<1>3. PICK n \in T : \A k \in T : n <= k
  <2> HIDE DEF T
  <2> QED
    BY <1>1, <1>2, LeastNatural
<1>4. PICK x \in I : f[x] \notin R /\ m[x] = n
  BY <1>3
<1>5. PICK y \in I : m[y] < m[x] /\ f[y] = f[x]
  BY <1>4
<1>6. m[y] \in T
  BY <1>4, <1>5
<1> QED
  BY <1>3, <1>4, <1>5, <1>6
=============================================================================
