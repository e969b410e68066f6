----------------------------- MODULE Vec_proof ------------------------------
(***************************************************************************)
(* Proofs about vectors and the sort.  First the sort: every turn of its   *)
(* loops keeps the elements of the range at work inside that range, and    *)
(* what it has put in order stays in order; the order is a function R from *)
(* elements to numbers, as in Rank[cmp].  Then vectors: the storage is     *)
(* always large enough for the elements, the SORTED flag never lies, a     *)
(* sort never puts two elements out of order again, and the binary search  *)
(* finds what is there.  Last the buffers and symbol tables built on them: *)
(* what each way of writing to a storage leaves, and that a buffer holds   *)
(* its text and an id its name, for texts and storages of any size.        *)
(***************************************************************************)
EXTENDS Strings, NatLemmas, SequenceTheorems, FiniteSetTheorems, FunctionTheorems

Entries(s) == {s[k] : k \in 1 .. Len(s)}

\* Two ranges share a position.
Meet(q, s) == \E i \in Int : InRange(i, q) /\ InRange(i, s)

AllApart(s) == \A k, m \in 1 .. Len(s) : k < m => ~ Meet(s[k], s[m])

\* Two of the first n elements out of order share a range of S.
InPlace(R, f, n, S) ==
  \A i, j \in 0 .. n - 1 :
    i < j /\ R[f[i]] > R[f[j]] => \E rng \in S : InRange(i, rng) /\ InRange(j, rng)

\* g has the elements of f, but for those from lo to hi, which come from there.
Moves(f, g, n, lo, hi) ==
  \A i \in 0 .. n - 1 :
    IF lo <= i /\ i <= hi THEN \E k \in lo .. hi : g[i] = f[k] ELSE g[i] = f[i]

Ascending(R, f, lo, hi) == \A i, j \in lo .. hi : i < j => R[f[i]] <= R[f[j]]

\* What the partition has done when it looks at element k.
Parted(R, f, lo, hi, l, k, g) ==
  /\ lo < l /\ l <= k /\ k <= g + 2 /\ l - 1 <= g /\ g < hi /\ k <= hi
  /\ R[f[lo]] <= R[f[hi]]
  /\ \A i \in lo + 1 .. l - 1 : R[f[i]] < R[f[lo]]
  /\ \A i \in l .. k - 1 : i <= g => R[f[lo]] <= R[f[i]] /\ R[f[i]] <= R[f[hi]]
  /\ \A i \in g + 1 .. hi - 1 : R[f[i]] > R[f[hi]]

SortTypes ==
  /\ cnt \in Nat /\ cmp \in Cmps
  /\ vec \in [DOMAIN vec -> Elems]
  /\ 0 .. cnt - 1 \subseteq DOMAIN vec /\ DOMAIN vec \subseteq Int
  /\ stack \in Seq(Int \X Int)
  /\ \A rng \in Entries(stack) : rng[1] \in 0 .. cnt + 1 /\ rng[2] \in -2 .. cnt - 1
  /\ pc \in {"pop", "insert", "part"}
  /\ left \in Int /\ right \in Int /\ L \in Int /\ K \in Int /\ G \in Int
  /\ pc # "pop" => /\ 0 <= left /\ left < right /\ right < cnt
                   /\ K \in left + 1 .. right

RangesApart ==
  /\ AllApart(stack)
  /\ pc # "pop" => \A rng \in Entries(stack) : ~ Meet(rng, << left, right >>)

AtWork ==
  /\ pc = "insert" => Ascending(Rank[cmp], vec, left, K - 1)
  /\ pc = "part" => Parted(Rank[cmp], vec, left, right, L, K, G)

\* The inductive invariant of a sort.
SortInv == SortTypes /\ RangesApart /\ AtWork /\ InPlace(Rank[cmp], vec, cnt, Open)

USE RankAssumption, SmallAssumption

-----------------------------------------------------------------------------
(* Functions *)

\* A swap exchanges two elements and leaves the others.
LEMMA SwapFacts ==
  ASSUME NEW D, NEW f \in [D -> Elems], NEW i \in D, NEW j \in D
  PROVE  /\ Swapped(f, i, j) \in [D -> Elems]
         /\ Swapped(f, i, j)[i] = f[j] /\ Swapped(f, i, j)[j] = f[i]
         /\ \A k \in D : k # i /\ k # j => Swapped(f, i, j)[k] = f[k]
BY DEF Swapped

\* A swap within a range moves elements within it only.
LEMMA SwapMoves ==
  ASSUME NEW D, NEW f \in [D -> Elems], NEW n \in Nat, 0 .. n - 1 \subseteq D,
         NEW lo \in Int, NEW hi \in Int, 0 <= lo, hi < n,
         NEW i \in lo .. hi, NEW j \in lo .. hi
  PROVE  Moves(f, Swapped(f, i, j), n, lo, hi)
<1>1. i \in D /\ j \in D
  OBVIOUS
<1>2. \A k \in 0 .. n - 1 : k \in D
  OBVIOUS
<1> SUFFICES ASSUME NEW k \in 0 .. n - 1
             PROVE IF lo <= k /\ k <= hi THEN \E m \in lo .. hi : Swapped(f, i, j)[k] = f[m]
                   ELSE Swapped(f, i, j)[k] = f[k]
  BY DEF Moves
<1>3. Swapped(f, i, j)[i] = f[j] /\ Swapped(f, i, j)[j] = f[i]
      /\ (k # i /\ k # j => Swapped(f, i, j)[k] = f[k])
  BY <1>1, <1>2 DEF Swapped
<1>4. CASE lo <= k /\ k <= hi
  <2>1. k \in lo .. hi
    BY <1>4
  <2> QED
    BY <1>3, <1>4, <2>1
<1>5. CASE ~ (lo <= k /\ k <= hi)
  <2>1. k # i /\ k # j
    BY <1>5
  <2> QED
    BY <1>3, <1>5, <2>1
<1> QED
  BY <1>4, <1>5

\* Two moves within a range are one.
LEMMA MovesTwice ==
  ASSUME NEW f, NEW g, NEW h, NEW n \in Nat, NEW lo \in Int, NEW hi \in Int, 0 <= lo, hi < n,
         Moves(f, g, n, lo, hi), Moves(g, h, n, lo, hi)
  PROVE  Moves(f, h, n, lo, hi)
<1> SUFFICES ASSUME NEW i \in 0 .. n - 1
             PROVE IF lo <= i /\ i <= hi THEN \E k \in lo .. hi : h[i] = f[k] ELSE h[i] = f[i]
  BY DEF Moves
<1>1. CASE lo <= i /\ i <= hi
  <2>1. PICK k \in lo .. hi : h[i] = g[k]
    BY <1>1 DEF Moves
  <2>2. k \in 0 .. n - 1 /\ lo <= k /\ k <= hi
    OBVIOUS
  <2>3. PICK m \in lo .. hi : g[k] = f[m]
    BY <2>2 DEF Moves
  <2> QED
    BY <1>1, <2>1, <2>3
<1>2. CASE ~ (lo <= i /\ i <= hi)
  BY <1>2 DEF Moves
<1> QED
  BY <1>1, <1>2

(* Elements that move inside one range stay in order with all others: if   *)
(* those of the range that are out of order share a range of T, it may be  *)
(* replaced by T.                                                          *)
LEMMA Permuted ==
  ASSUME NEW R \in [Elems -> Int], NEW f, NEW g, NEW n \in Nat,
         \A k \in 0 .. n - 1 : f[k] \in Elems /\ g[k] \in Elems,
         NEW lo \in Int, NEW hi \in Int, 0 <= lo, hi < n,
         NEW S, \A rng \in S : ~ Meet(rng, << lo, hi >>), NEW T,
         InPlace(R, f, n, S \cup {<< lo, hi >>}), Moves(f, g, n, lo, hi),
         \A i, j \in lo .. hi : i < j /\ R[g[i]] > R[g[j]] =>
            \E rng \in T : InRange(i, rng) /\ InRange(j, rng)
  PROVE  InPlace(R, g, n, S \cup T)
<1> SUFFICES ASSUME NEW i \in 0 .. n - 1, NEW j \in 0 .. n - 1, i < j, R[g[i]] > R[g[j]]
             PROVE  \E rng \in S \cup T : InRange(i, rng) /\ InRange(j, rng)
  BY DEF InPlace
<1>1. \/ i \in lo .. hi /\ j \in lo .. hi
      \/ \E rng \in S : InRange(i, rng) /\ InRange(j, rng)
  <2> DEFINE In(k) == lo <= k /\ k <= hi
  <2>1. \A k \in Int : InRange(k, << lo, hi >>) <=> In(k)
    BY DEF InRange
  <2>2. i \in Int /\ j \in Int
    OBVIOUS
  <2>3. CASE In(i) /\ In(j)
    BY <2>3
  <2>4. CASE ~ In(i) /\ In(j)
    <3>1. PICK k \in lo .. hi : g[j] = f[k]
      BY <2>4 DEF Moves
    <3>2. g[i] = f[i] /\ i < k /\ k \in 0 .. n - 1
      BY <2>4 DEF Moves
    <3>3. R[f[i]] > R[f[k]]
      BY <3>1, <3>2
    <3>4. PICK rng \in S \cup {<< lo, hi >>} : InRange(i, rng) /\ InRange(k, rng)
      BY <3>2, <3>3 DEF InPlace
    <3>5. ~ InRange(i, << lo, hi >>)
      BY <2>1, <2>4, <2>2, Zenon
    <3>6. rng \in S
      BY <3>4, <3>5
    <3> QED
      BY <2>1, <3>4, <3>6 DEF Meet
  <2>5. CASE In(i) /\ ~ In(j)
    <3>1. PICK k \in lo .. hi : g[i] = f[k]
      BY <2>5 DEF Moves
    <3>2. g[j] = f[j] /\ k < j /\ k \in 0 .. n - 1
      BY <2>5 DEF Moves
    <3>3. R[f[k]] > R[f[j]]
      BY <3>1, <3>2
    <3>4. PICK rng \in S \cup {<< lo, hi >>} : InRange(k, rng) /\ InRange(j, rng)
      BY <3>2, <3>3 DEF InPlace
    <3>5. ~ InRange(j, << lo, hi >>)
      BY <2>1, <2>5, <2>2, Zenon
    <3>6. rng \in S
      BY <3>4, <3>5
    <3> QED
      BY <2>1, <3>4, <3>6 DEF Meet
  <2>6. CASE ~ In(i) /\ ~ In(j)
    <3>1. g[i] = f[i] /\ g[j] = f[j]
      BY <2>6 DEF Moves
    <3>2. PICK rng \in S \cup {<< lo, hi >>} : InRange(i, rng) /\ InRange(j, rng)
      BY <3>1 DEF InPlace
    <3> QED
      BY <2>1, <2>6, <3>2
  <2> QED
    BY <2>3, <2>4, <2>5, <2>6
<1> QED
  BY <1>1

(* The range at work stays open.                                           *)
LEMMA PermutedOpen ==
  ASSUME NEW R \in [Elems -> Int], NEW f, NEW g, NEW n \in Nat,
         \A k \in 0 .. n - 1 : f[k] \in Elems /\ g[k] \in Elems,
         NEW lo \in Int, NEW hi \in Int, 0 <= lo, hi < n,
         NEW S, \A rng \in S : ~ Meet(rng, << lo, hi >>),
         InPlace(R, f, n, S \cup {<< lo, hi >>}), Moves(f, g, n, lo, hi)
  PROVE  InPlace(R, g, n, S \cup {<< lo, hi >>})
<1>1. \A i \in lo .. hi : InRange(i, << lo, hi >>)
  BY DEF InRange
<1> DEFINE T == {<< lo, hi >>}
<1>2. \A i, j \in lo .. hi : i < j /\ R[g[i]] > R[g[j]] =>
            \E rng \in T : InRange(i, rng) /\ InRange(j, rng)
  BY <1>1
<1>3. InPlace(R, f, n, S \cup {<< lo, hi >>})
  OBVIOUS
<1> HIDE DEF T
<1>4. InPlace(R, g, n, S \cup T)
  BY <1>2, <1>3, Permuted
<1> QED
  BY <1>4 DEF T

-----------------------------------------------------------------------------
(* The stack *)

\* What is left of the stack when its last range is taken.
LEMMA PopEntries ==
  ASSUME NEW s \in Seq(Int \X Int), s # <<>>
  PROVE  LET b == SubSeq(s, 1, Len(s) - 1)
         IN b \in Seq(Int \X Int) /\ Len(b) = Len(s) - 1 /\ \A k \in 1 .. Len(b) : b[k] = s[k]
<1> DEFINE b == SubSeq(s, 1, Len(s) - 1)
<1>0. Len(s) \in Nat \ {0}
  OBVIOUS
<1>1. Len(s) - 1 \in Int /\ 1 \in Int /\ \A k \in 1 .. Len(s) - 1 : s[k] \in Int \X Int
  BY <1>0
<1>2. /\ b \in Seq(Int \X Int)
      /\ Len(b) = IF 1 <= Len(s) - 1 THEN Len(s) - 1 - 1 + 1 ELSE 0
      /\ \A k \in 1 .. Len(s) - 1 - 1 + 1 : b[k] = s[1 + k - 1]
  <2> HIDE DEF b
  <2>1. b = SubSeq(s, 1, Len(s) - 1)
    BY DEF b
  <2> QED
    BY <1>1, <2>1, SubSeqProperties, SMTT(20)
<1> HIDE DEF b
<1>3. Len(b) = IF 1 <= Len(s) - 1 THEN Len(s) - 1 - 1 + 1 ELSE 0
  BY <1>2
<1>4. Len(b) = Len(s) - 1
  <2>1. \A n \in Nat \ {0} : (IF 1 <= n - 1 THEN n - 1 - 1 + 1 ELSE 0) = n - 1
    OBVIOUS
  <2> QED
    BY <1>0, <1>3, <2>1, Zenon
<1>5. Len(s) - 1 - 1 + 1 = Len(b)
  BY <1>0, <1>4
<1>6. Len(b) = Len(s) - 1 /\ 1 .. Len(s) - 1 - 1 + 1 = 1 .. Len(b)
  BY <1>4, <1>5
<1>7. \A k \in 1 .. Len(b) : 1 + k - 1 = k
  BY <1>0, <1>6
<1> QED
  BY <1>2, <1>6, <1>7 DEF b

\* The range taken from the stack meets none of those that stay.
LEMMA PopStack ==
  ASSUME NEW s \in Seq(Int \X Int), s # <<>>, AllApart(s)
  PROVE  LET b == SubSeq(s, 1, Len(s) - 1)
             t == s[Len(s)]
         IN /\ b \in Seq(Int \X Int) /\ t \in Int \X Int
            /\ AllApart(b) /\ \A rng \in Entries(b) : ~ Meet(rng, t)
            /\ Entries(s) = Entries(b) \cup {t}
<1> DEFINE b == SubSeq(s, 1, Len(s) - 1)
           t == s[Len(s)]
<1>1. Len(s) \in Nat \ {0}
  OBVIOUS
<1>2. b \in Seq(Int \X Int) /\ Len(b) = Len(s) - 1 /\ \A k \in 1 .. Len(b) : b[k] = s[k]
  BY PopEntries
<1>3. t \in Int \X Int
  <2>1. Len(s) \in 1 .. Len(s)
    BY <1>1
  <2>2. \A k \in 1 .. Len(s) : s[k] \in Int \X Int
    OBVIOUS
  <2> QED
    BY <2>1, <2>2
<1>4. \A k \in 1 .. Len(s) : k = Len(s) \/ k \in 1 .. Len(b)
  BY <1>1, <1>2
<1>5. \A k \in 1 .. Len(b) : k \in 1 .. Len(s) /\ k < Len(s)
  BY <1>1, <1>2
<1>6. Len(s) \in 1 .. Len(s)
  BY <1>1
<1>7. AllApart(b)
  BY <1>2, <1>5 DEF AllApart
<1>8. \A rng \in Entries(b) : ~ Meet(rng, t)
  <2>1. \A k \in 1 .. Len(b) : ~ Meet(b[k], t)
    BY <1>2, <1>5, <1>6 DEF AllApart
  <2> HIDE DEF b, t
  <2> QED
    BY <2>1 DEF Entries
<1>9. Entries(s) = Entries(b) \cup {t}
  <2> HIDE DEF b
  <2> QED
    BY <1>2, <1>4, <1>5, <1>6 DEF Entries
<1> QED
  BY <1>2, <1>3, <1>7, <1>8, <1>9

\* Ranges that meet none of the stack can be pushed.
LEMMA PushStack ==
  ASSUME NEW s \in Seq(Int \X Int), NEW t \in Seq(Int \X Int), AllApart(s), AllApart(t),
         \A q \in Entries(s), r \in Entries(t) : ~ Meet(q, r)
  PROVE  /\ s \o t \in Seq(Int \X Int) /\ AllApart(s \o t)
         /\ Entries(s \o t) = Entries(s) \cup Entries(t)
<1> DEFINE u == s \o t
<1>1. u \in Seq(Int \X Int) /\ Len(u) = Len(s) + Len(t) /\ Len(s) \in Nat /\ Len(t) \in Nat
  OBVIOUS
<1>2. \A k \in 1 .. Len(u) : u[k] = IF k <= Len(s) THEN s[k] ELSE t[k - Len(s)]
  OBVIOUS
<1>3. \A k \in 1 .. Len(s) : k \in 1 .. Len(u) /\ u[k] = s[k]
  BY <1>1, <1>2
<1>4. \A k \in 1 .. Len(t) : k + Len(s) \in 1 .. Len(u) /\ u[k + Len(s)] = t[k]
  BY <1>1, <1>2
<1>5. \A k \in 1 .. Len(u) : \/ k \in 1 .. Len(s)
                             \/ k - Len(s) \in 1 .. Len(t) /\ u[k] = t[k - Len(s)] /\ k > Len(s)
  BY <1>1, <1>2
<1> HIDE DEF u
<1>6. AllApart(u)
  <2> SUFFICES ASSUME NEW k \in 1 .. Len(u), NEW m \in 1 .. Len(u), k < m
               PROVE  ~ Meet(u[k], u[m])
    BY DEF AllApart
  <2>1. CASE m \in 1 .. Len(s)
    <3>1. k \in 1 .. Len(s)
      BY <1>1, <2>1
    <3> QED
      BY <1>3, <2>1, <3>1 DEF AllApart
  <2>2. CASE m \notin 1 .. Len(s) /\ k \in 1 .. Len(s)
    <3>1. m - Len(s) \in 1 .. Len(t) /\ u[m] = t[m - Len(s)] /\ u[k] = s[k]
      BY <1>3, <1>5, <2>2
    <3>2. u[m] \in Entries(t) /\ u[k] \in Entries(s)
      BY <2>2, <3>1 DEF Entries
    <3> QED
      BY <3>2
  <2>3. CASE m \notin 1 .. Len(s) /\ k \notin 1 .. Len(s)
    <3>1. k - Len(s) \in 1 .. Len(t) /\ m - Len(s) \in 1 .. Len(t)
      BY <1>5, <2>3
    <3>2. k - Len(s) < m - Len(s)
      BY <1>1
    <3> QED
      BY <1>5, <2>3, <3>1, <3>2 DEF AllApart
  <2> QED
    BY <2>1, <2>2, <2>3
<1>7. Entries(u) = Entries(s) \cup Entries(t)
  <2>1. \A k \in 1 .. Len(u) : u[k] \in Entries(s) \cup Entries(t)
    BY <1>3, <1>5 DEF Entries
  <2>2. \A k \in 1 .. Len(s) : s[k] \in Entries(u)
    BY <1>3 DEF Entries
  <2>3. \A k \in 1 .. Len(t) : t[k] \in Entries(u)
    BY <1>4 DEF Entries
  <2>4. Entries(u) \subseteq Entries(s) \cup Entries(t)
    BY <2>1 DEF Entries
  <2>5. Entries(s) \subseteq Entries(u) /\ Entries(t) \subseteq Entries(u)
    BY <2>2, <2>3 DEF Entries
  <2> QED
    BY <2>4, <2>5
<1> QED
  BY <1>1, <1>6, <1>7 DEF u

\* Ranges meet both ways.
LEMMA MeetBoth ==
  ASSUME NEW q, NEW s, Meet(q, s)
  PROVE  Meet(s, q)
BY DEF Meet

\* Three ranges apart from each other make a stack.
LEMMA ThreeEntries ==
  ASSUME NEW a \in Int \X Int, NEW b \in Int \X Int, NEW c \in Int \X Int,
         ~ Meet(a, b), ~ Meet(a, c), ~ Meet(b, c)
  PROVE  /\ << a, b, c >> \in Seq(Int \X Int) /\ AllApart(<< a, b, c >>)
         /\ Entries(<< a, b, c >>) = {a, b, c}
<1> DEFINE u == << a, b, c >>
<1>1. u \in Seq(Int \X Int) /\ Len(u) = 3 /\ u[1] = a /\ u[2] = b /\ u[3] = c
  OBVIOUS
<1> HIDE DEF u
<1>2. \A k \in 1 .. 3 : k = 1 \/ k = 2 \/ k = 3
  OBVIOUS
<1>3. AllApart(u)
  <2> SUFFICES ASSUME NEW k \in 1 .. 3, NEW m \in 1 .. 3, k < m
               PROVE  ~ Meet(u[k], u[m])
    BY <1>1 DEF AllApart
  <2>1. \/ k = 1 /\ m = 2
        \/ k = 1 /\ m = 3
        \/ k = 2 /\ m = 3
    OBVIOUS
  <2> QED
    BY <1>1, <2>1
<1>4. Entries(u) = {a, b, c}
  <2>1. 1 \in 1 .. 3 /\ 2 \in 1 .. 3 /\ 3 \in 1 .. 3
    OBVIOUS
  <2> QED
    BY <1>1, <1>2, <2>1 DEF Entries
<1> QED
  BY <1>1, <1>3, <1>4 DEF u

\* utl_dpqordrange pushes all three ranges, in some order.
LEMMA PushedEntries ==
  ASSUME NEW l \in Int \X Int, NEW m \in Int \X Int, NEW r \in Int \X Int,
         ~ Meet(l, m), ~ Meet(l, r), ~ Meet(m, r)
  PROVE  /\ Pushed(l, m, r) \in Seq(Int \X Int) /\ AllApart(Pushed(l, m, r))
         /\ Entries(Pushed(l, m, r)) = {l, m, r}
<1> DEFINE p == Pushed(l, m, r)
<1>1. ~ Meet(m, l) /\ ~ Meet(r, l) /\ ~ Meet(r, m)
  BY MeetBoth
<1>2. \/ p = << r, m, l >> \/ p = << l, r, m >> \/ p = << r, l, m >>
      \/ p = << m, r, l >> \/ p = << l, m, r >> \/ p = << m, l, r >>
  BY DEF Pushed
<1> HIDE DEF p
<1>3. \E a, b, c \in {l, m, r} :
         /\ p = << a, b, c >> /\ {a, b, c} = {l, m, r}
         /\ ~ Meet(a, b) /\ ~ Meet(a, c) /\ ~ Meet(b, c)
  <2>1. CASE p = << r, m, l >>
    BY <1>1, <2>1
  <2>2. CASE p = << l, r, m >>
    BY <1>1, <2>2
  <2>3. CASE p = << r, l, m >>
    BY <1>1, <2>3
  <2>4. CASE p = << m, r, l >>
    BY <1>1, <2>4
  <2>5. CASE p = << l, m, r >>
    BY <1>1, <2>5
  <2>6. CASE p = << m, l, r >>
    BY <1>1, <2>6
  <2> QED
    BY <1>2, <2>1, <2>2, <2>3, <2>4, <2>5, <2>6
<1>4. PICK a \in {l, m, r}, b \in {l, m, r}, c \in {l, m, r} :
         /\ p = << a, b, c >> /\ {a, b, c} = {l, m, r}
         /\ ~ Meet(a, b) /\ ~ Meet(a, c) /\ ~ Meet(b, c)
  BY <1>3
<1>5. a \in Int \X Int /\ b \in Int \X Int /\ c \in Int \X Int
  OBVIOUS
<1>6. p \in Seq(Int \X Int) /\ AllApart(p) /\ Entries(p) = {a, b, c}
  BY <1>4, <1>5, ThreeEntries
<1> QED
  BY <1>4, <1>6 DEF p

-----------------------------------------------------------------------------
(* The partition *)

\* An element below the first pivot is swapped to the end of the low part.
LEMMA PartedLow ==
  ASSUME NEW R \in [Elems -> Int], NEW D, NEW f \in [D -> Elems],
         NEW lo \in Int, NEW hi \in Int, NEW l \in Int, NEW k \in Int, NEW g \in Int,
         lo .. hi \subseteq D, Parted(R, f, lo, hi, l, k, g), k <= g, R[f[lo]] > R[f[k]]
  PROVE  Parted(R, Swapped(f, k, l), lo, hi, l + 1, k + 1, g)
<1> DEFINE v == Swapped(f, k, l)
<1>1. lo < l /\ l <= k /\ k <= g /\ g < hi
  BY DEF Parted
<1>2. k \in D /\ l \in D /\ lo \in D /\ hi \in D
  BY <1>1
<1>3. v[k] = f[l] /\ v[l] = f[k] /\ \A i \in D : i # k /\ i # l => v[i] = f[i]
  BY <1>2 DEF Swapped
<1>4. v[lo] = f[lo] /\ v[hi] = f[hi]
  BY <1>1, <1>2, <1>3
<1> HIDE DEF v
<1>5. \A i \in lo .. hi : i \in D /\ R[f[i]] \in Int
  OBVIOUS
<1>6. \A i \in lo + 1 .. l : R[v[i]] < R[v[lo]]
  <2> TAKE i \in lo + 1 .. l
  <2>1. CASE i = l
    BY <1>2, <1>3, <1>4, <2>1
  <2>2. CASE i # l
    <3>1. i \in lo + 1 .. l - 1 /\ i # k /\ i \in lo .. hi
      BY <1>1, <2>2
    <3> QED
      BY <1>3, <1>4, <1>5, <2>2, <3>1 DEF Parted
  <2> QED
    BY <2>1, <2>2
<1>7. \A i \in l + 1 .. k : R[v[lo]] <= R[v[i]] /\ R[v[i]] <= R[v[hi]]
  <2> TAKE i \in l + 1 .. k
  <2>1. CASE i = k
    <3>1. l \in l .. k - 1 /\ l <= g
      BY <1>1, <2>1
    <3> QED
      BY <1>3, <1>4, <2>1, <3>1 DEF Parted
  <2>2. CASE i # k
    <3>1. i \in l .. k - 1 /\ i <= g /\ i # l /\ i \in lo .. hi
      BY <1>1, <2>2
    <3> QED
      BY <1>3, <1>4, <1>5, <2>2, <3>1 DEF Parted
  <2> QED
    BY <2>1, <2>2
<1>8. \A i \in g + 1 .. hi - 1 : R[v[i]] > R[v[hi]]
  <2> TAKE i \in g + 1 .. hi - 1
  <2>1. i # k /\ i # l /\ i \in lo .. hi
    BY <1>1
  <2> QED
    BY <1>3, <1>4, <1>5, <2>1 DEF Parted
<1>9. R[v[lo]] <= R[v[hi]]
  BY <1>4 DEF Parted
<1>10. /\ lo < l + 1 /\ l + 1 <= k + 1 /\ k + 1 <= g + 2 /\ l + 1 - 1 <= g /\ g < hi /\ k + 1 <= hi
       /\ \A i \in lo + 1 .. l + 1 - 1 : i \in lo + 1 .. l
       /\ \A i \in l + 1 .. k + 1 - 1 : i \in l + 1 .. k
  BY <1>1
<1> QED
  BY <1>6, <1>7, <1>8, <1>9, <1>10 DEF Parted, v

\* An element between the pivots stays where it is.
LEMMA PartedMiddle ==
  ASSUME NEW R, NEW f,
         NEW lo \in Int, NEW hi \in Int, NEW l \in Int, NEW k \in Int, NEW g \in Int,
         Parted(R, f, lo, hi, l, k, g), k <= g,
         R[f[lo]] <= R[f[k]], R[f[k]] <= R[f[hi]]
  PROVE  Parted(R, f, lo, hi, l, k + 1, g)
<1>1. \A i \in l .. k + 1 - 1 : i = k \/ i \in l .. k - 1
  BY DEF Parted
<1>2. l <= k + 1 /\ k + 1 <= g + 2 /\ k + 1 <= hi
  BY DEF Parted
<1> QED
  BY <1>1, <1>2 DEF Parted

(* The last element not above the right pivot is put in place of the one   *)
(* looked at, and then counts as low or as between the pivots.             *)
LEMMA PartedHigh ==
  ASSUME NEW R \in [Elems -> Int], NEW D, NEW f \in [D -> Elems],
         NEW lo \in Int, NEW hi \in Int, NEW l \in Int, NEW k \in Int, NEW g \in Int,
         lo .. hi \subseteq D, Parted(R, f, lo, hi, l, k, g), k <= g,
         R[f[lo]] <= R[f[k]], R[f[k]] > R[f[hi]],
         NEW h \in k .. g, \A j \in h + 1 .. g : R[f[j]] > R[f[hi]],
         h > k => R[f[h]] <= R[f[hi]]
  PROVE  LET v == Swapped(f, k, h) IN
         IF R[v[k]] < R[v[lo]] THEN Parted(R, Swapped(v, k, l), lo, hi, l + 1, k + 1, h - 1)
         ELSE Parted(R, v, lo, hi, l, k + 1, h - 1)
<1> DEFINE v == Swapped(f, k, h)
<1>1. lo < l /\ l <= k /\ k <= g /\ g < hi /\ R[f[lo]] <= R[f[hi]]
  BY DEF Parted
<1>2. k \in D /\ h \in D /\ lo \in D /\ hi \in D
  BY <1>1
<1>3. v[k] = f[h] /\ v[h] = f[k] /\ \A i \in D : i # k /\ i # h => v[i] = f[i]
  BY <1>2 DEF Swapped
<1>4. v \in [D -> Elems]
  BY <1>2 DEF Swapped
<1>5. v[lo] = f[lo] /\ v[hi] = f[hi]
  BY <1>1, <1>2, <1>3
<1> HIDE DEF v
<1>6. \A i \in lo .. hi : i \in D /\ R[f[i]] \in Int /\ R[v[i]] \in Int
  BY <1>4
<1>7. \A i \in lo + 1 .. l - 1 : R[v[i]] < R[v[lo]]
  <2> TAKE i \in lo + 1 .. l - 1
  <2>1. i # k /\ i # h /\ i \in D
    BY <1>1
  <2> QED
    BY <1>3, <1>5, <2>1 DEF Parted
<1>8. \A i \in l .. k - 1 : R[v[lo]] <= R[v[i]] /\ R[v[i]] <= R[v[hi]]
  <2> TAKE i \in l .. k - 1
  <2>1. i # k /\ i # h /\ i \in D /\ i <= g
    BY <1>1
  <2> QED
    BY <1>3, <1>5, <2>1 DEF Parted
<1>9. \A i \in h .. hi - 1 : R[v[i]] > R[v[hi]]
  <2> TAKE i \in h .. hi - 1
  <2>1. CASE i = h
    BY <1>3, <1>5, <2>1
  <2>2. CASE i # h
    <3>1. i # k /\ i \in D /\ (i \in h + 1 .. g \/ i \in g + 1 .. hi - 1)
      BY <1>1, <2>2
    <3> QED
      BY <1>3, <1>5, <2>2, <3>1 DEF Parted
  <2> QED
    BY <2>1, <2>2
<1>10. CASE h = k
  <2>1. v[k] = f[k]
    BY <1>3, <1>10
  <2>2. ~ (R[v[k]] < R[v[lo]])
    BY <1>5, <1>6, <1>1, <2>1
  <2>3. Parted(R, v, lo, hi, l, k + 1, k - 1)
    <3>1. /\ l <= k + 1 /\ k + 1 <= k - 1 + 2 /\ l - 1 <= k - 1 /\ k - 1 < hi /\ k + 1 <= hi
          /\ \A i \in l .. k + 1 - 1 : i <= k - 1 => i \in l .. k - 1
          /\ \A i \in k - 1 + 1 .. hi - 1 : i \in h .. hi - 1
      BY <1>1, <1>10
    <3>2. \A i \in l .. k + 1 - 1 : i <= k - 1 => R[v[lo]] <= R[v[i]] /\ R[v[i]] <= R[v[hi]]
      BY <1>8, <3>1
    <3>3. \A i \in k - 1 + 1 .. hi - 1 : R[v[i]] > R[v[hi]]
      BY <1>9, <3>1
    <3>4. R[v[lo]] <= R[v[hi]]
      BY <1>1, <1>5
    <3> QED
      BY <1>1, <1>7, <3>1, <3>2, <3>3, <3>4 DEF Parted
  <2> QED
    BY <1>10, <2>2, <2>3 DEF v
<1>11. CASE h > k
  <2>1. Parted(R, v, lo, hi, l, k, h - 1)
    <3>1. /\ k <= h - 1 + 2 /\ l - 1 <= h - 1 /\ h - 1 < hi /\ k <= hi
          /\ \A i \in h - 1 + 1 .. hi - 1 : i \in h .. hi - 1
      BY <1>1, <1>11
    <3> QED
      BY <1>1, <1>5, <1>7, <1>8, <1>9, <3>1 DEF Parted
  <2>2. k <= h - 1 /\ h - 1 \in Int
    BY <1>11
  <2>3. R[v[k]] <= R[v[hi]] /\ R[v[k]] \in Int /\ R[v[lo]] \in Int
    BY <1>1, <1>3, <1>5, <1>6, <1>11
  <2>4. CASE R[v[k]] < R[v[lo]]
    <3>1. Parted(R, Swapped(v, k, l), lo, hi, l + 1, k + 1, h - 1)
      BY <1>4, <2>1, <2>2, <2>4, PartedLow
    <3> QED
      BY <2>4, <3>1 DEF v
  <2>5. CASE ~ (R[v[k]] < R[v[lo]])
    <3>1. R[v[lo]] <= R[v[k]]
      BY <2>3, <2>5
    <3>2. Parted(R, v, lo, hi, l, k + 1, h - 1)
      BY <2>1, <2>2, <2>3, <3>1, PartedMiddle
    <3> QED
      BY <2>5, <3>2 DEF v
  <2> QED
    BY <2>4, <2>5
<1> QED
  BY <1>1, <1>10, <1>11

(* With the pivots put between the three parts, only elements of one part  *)
(* can be out of order.                                                    *)
LEMMA PartedSplit ==
  ASSUME NEW R \in [Elems -> Int], NEW D, NEW f \in [D -> Elems],
         NEW lo \in Int, NEW hi \in Int, NEW l \in Int, NEW k \in Int, NEW g \in Int,
         lo .. hi \subseteq D, Parted(R, f, lo, hi, l, k, g), k > g,
         NEW i \in lo .. hi, NEW j \in lo .. hi, i < j,
         NEW z, z = Swapped(Swapped(f, lo, l - 1), hi, g + 1), R[z[i]] > R[z[j]]
  PROVE  j <= l - 2 \/ (l <= i /\ j <= g) \/ g + 2 <= i
<1> DEFINE a == l - 1
           b == g + 1
           v == Swapped(f, lo, a)
           w == Swapped(v, hi, b)
           p == R[f[lo]]
           q == R[f[hi]]
<1>1. lo <= a /\ a < b /\ b <= hi /\ k >= b /\ l = a + 1 /\ g = b - 1
  BY DEF Parted
<1>2. lo \in D /\ hi \in D /\ a \in D /\ b \in D /\ a \in Int /\ b \in Int
  BY <1>1
<1>3. v \in [D -> Elems] /\ v[lo] = f[a] /\ v[a] = f[lo] /\ \A m \in D : m # lo /\ m # a => v[m] = f[m]
  BY <1>2 DEF Swapped
<1> HIDE DEF v
<1>4. w \in [D -> Elems] /\ w[hi] = v[b] /\ w[b] = v[hi] /\ \A m \in D : m # hi /\ m # b => w[m] = v[m]
  BY <1>2, <1>3 DEF Swapped
<1> HIDE DEF w
<1>5. \A m \in lo .. hi : m \in D /\ R[w[m]] \in Int /\ R[f[m]] \in Int
  BY <1>4
<1>6. p \in Int /\ q \in Int /\ p <= q
  BY <1>2 DEF Parted
<1>7. \A m \in lo .. a - 1 : R[w[m]] < p
  <2> TAKE m \in lo .. a - 1
  <2>1. m # hi /\ m # b /\ m # a /\ m \in D /\ m \in Int
    BY <1>1
  <2>2. CASE m = lo
    <3>1. a \in lo + 1 .. l - 1
      BY <1>1, <2>2
    <3>2. w[m] = f[a]
      BY <1>3, <1>4, <2>1, <2>2
    <3> QED
      BY <3>1, <3>2 DEF Parted
  <2>3. CASE m # lo
    <3>1. m \in lo + 1 .. l - 1
      BY <1>1, <2>3
    <3>2. w[m] = f[m]
      BY <1>3, <1>4, <2>1, <2>3
    <3> QED
      BY <3>1, <3>2 DEF Parted
  <2> QED
    BY <2>2, <2>3
<1>8. R[w[a]] = p
  <2>1. a # hi /\ a # b
    BY <1>1
  <2> QED
    BY <1>2, <1>3, <1>4, <2>1
<1>9. \A m \in a + 1 .. b - 1 : p <= R[w[m]] /\ R[w[m]] <= q
  <2> TAKE m \in a + 1 .. b - 1
  <2>1. m # hi /\ m # b /\ m # a /\ m # lo /\ m \in D /\ m \in l .. k - 1 /\ m <= g
    BY <1>1
  <2>2. w[m] = f[m]
    BY <1>3, <1>4, <2>1
  <2> QED
    BY <2>1, <2>2 DEF Parted
<1>10. R[w[b]] = q
  <2>1. hi # lo /\ hi # a
    BY <1>1
  <2> QED
    BY <1>2, <1>3, <1>4, <2>1
<1>11. \A m \in b + 1 .. hi : R[w[m]] > q
  <2> TAKE m \in b + 1 .. hi
  <2>1. m # b /\ m # a /\ m # lo /\ m \in D /\ b # lo /\ b # a
    BY <1>1
  <2>2. CASE m = hi
    <3>1. b \in g + 1 .. hi - 1
      BY <1>1, <2>2
    <3>2. w[m] = f[b]
      BY <1>2, <1>3, <1>4, <2>1, <2>2
    <3> QED
      BY <3>1, <3>2 DEF Parted
  <2>3. CASE m # hi
    <3>1. m \in g + 1 .. hi - 1
      BY <1>1, <2>3
    <3>2. w[m] = f[m]
      BY <1>3, <1>4, <2>1, <2>3
    <3> QED
      BY <3>1, <3>2 DEF Parted
  <2> QED
    BY <2>2, <2>3
<1>12. R[w[i]] > R[w[j]]
  BY DEF w, v
<1> HIDE DEF a, b, p, q
<1>13. \/ i \in lo .. a - 1 /\ j \in lo .. a - 1
       \/ i \in a + 1 .. b - 1 /\ j \in a + 1 .. b - 1
       \/ i \in b + 1 .. hi /\ j \in b + 1 .. hi
  <2>1. i \in lo .. a - 1 \/ i = a \/ i \in a + 1 .. b - 1 \/ i = b \/ i \in b + 1 .. hi
    BY <1>1, <1>2
  <2>2. j \in lo .. a - 1 \/ j = a \/ j \in a + 1 .. b - 1 \/ j = b \/ j \in b + 1 .. hi
    BY <1>1, <1>2
  <2>3. R[w[i]] \in Int /\ R[w[j]] \in Int
    BY <1>5
  <2>4. CASE i \in lo .. a - 1
    BY <1>1, <1>2, <1>6, <1>7, <1>8, <1>9, <1>10, <1>11, <1>12, <2>2, <2>3, <2>4
  <2>5. CASE i = a
    BY <1>1, <1>2, <1>6, <1>8, <1>9, <1>10, <1>11, <1>12, <2>2, <2>3, <2>5
  <2>6. CASE i \in a + 1 .. b - 1
    BY <1>1, <1>2, <1>6, <1>8, <1>9, <1>10, <1>11, <1>12, <2>2, <2>3, <2>6
  <2>7. CASE i = b
    BY <1>1, <1>2, <1>6, <1>10, <1>11, <1>12, <2>2, <2>3, <2>7
  <2>8. CASE i \in b + 1 .. hi
    BY <1>1, <1>2, <2>2, <2>8
  <2> QED
    BY <2>1, <2>4, <2>5, <2>6, <2>7, <2>8
<1>14. l - 2 = a - 1 /\ l = a + 1 /\ g = b - 1 /\ g + 2 = b + 1
  BY <1>1, <1>2
<1> QED
  BY <1>2, <1>13, <1>14

-----------------------------------------------------------------------------
(* The turns of the sort *)

\* What a sort compares and moves is in the storage.
LEMMA SortDomain ==
  ASSUME SortTypes
  PROVE  /\ Rank[cmp] \in [Elems -> Int]
         /\ \A k \in 0 .. cnt - 1 : k \in DOMAIN vec /\ vec[k] \in Elems
BY DEF SortTypes

\* The ranges not sorted yet: those on the stack, and the one at work.
LEMMA OpenRanges ==
  Open = Entries(stack) \cup (IF pc = "pop" THEN {} ELSE {<< left, right >>})
BY DEF Open, Entries

\* To move nothing is a move within any range.
LEMMA Stays ==
  ASSUME NEW f, NEW n, NEW lo \in Int, NEW hi \in Int
  PROVE  Moves(f, f, n, lo, hi)
<1> SUFFICES ASSUME NEW i \in 0 .. n - 1
             PROVE IF lo <= i /\ i <= hi THEN \E k \in lo .. hi : f[i] = f[k] ELSE f[i] = f[i]
  BY DEF Moves
<1>1. CASE lo <= i /\ i <= hi
  <2>1. i \in lo .. hi
    BY <1>1
  <2> QED
    BY <2>1
<1> QED
  BY <1>1

\* Choosing the pivots only swaps elements of the range, and orders the two.
LEMMA PivotsMove ==
  ASSUME NEW D, vec \in [D -> Elems], Rank[cmp] \in [Elems -> Int],
         NEW n \in Nat, 0 .. n - 1 \subseteq D,
         NEW l \in Int, NEW r \in Int, 0 <= l, l < r, r < n,
         NEW p \in l .. r, NEW q \in l .. r
  PROVE  LET w == WithPivots(l, r, p, q) IN
         w \in [D -> Elems] /\ Moves(vec, w, n, l, r) /\ Rank[cmp][w[l]] <= Rank[cmp][w[r]]
<1> DEFINE u == Swapped(vec, p, l)
           v == Swapped(u, q, r)
           w == Swapped(v, l, r)
<1>1. l \in l .. r /\ r \in l .. r /\ l .. r \subseteq D
  OBVIOUS
<1>2. u \in [D -> Elems] /\ Moves(vec, u, n, l, r)
  BY <1>1, SwapFacts, SwapMoves
<1> HIDE DEF u
<1>3. v \in [D -> Elems] /\ Moves(u, v, n, l, r)
  BY <1>1, <1>2, SwapFacts, SwapMoves
<1> HIDE DEF v
<1>4. w \in [D -> Elems] /\ Moves(v, w, n, l, r)
  BY <1>1, <1>3, SwapFacts, SwapMoves
<1>5. w[l] = v[r] /\ w[r] = v[l]
  <2>1. l \in D /\ r \in D
    BY <1>1
  <2> QED
    BY <1>3, <2>1 DEF Swapped
<1> HIDE DEF w
<1>6. Moves(vec, v, n, l, r)
  BY <1>2, <1>3, MovesTwice
<1>7. Moves(vec, w, n, l, r)
  BY <1>4, <1>6, MovesTwice
<1>8. Rank[cmp][v[l]] \in Int /\ Rank[cmp][v[r]] \in Int
  BY <1>1, <1>3
<1>9. WithPivots(l, r, p, q) = IF Rank[cmp][v[l]] > Rank[cmp][v[r]] THEN w ELSE v
  BY DEF WithPivots, w, v, u
<1> HIDE DEF WithPivots
<1>10. CASE Rank[cmp][v[l]] > Rank[cmp][v[r]]
  <2>1. WithPivots(l, r, p, q) = w
    BY <1>9, <1>10
  <2>2. Rank[cmp][w[l]] <= Rank[cmp][w[r]]
    BY <1>5, <1>8, <1>10
  <2> QED
    BY <1>4, <1>7, <2>1, <2>2
<1>11. CASE ~ (Rank[cmp][v[l]] > Rank[cmp][v[r]])
  <2>1. WithPivots(l, r, p, q) = v
    BY <1>9, <1>11
  <2>2. Rank[cmp][v[l]] <= Rank[cmp][v[r]]
    BY <1>8, <1>11
  <2> QED
    BY <1>3, <1>6, <2>1, <2>2
<1> QED
  BY <1>10, <1>11

\* Taking a range from the stack: short ones are left to insertion, of
\* long ones the pivots are chosen; one of less than two elements is in order.
LEMMA PopStep ==
  ASSUME SortInv, UNCHANGED << cnt, cmp >>, Pop
  PROVE  SortInv' /\ DOMAIN vec' = DOMAIN vec
<1> DEFINE R == Rank[cmp]
           D == DOMAIN vec
           S == Entries(Below)
           lo == Top[1]
           hi == Top[2]
<1>1. SortTypes /\ RangesApart /\ InPlace(R, vec, cnt, Open)
  BY DEF SortInv
<1>2. R \in [Elems -> Int] /\ \A k \in 0 .. cnt - 1 : k \in D /\ vec[k] \in Elems
  BY <1>1, SortDomain
<1>3. pc = "pop" /\ stack # <<>> /\ stack' = Below /\ cnt' = cnt /\ cmp' = cmp
  BY DEF Pop
<1>4. stack \in Seq(Int \X Int) /\ AllApart(stack)
  BY <1>1 DEF SortTypes, RangesApart
<1>5. /\ Below \in Seq(Int \X Int) /\ Top \in Int \X Int /\ AllApart(Below)
      /\ \A rng \in S : ~ Meet(rng, Top)
      /\ Entries(stack) = S \cup {Top}
  BY <1>3, <1>4, PopStack DEF Below, Top
<1> HIDE DEF D
<1>6. Top = << lo, hi >> /\ lo \in Int /\ hi \in Int
  BY <1>5
<1>7. 0 <= lo /\ hi < cnt /\ cnt \in Nat /\ vec \in [D -> Elems] /\ 0 .. cnt - 1 \subseteq D
      /\ D \subseteq Int
  BY <1>1, <1>5, <1>6 DEF SortTypes, D
<1> HIDE DEF S, lo, hi
<1>8. InPlace(R, vec, cnt, S \cup {<< lo, hi >>})
  BY <1>1, <1>3, <1>5, <1>6, OpenRanges
<1>9. \A rng \in S : ~ Meet(rng, << lo, hi >>)
  BY <1>5, <1>6
<1>10. /\ stack' \in Seq(Int \X Int) /\ AllApart(stack')
       /\ \A rng \in Entries(stack') : rng[1] \in 0 .. cnt + 1 /\ rng[2] \in -2 .. cnt - 1
       /\ Entries(stack') = S
  BY <1>1, <1>3, <1>5 DEF SortTypes, S
<1>11. CASE PopSorted
  <2>1. vec' = vec /\ NextRange /\ lo >= hi
    BY <1>11 DEF PopSorted, lo, hi
  <2>2. pc' = "pop" /\ left' = 0 /\ right' = 0 /\ L' = 0 /\ K' = 0 /\ G' = 0
    BY <2>1 DEF NextRange, Work
  <2>3. \A i, j \in lo .. hi : ~ (i < j)
    BY <1>6, <2>1
  <2>4. Moves(vec, vec, cnt, lo, hi)
    BY <1>6, Stays
  <2>5. InPlace(R, vec, cnt, S \cup {})
    BY <1>2, <1>6, <1>7, <1>8, <1>9, <2>3, <2>4, Permuted
  <2>6. Open' = S \cup {}
    BY <1>10, <2>2 DEF Open, Entries
  <2>7. InPlace(R, vec', cnt', Open')
    BY <1>3, <2>1, <2>5, <2>6
  <2>8. SortTypes'
    BY <1>1, <1>3, <1>10, <2>1, <2>2 DEF SortTypes
  <2>9. RangesApart' /\ AtWork'
    BY <1>10, <2>2 DEF RangesApart, AtWork
  <2> QED
    BY <1>3, <2>1, <2>7, <2>8, <2>9 DEF SortInv, D
<1>12. CASE PopShort
  <2>1. vec' = vec /\ lo < hi
    BY <1>12 DEF PopShort, lo, hi
  <2>2. pc' = "insert" /\ left' = lo /\ right' = hi /\ L' = 0 /\ K' = lo + 1 /\ G' = 0
    BY <1>12 DEF PopShort, Work, lo, hi
  <2>3. Open' = S \cup {<< lo, hi >>}
    BY <1>10, <2>2 DEF Open, Entries
  <2>4. InPlace(R, vec', cnt', Open')
    BY <1>3, <1>8, <2>1, <2>3
  <2>5. SortTypes'
    BY <1>1, <1>3, <1>6, <1>7, <1>10, <2>1, <2>2 DEF SortTypes
  <2>6. RangesApart'
    BY <1>9, <1>10, <2>2 DEF RangesApart
  <2>7. \A i, j \in lo .. lo + 1 - 1 : ~ (i < j)
    BY <1>6
  <2>8. Ascending(R, vec', lo, lo + 1 - 1)
    BY <2>7 DEF Ascending
  <2>9. AtWork'
    BY <1>3, <1>6, <2>2, <2>8 DEF AtWork
  <2> QED
    BY <1>3, <2>1, <2>4, <2>5, <2>6, <2>9 DEF SortInv, D
<1>13. CASE PopLong
  <2>1. hi - lo > Small
    BY <1>13 DEF PopLong, lo, hi
  <2>2. lo + 2 <= hi
    BY <1>6, <2>1
  <2>3. pc' = "part" /\ left' = lo /\ right' = hi /\ L' = lo + 1 /\ K' = lo + 1 /\ G' = hi - 1
    BY <1>13 DEF PopLong, Work, lo, hi
  <2>4. PICK p \in lo .. hi - 1, q \in lo .. hi - 1 : vec' = WithPivots(lo, hi, p, q)
    BY <1>13 DEF PopLong, lo, hi
  <2>5. p \in lo .. hi /\ q \in lo .. hi /\ lo < hi
    BY <1>6, <2>2
  <2>6. vec' \in [D -> Elems] /\ Moves(vec, vec', cnt, lo, hi) /\ R[vec'[lo]] <= R[vec'[hi]]
    BY <1>2, <1>6, <1>7, <2>4, <2>5, PivotsMove
  <2>7. \A k \in 0 .. cnt - 1 : vec'[k] \in Elems
    BY <1>7, <2>6
  <2>8. InPlace(R, vec', cnt, S \cup {<< lo, hi >>})
    BY <1>2, <1>6, <1>7, <1>8, <1>9, <2>6, <2>7, PermutedOpen
  <2>9. Open' = S \cup {<< lo, hi >>}
    BY <1>10, <2>3 DEF Open, Entries
  <2>10. InPlace(R, vec', cnt', Open')
    BY <1>3, <2>8, <2>9
  <2>11. D = DOMAIN vec'
    BY <2>6
  <2>12. SortTypes'
    <3>1. vec' \in [DOMAIN vec' -> Elems] /\ 0 .. cnt' - 1 \subseteq DOMAIN vec' /\ DOMAIN vec' \subseteq Int
      BY <1>3, <1>7, <2>6, <2>11
    <3>2. lo + 1 \in lo + 1 .. hi /\ lo + 1 \in Int /\ hi - 1 \in Int /\ lo < hi
      BY <1>6, <2>2
    <3> QED
      BY <1>1, <1>3, <1>6, <1>7, <1>10, <2>3, <3>1, <3>2 DEF SortTypes
  <2>13. RangesApart'
    BY <1>9, <1>10, <2>3 DEF RangesApart
  <2>14. Parted(R, vec', lo, hi, lo + 1, lo + 1, hi - 1)
    BY <1>6, <2>2, <2>6 DEF Parted
  <2>15. AtWork'
    BY <1>3, <2>3, <2>14 DEF AtWork
  <2> QED
    BY <1>3, <2>10, <2>11, <2>12, <2>13, <2>15 DEF SortInv, D
<1> QED
  BY <1>11, <1>12, <1>13 DEF Pop

(* Where the element goes down to: a place always exists, and although     *)
(* nothing but the order stops it, it never leaves the range.              *)
LEMMA InsertPlace ==
  ASSUME SortInv, pc = "insert"
  PROVE  /\ InsertAt \in left .. K
         /\ \A j \in InsertAt .. K - 1 : Above(j, K)
         /\ InsertAt > left => ~ Above(InsertAt - 1, K)
<1> DEFINE P(p) == /\ \A j \in p .. K - 1 : Above(j, K)
                   /\ p > 0 => ~ Above(p - 1, K)
           T == {p \in 0 .. K : \A j \in p .. K - 1 : Above(j, K)}
<1>1. SortTypes /\ RangesApart /\ InPlace(Rank[cmp], vec, cnt, Open)
  BY DEF SortInv
<1>2. 0 <= left /\ left < right /\ right < cnt /\ K \in left + 1 .. right /\ left \in Int /\ right \in Int
      /\ cnt \in Nat
  BY <1>1 DEF SortTypes
<1>3. \E p \in 0 .. K : P(p)
  <2>1. T \subseteq Nat /\ K \in T
    BY <1>2
  <2>2. PICK p \in T : \A y \in T : p <= y
    BY <2>1, LeastNatural
  <2>3. ASSUME p > 0, Above(p - 1, K)
        PROVE  FALSE
    <3>1. p - 1 \in 0 .. K /\ \A j \in p - 1 .. K - 1 : j = p - 1 \/ j \in p .. K - 1
      BY <1>2, <2>3
    <3>2. p - 1 \in T
      BY <2>2, <2>3, <3>1
    <3> QED
      BY <1>2, <2>2, <3>2
  <2> QED
    BY <2>2, <2>3
<1>4. InsertAt \in 0 .. K /\ P(InsertAt)
  <2> HIDE DEF P
  <2>1. InsertAt = CHOOSE p \in 0 .. K : P(p)
    BY DEF InsertAt, P
  <2> QED
    BY <1>3, <2>1
<1> DEFINE p == InsertAt
<1> HIDE DEF p
<1>5. ASSUME p < left
      PROVE  FALSE
  <2>1. p \in 0 .. K /\ left - 1 \in p .. K - 1
    BY <1>2, <1>4, <1>5 DEF p
  <2>2. Above(left - 1, K)
    BY <1>4, <2>1 DEF p
  <2>3. left - 1 \in 0 .. cnt - 1 /\ K \in 0 .. cnt - 1 /\ left - 1 < K
    BY <1>2, <2>1
  <2>4. PICK rng \in Open : InRange(left - 1, rng) /\ InRange(K, rng)
    BY <1>1, <2>2, <2>3 DEF InPlace, Above
  <2>5. ~ InRange(left - 1, << left, right >>) /\ InRange(K, << left, right >>)
    BY <1>2 DEF InRange
  <2>6. rng \in Entries(stack)
    BY <2>4, <2>5, OpenRanges
  <2>7. ~ Meet(rng, << left, right >>)
    BY <1>1, <2>6 DEF RangesApart
  <2>8. K \in Int
    BY <1>2
  <2> QED
    BY <2>4, <2>5, <2>7, <2>8 DEF Meet
<1>6. InsertAt \in left .. K
  BY <1>2, <1>4, <1>5 DEF p
<1>7. InsertAt > left => InsertAt > 0
  BY <1>2, <1>6
<1> QED
  BY <1>4, <1>6, <1>7

(* Sliding the elements from p up makes room for element k.                *)
Slid(f, p, k) ==
  [m \in DOMAIN f |-> IF m = p THEN f[k] ELSE IF m > p /\ m <= k THEN f[m - 1] ELSE f[m]]

\* An insertion moves elements within the range only.
LEMMA SlideMoves ==
  ASSUME NEW D, NEW f \in [D -> Elems], NEW n \in Nat, 0 .. n - 1 \subseteq D,
         NEW lo \in Int, NEW hi \in Int, 0 <= lo, hi < n,
         NEW k \in lo .. hi, NEW p \in lo .. k
  PROVE  Moves(f, Slid(f, p, k), n, lo, hi) /\ \A m \in 0 .. n - 1 : Slid(f, p, k)[m] \in Elems
<1> DEFINE g == Slid(f, p, k)
<1>1. \A m \in 0 .. n - 1 : m \in D /\ m \in Int
  OBVIOUS
<1>2. \A m \in 0 .. n - 1 :
        g[m] = IF m = p THEN f[k] ELSE IF m > p /\ m <= k THEN f[m - 1] ELSE f[m]
  BY <1>1 DEF Slid
<1> HIDE DEF g
<1>3. Moves(f, g, n, lo, hi)
  <2> SUFFICES ASSUME NEW i \in 0 .. n - 1
               PROVE IF lo <= i /\ i <= hi THEN \E m \in lo .. hi : g[i] = f[m] ELSE g[i] = f[i]
    BY DEF Moves
  <2>1. CASE lo <= i /\ i <= hi
    <3>1. i \in lo .. hi /\ (i > p => i - 1 \in lo .. hi)
      BY <2>1
    <3> QED
      BY <1>2, <2>1, <3>1
  <2>2. CASE ~ (lo <= i /\ i <= hi)
    <3>1. i # p /\ ~ (i > p /\ i <= k)
      BY <2>2
    <3> QED
      BY <1>2, <2>2, <3>1
  <2> QED
    BY <2>1, <2>2
<1>4. \A m \in 0 .. n - 1 : g[m] \in Elems
  <2> TAKE m \in 0 .. n - 1
  <2>1. m > p => m - 1 \in 0 .. n - 1
    OBVIOUS
  <2>2. k \in 0 .. n - 1
    OBVIOUS
  <2> QED
    BY <1>1, <1>2, <2>1, <2>2
<1> QED
  BY <1>3, <1>4 DEF g

\* An insertion makes the ascending part longer by one.
LEMMA SlideAscends ==
  ASSUME NEW D, NEW f \in [D -> Elems], NEW R \in [Elems -> Int],
         NEW lo \in Int, NEW k \in Int, lo < k, lo .. k \subseteq D,
         Ascending(R, f, lo, k - 1), NEW p \in lo .. k,
         \A j \in p .. k - 1 : R[f[j]] > R[f[k]],
         p > lo => R[f[p - 1]] <= R[f[k]]
  PROVE  Ascending(R, Slid(f, p, k), lo, k)
<1> DEFINE g == Slid(f, p, k)
<1>1. \A m \in lo .. k : m \in D /\ m \in Int /\ R[f[m]] \in Int
  OBVIOUS
<1>2. \A m \in lo .. k : g[m] = IF m = p THEN f[k] ELSE IF m > p THEN f[m - 1] ELSE f[m]
  BY <1>1 DEF Slid
<1> HIDE DEF g
<1>3. \A i, j \in lo .. k - 1 : i <= j => R[f[i]] <= R[f[j]]
  <2> TAKE i, j \in lo .. k - 1
  <2>1. i \in lo .. k /\ j \in lo .. k
    OBVIOUS
  <2>2. i = j => R[f[i]] <= R[f[j]]
    BY <1>1, <2>1
  <2>3. i < j => R[f[i]] <= R[f[j]]
    BY DEF Ascending
  <2> QED
    BY <2>2, <2>3
<1>4. ASSUME NEW i \in lo .. k, NEW j \in lo .. k, i < j
      PROVE  R[g[i]] <= R[g[j]]
  <2>1. CASE j < p
    <3>1. i \in lo .. k - 1 /\ j \in lo .. k - 1 /\ g[i] = f[i] /\ g[j] = f[j]
      BY <1>2, <1>4, <2>1
    <3> QED
      BY <1>3, <1>4, <3>1
  <2>2. CASE j = p
    <3>1. i \in lo .. k - 1 /\ p - 1 \in lo .. k - 1 /\ i <= p - 1 /\ g[i] = f[i] /\ g[j] = f[k] /\ p > lo
      BY <1>2, <1>4, <2>2
    <3>2. R[f[i]] <= R[f[p - 1]]
      BY <1>3, <3>1
    <3>3. i \in lo .. k /\ p - 1 \in lo .. k /\ k \in lo .. k
      BY <3>1
    <3> QED
      BY <1>1, <3>1, <3>2, <3>3
  <2>3. CASE i < p /\ p < j
    <3>1. i \in lo .. k - 1 /\ j - 1 \in lo .. k - 1 /\ i <= j - 1 /\ g[i] = f[i] /\ g[j] = f[j - 1]
      BY <1>2, <1>4, <2>3
    <3> QED
      BY <1>3, <3>1
  <2>4. CASE i = p
    <3>1. j - 1 \in p .. k - 1 /\ g[i] = f[k] /\ g[j] = f[j - 1] /\ j - 1 \in lo .. k /\ k \in lo .. k
      BY <1>2, <1>4, <2>4
    <3>2. R[f[j - 1]] > R[f[k]]
      BY <3>1
    <3>3. R[f[j - 1]] \in Int /\ R[f[k]] \in Int
      BY <1>1, <3>1
    <3> QED
      BY <3>1, <3>2, <3>3
  <2>5. CASE i > p
    <3>1. i - 1 \in lo .. k - 1 /\ j - 1 \in lo .. k - 1 /\ i - 1 <= j - 1 /\ g[i] = f[i - 1] /\ g[j] = f[j - 1]
      BY <1>2, <1>4, <2>5
    <3> QED
      BY <1>3, <3>1
  <2> QED
    BY <1>4, <2>1, <2>2, <2>3, <2>4, <2>5
<1> QED
  BY <1>4 DEF Ascending, g

\* A turn of the insertion sort.
LEMMA InsertStep ==
  ASSUME SortInv, UNCHANGED << cnt, cmp >>, Insert
  PROVE  SortInv' /\ DOMAIN vec' = DOMAIN vec
<1> DEFINE R == Rank[cmp]
           D == DOMAIN vec
           S == Entries(stack)
           p == InsertAt
<1>1. SortTypes /\ RangesApart /\ AtWork /\ InPlace(R, vec, cnt, Open)
  BY DEF SortInv
<1>2. R \in [Elems -> Int] /\ \A k \in 0 .. cnt - 1 : k \in D /\ vec[k] \in Elems
  BY <1>1, SortDomain
<1>3. pc = "insert" /\ stack' = stack /\ cnt' = cnt /\ cmp' = cmp
  BY DEF Insert
<1>4. /\ 0 <= left /\ left < right /\ right < cnt /\ K \in left + 1 .. right
      /\ left \in Int /\ right \in Int /\ cnt \in Nat
      /\ vec \in [D -> Elems] /\ 0 .. cnt - 1 \subseteq D /\ D \subseteq Int
  BY <1>1, <1>3 DEF SortTypes
<1>5. /\ p \in left .. K /\ \A j \in p .. K - 1 : Above(j, K)
      /\ p > left => ~ Above(p - 1, K)
  BY <1>3, InsertPlace
<1>6. vec' = Slid(vec, p, K)
  BY DEF Insert, Slid
<1>7. InPlace(R, vec, cnt, S \cup {<< left, right >>}) /\ \A rng \in S : ~ Meet(rng, << left, right >>)
  BY <1>1, <1>3, OpenRanges DEF RangesApart
<1>8. AllApart(stack')
  BY <1>1, <1>3 DEF RangesApart
<1> HIDE DEF D, S, p
<1>9. K \in left .. right /\ p \in left .. K
  BY <1>4, <1>5
<1>10. Moves(vec, vec', cnt, left, right) /\ \A k \in 0 .. cnt - 1 : vec'[k] \in Elems
  BY <1>4, <1>6, <1>9, SlideMoves
<1>11. Ascending(R, vec', left, K)
  <2>1. Ascending(R, vec, left, K - 1)
    BY <1>1, <1>3 DEF AtWork
  <2>2. left .. K \subseteq D /\ left < K /\ K \in Int
    BY <1>4
  <2>3. \A k \in left .. K : R[vec[k]] \in Int
    BY <1>2, <1>4
  <2>4. p > left => R[vec[p - 1]] <= R[vec[K]]
    <3>1. p > left => p - 1 \in left .. K /\ K \in left .. K
      BY <1>4, <1>5
    <3> QED
      BY <1>5, <2>3, <3>1 DEF Above
  <2>5. \A j \in p .. K - 1 : R[vec[j]] > R[vec[K]]
    BY <1>5 DEF Above
  <2> QED
    BY <1>2, <1>4, <1>6, <1>9, <2>1, <2>2, <2>4, <2>5, SlideAscends
<1>12. DOMAIN vec' = D /\ vec' \in [D -> Elems]
  <2>1. DOMAIN vec' = D
    BY <1>6 DEF Slid, D
  <2>2. \A m \in D : vec'[m] \in Elems
    <3> TAKE m \in D
    <3>1. vec'[m] = IF m = p THEN vec[K] ELSE IF m > p /\ m <= K THEN vec[m - 1] ELSE vec[m]
      BY <1>6 DEF Slid, D
    <3>2. m \in Int /\ K \in 0 .. cnt - 1 /\ (m > p /\ m <= K => m - 1 \in 0 .. cnt - 1)
      BY <1>4, <1>9
    <3>3. K \in D /\ (m > p /\ m <= K => m - 1 \in D)
      BY <1>4, <3>2
    <3> QED
      BY <1>4, <3>1, <3>3
  <2>3. vec' = [m \in D |-> vec'[m]]
    BY <1>6 DEF Slid, D
  <2> QED
    BY <2>1, <2>2, <2>3
<1>13. CASE K < right
  <2>1. pc' = "insert" /\ left' = left /\ right' = right /\ L' = 0 /\ K' = K + 1 /\ G' = 0
    BY <1>13 DEF Insert, Work
  <2>2. InPlace(R, vec', cnt, S \cup {<< left, right >>})
    BY <1>2, <1>4, <1>7, <1>10, PermutedOpen
  <2>3. Open' = S \cup {<< left, right >>}
    BY <1>3, <2>1 DEF Open, Entries, S
  <2>4. InPlace(R, vec', cnt', Open')
    BY <1>3, <2>2, <2>3
  <2>5. K + 1 \in left + 1 .. right
    BY <1>4, <1>13
  <2>6. SortTypes'
    BY <1>1, <1>3, <1>4, <1>12, <2>1, <2>5 DEF SortTypes
  <2>7. RangesApart'
    BY <1>3, <1>7, <1>8, <2>1 DEF RangesApart, S
  <2>8. AtWork'
    <3>1. K' - 1 = K
      BY <1>4, <2>1
    <3> QED
      BY <1>3, <1>11, <2>1, <3>1 DEF AtWork
  <2> QED
    BY <1>3, <1>12, <2>4, <2>6, <2>7, <2>8 DEF SortInv, D
<1>14. CASE ~ (K < right)
  <2>1. pc' = "pop" /\ left' = 0 /\ right' = 0 /\ L' = 0 /\ K' = 0 /\ G' = 0
    BY <1>14 DEF Insert, Work, NextRange
  <2>2. K = right
    BY <1>4, <1>14
  <2>3. \A i, j \in left .. right : ~ (i < j /\ R[vec'[i]] > R[vec'[j]])
    <3> TAKE i, j \in left .. right
    <3>1. i \in 0 .. cnt - 1 /\ j \in 0 .. cnt - 1
      BY <1>4
    <3>2. R[vec'[i]] \in Int /\ R[vec'[j]] \in Int
      BY <1>2, <1>10, <3>1
    <3> QED
      BY <1>11, <2>2, <3>2 DEF Ascending
  <2>4. InPlace(R, vec', cnt, S \cup {})
    BY <1>2, <1>4, <1>7, <1>10, <2>3, Permuted
  <2>5. Open' = S \cup {}
    BY <1>3, <2>1 DEF Open, Entries, S
  <2>6. InPlace(R, vec', cnt', Open')
    BY <1>3, <2>4, <2>5
  <2>7. SortTypes'
    BY <1>1, <1>3, <1>4, <1>12, <2>1 DEF SortTypes
  <2>8. RangesApart' /\ AtWork'
    BY <1>8, <2>1 DEF RangesApart, AtWork
  <2> QED
    BY <1>3, <1>12, <2>6, <2>7, <2>8 DEF SortInv, D
<1> QED
  BY <1>13, <1>14

(* Where the inner loop stops.                                             *)
LEMMA HighPlace ==
  ASSUME K \in Int, G \in Int, K <= G, Above(K, right)
  PROVE  /\ LastNotAbove \in K .. G
         /\ \A j \in LastNotAbove + 1 .. G : Above(j, right)
         /\ LastNotAbove > K => ~ Above(LastNotAbove, right)
<1> DEFINE P(g) == /\ \A j \in g + 1 .. G : Above(j, right)
                   /\ g > K => ~ Above(g, right)
           T == {d \in 0 .. G - K : G - d = K \/ ~ Above(G - d, right)}
<1>1. \E g \in K .. G : P(g)
  <2>1. G - K \in T /\ T \subseteq Nat
    OBVIOUS
  <2>2. PICK d \in T : \A y \in T : d <= y
    BY <2>1, LeastNatural
  <2>3. d \in 0 .. G - K /\ (G - d = K \/ ~ Above(G - d, right))
    OBVIOUS
  <2>4. ASSUME NEW j \in G - d + 1 .. G
        PROVE  Above(j, right)
    <3>1. G - j \in 0 .. G - K /\ ~ (d <= G - j) /\ G - (G - j) = j
      BY <2>3, <2>4
    <3>2. G - j \notin T
      BY <2>2, <3>1
    <3> QED
      BY <3>1, <3>2
  <2>5. G - d \in K .. G /\ P(G - d)
    BY <2>3, <2>4
  <2> QED
    BY <2>5
<1> HIDE DEF P
<1>2. LastNotAbove = CHOOSE g \in K .. G : P(g)
  BY DEF LastNotAbove, P
<1>3. LastNotAbove \in K .. G /\ P(LastNotAbove)
  BY <1>1, <1>2
<1> QED
  BY <1>3 DEF P

(* A turn that moves elements of the range split, and keeps it at work.    *)
LEMMA PartKeeps ==
  ASSUME SortInv, UNCHANGED << cnt, cmp, stack >>, pc = "part", pc' = "part",
         left' = left, right' = right,
         L' \in Int, K' \in Int, G' \in Int, K' > left,
         vec' \in [DOMAIN vec -> Elems], Moves(vec, vec', cnt, left, right),
         Parted(Rank[cmp], vec', left, right, L', K', G')
  PROVE  SortInv' /\ DOMAIN vec' = DOMAIN vec
<1> DEFINE R == Rank[cmp]
           D == DOMAIN vec
           S == Entries(stack)
<1>1. SortTypes /\ RangesApart /\ InPlace(R, vec, cnt, Open)
  BY DEF SortInv
<1>2. R \in [Elems -> Int] /\ \A k \in 0 .. cnt - 1 : k \in D /\ vec[k] \in Elems
  BY <1>1, SortDomain
<1>3. /\ 0 <= left /\ left < right /\ right < cnt
      /\ left \in Int /\ right \in Int /\ cnt \in Nat
      /\ vec \in [D -> Elems] /\ 0 .. cnt - 1 \subseteq D /\ D \subseteq Int
  BY <1>1 DEF SortTypes
<1>4. InPlace(R, vec, cnt, S \cup {<< left, right >>}) /\ \A rng \in S : ~ Meet(rng, << left, right >>)
  BY <1>1, OpenRanges DEF RangesApart
<1>5. vec' \in [D -> Elems] /\ DOMAIN vec' = D
  OBVIOUS
<1> HIDE DEF D, S
<1>6. \A k \in 0 .. cnt - 1 : vec'[k] \in Elems
  BY <1>2, <1>5
<1>7. InPlace(R, vec', cnt, S \cup {<< left, right >>})
  BY <1>2, <1>3, <1>4, <1>6, PermutedOpen
<1>8. Open' = S \cup {<< left, right >>}
  BY DEF Open, Entries, S
<1>9. InPlace(Rank[cmp'], vec', cnt', Open')
  BY <1>7, <1>8
<1>10. K' \in left + 1 .. right
  BY <1>3 DEF Parted
<1>11. SortTypes'
  BY <1>1, <1>3, <1>5, <1>10 DEF SortTypes
<1>12. RangesApart'
  BY <1>1, <1>4 DEF RangesApart, S
<1>13. AtWork'
  BY DEF AtWork
<1> QED
  BY <1>5, <1>9, <1>11, <1>12, <1>13 DEF SortInv, D

\* A turn of the partition, the last of which leaves all for Split.
LEMMA PartStep ==
  ASSUME SortInv, UNCHANGED << cnt, cmp >>, Part
  PROVE  SortInv' /\ DOMAIN vec' = DOMAIN vec
<1> DEFINE R == Rank[cmp]
           D == DOMAIN vec
<1>1. SortTypes /\ RangesApart /\ AtWork
  BY DEF SortInv
<1>2. R \in [Elems -> Int] /\ \A k \in 0 .. cnt - 1 : k \in D /\ vec[k] \in Elems
  BY <1>1, SortDomain
<1>3. pc = "part" /\ K <= G /\ stack' = stack
  BY DEF Part
<1>4. /\ 0 <= left /\ left < right /\ right < cnt
      /\ left \in Int /\ right \in Int /\ cnt \in Nat /\ L \in Int /\ K \in Int /\ G \in Int
      /\ vec \in [D -> Elems] /\ 0 .. cnt - 1 \subseteq D
  BY <1>1, <1>3 DEF SortTypes
<1>5. Parted(R, vec, left, right, L, K, G)
  BY <1>1, <1>3 DEF AtWork
<1>6. left < L /\ L <= K /\ G < right
  BY <1>5 DEF Parted
<1> HIDE DEF D
<1>7. left .. right \subseteq D /\ K \in left .. right /\ L \in left .. right
  BY <1>3, <1>4, <1>6
<1>8. \A i \in left .. right : vec[i] \in Elems /\ R[vec[i]] \in Int
  BY <1>2, <1>4
<1>9. R[vec[left]] \in Int /\ R[vec[right]] \in Int /\ R[vec[K]] \in Int
  BY <1>4, <1>7, <1>8
<1>10. CASE PartLow
  <2>1. vec' = Swapped(vec, K, L) /\ R[vec[left]] > R[vec[K]]
    BY <1>10 DEF PartLow, Above
  <2>2. pc' = "part" /\ left' = left /\ right' = right /\ L' = L + 1 /\ K' = K + 1 /\ G' = G
    BY <1>10 DEF PartLow, Work
  <2>3. vec' \in [D -> Elems]
    BY <1>4, <1>7, <2>1, SwapFacts
  <2>4. Moves(vec, vec', cnt, left, right)
    BY <1>4, <1>7, <2>1, SwapMoves
  <2>5. Parted(R, vec', left, right, L + 1, K + 1, G)
    BY <1>2, <1>3, <1>4, <1>5, <1>7, <2>1, PartedLow
  <2>6. L' \in Int /\ K' \in Int /\ G' \in Int /\ K' > left
    BY <1>4, <1>6, <2>2
  <2>7. Parted(R, vec', left, right, L', K', G')
    BY <2>2, <2>5
  <2> QED
    BY <1>3, <2>2, <2>3, <2>4, <2>6, <2>7, PartKeeps DEF D
<1>11. CASE PartMiddle
  <2>1. vec' = vec /\ ~ (R[vec[left]] > R[vec[K]]) /\ ~ (R[vec[K]] > R[vec[right]])
    BY <1>11 DEF PartMiddle, Above
  <2>2. pc' = "part" /\ left' = left /\ right' = right /\ L' = L /\ K' = K + 1 /\ G' = G
    BY <1>11 DEF PartMiddle, Work
  <2>3. Moves(vec, vec', cnt, left, right)
    BY <1>4, <2>1, Stays
  <2>4. R[vec[left]] <= R[vec[K]] /\ R[vec[K]] <= R[vec[right]]
    BY <1>9, <2>1
  <2>5. Parted(R, vec, left, right, L, K + 1, G)
    BY <1>3, <1>4, <1>5, <2>4, PartedMiddle
  <2>6. L' \in Int /\ K' \in Int /\ G' \in Int /\ K' > left
    BY <1>4, <1>6, <2>2
  <2>7. Parted(R, vec', left, right, L', K', G')
    BY <2>1, <2>2, <2>5
  <2>8. vec' \in [D -> Elems]
    BY <1>4, <2>1
  <2> QED
    BY <1>3, <2>2, <2>3, <2>6, <2>7, <2>8, PartKeeps DEF D
<1>12. CASE PartHigh
  <2> DEFINE h == LastNotAbove
             v == Swapped(vec, K, h)
  <2>1. ~ (R[vec[left]] > R[vec[K]]) /\ Above(K, right) /\ R[vec[K]] > R[vec[right]]
    BY <1>12 DEF PartHigh, Above
  <2>2. /\ h \in K .. G /\ \A j \in h + 1 .. G : Above(j, right)
        /\ h > K => ~ Above(h, right)
    BY <1>3, <1>4, <2>1, HighPlace
  <2>3. /\ vec' = IF R[v[K]] < R[v[left]] THEN Swapped(v, K, L) ELSE v
        /\ Work("part", left, right, IF R[v[K]] < R[v[left]] THEN L + 1 ELSE L, K + 1, h - 1)
    BY <1>12 DEF PartHigh
  <2> HIDE DEF h
  <2>4. h \in left .. right /\ h \in Int
    BY <1>4, <1>6, <2>2
  <2>5. v \in [D -> Elems] /\ Moves(vec, v, cnt, left, right)
    BY <1>4, <1>7, <2>4, SwapFacts, SwapMoves
  <2>6. R[vec[left]] <= R[vec[K]]
    BY <1>9, <2>1
  <2>7. \A j \in h + 1 .. G : R[vec[j]] > R[vec[right]]
    BY <2>2 DEF Above
  <2>8. h > K => R[vec[h]] <= R[vec[right]]
    BY <1>8, <1>9, <2>2, <2>4 DEF Above
  <2>9. IF R[v[K]] < R[v[left]]
        THEN Parted(R, Swapped(v, K, L), left, right, L + 1, K + 1, h - 1)
        ELSE Parted(R, v, left, right, L, K + 1, h - 1)
    BY <1>2, <1>3, <1>4, <1>5, <1>7, <2>1, <2>2, <2>6, <2>7, <2>8, PartedHigh
  <2> HIDE DEF v
  <2>10. Swapped(v, K, L) \in [D -> Elems] /\ Moves(v, Swapped(v, K, L), cnt, left, right)
    BY <1>4, <1>7, <2>5, SwapFacts, SwapMoves
  <2>11. Moves(vec, Swapped(v, K, L), cnt, left, right)
    BY <1>4, <2>5, <2>10, MovesTwice
  <2>12. vec' \in [D -> Elems] /\ Moves(vec, vec', cnt, left, right)
    BY <2>3, <2>5, <2>10, <2>11
  <2>13. pc' = "part" /\ left' = left /\ right' = right /\ K' = K + 1 /\ G' = h - 1
         /\ L' = IF R[v[K]] < R[v[left]] THEN L + 1 ELSE L
    BY <2>3 DEF Work
  <2>14. L' \in Int /\ K' \in Int /\ G' \in Int /\ K' > left
    BY <1>4, <1>6, <2>4, <2>13
  <2>15. Parted(R, vec', left, right, L', K', G')
    BY <2>3, <2>9, <2>13
  <2> QED
    BY <1>3, <2>12, <2>13, <2>14, <2>15, PartKeeps DEF D
<1> QED
  BY <1>10, <1>11, <1>12 DEF Part

\* The pivots go to their places, and the three parts are pushed.
LEMMA SplitStep ==
  ASSUME SortInv, UNCHANGED << cnt, cmp >>, Split
  PROVE  SortInv' /\ DOMAIN vec' = DOMAIN vec
<1> DEFINE R == Rank[cmp]
           D == DOMAIN vec
           S == Entries(stack)
           l == << left, L - 2 >>
           m == << L, G >>
           r == << G + 2, right >>
           T == {l, m, r}
           u == Swapped(vec, left, L - 1)
           w == Swapped(u, right, G + 1)
<1>1. SortTypes /\ RangesApart /\ AtWork /\ InPlace(R, vec, cnt, Open)
  BY DEF SortInv
<1>2. R \in [Elems -> Int] /\ \A k \in 0 .. cnt - 1 : k \in D /\ vec[k] \in Elems
  BY <1>1, SortDomain
<1>3. pc = "part" /\ K > G /\ cnt' = cnt /\ cmp' = cmp
  BY DEF Split
<1>4. /\ 0 <= left /\ left < right /\ right < cnt
      /\ left \in Int /\ right \in Int /\ cnt \in Nat /\ L \in Int /\ K \in Int /\ G \in Int
      /\ vec \in [D -> Elems] /\ 0 .. cnt - 1 \subseteq D /\ D \subseteq Int
      /\ stack \in Seq(Int \X Int)
      /\ \A rng \in S : rng[1] \in 0 .. cnt + 1 /\ rng[2] \in -2 .. cnt - 1
  BY <1>1, <1>3 DEF SortTypes
<1>5. Parted(R, vec, left, right, L, K, G)
  BY <1>1, <1>3 DEF AtWork
<1>6. left < L /\ L - 1 <= G /\ G < right
  BY <1>5 DEF Parted
<1>7. InPlace(R, vec, cnt, S \cup {<< left, right >>}) /\ AllApart(stack)
      /\ \A rng \in S : ~ Meet(rng, << left, right >>)
  BY <1>1, <1>3, OpenRanges DEF RangesApart
<1>8. vec' = w /\ stack' = stack \o Pushed(l, m, r)
  BY DEF Split
<1>9. pc' = "pop" /\ left' = 0 /\ right' = 0 /\ L' = 0 /\ K' = 0 /\ G' = 0
  BY DEF Split, NextRange, Work
<1> HIDE DEF D, S
<1>10. left .. right \subseteq D /\ left \in left .. right /\ right \in left .. right
       /\ L - 1 \in left .. right /\ G + 1 \in left .. right
  BY <1>4, <1>6
<1>11. u \in [D -> Elems] /\ Moves(vec, u, cnt, left, right)
  BY <1>4, <1>10, SwapFacts, SwapMoves
<1>12. w \in [D -> Elems] /\ Moves(u, w, cnt, left, right)
  <2> HIDE DEF u
  <2> QED
    BY <1>4, <1>10, <1>11, SwapFacts, SwapMoves
<1>13. w = Swapped(Swapped(vec, left, L - 1), right, G + 1)
  OBVIOUS
<1> HIDE DEF u, w
<1>14. Moves(vec, w, cnt, left, right)
  BY <1>4, <1>11, <1>12, MovesTwice
<1>15. \A k \in 0 .. cnt - 1 : w[k] \in Elems
  BY <1>4, <1>12
<1>16. l \in Int \X Int /\ m \in Int \X Int /\ r \in Int \X Int
  BY <1>4
<1>17. \A i \in Int : /\ InRange(i, l) <=> left <= i /\ i <= L - 2
                      /\ InRange(i, m) <=> L <= i /\ i <= G
                      /\ InRange(i, r) <=> G + 2 <= i /\ i <= right
                      /\ InRange(i, << left, right >>) <=> left <= i /\ i <= right
  BY DEF InRange
<1>18. /\ l[1] = left /\ l[2] = L - 2 /\ m[1] = L /\ m[2] = G /\ r[1] = G + 2 /\ r[2] = right
  OBVIOUS
<1> HIDE DEF l, m, r
<1>19. ~ Meet(l, m) /\ ~ Meet(l, r) /\ ~ Meet(m, r)
  BY <1>4, <1>6, <1>17 DEF Meet
<1>20. \A q \in T : \A i \in Int : InRange(i, q) => InRange(i, << left, right >>)
  <2>1. \A i \in Int : /\ left <= i /\ i <= L - 2 => left <= i /\ i <= right
                       /\ L <= i /\ i <= G => left <= i /\ i <= right
                       /\ G + 2 <= i /\ i <= right => left <= i /\ i <= right
    <3>1. left \in Int /\ right \in Int /\ L \in Int /\ G \in Int
      BY <1>4
    <3> QED
      BY <1>6, <3>1
  <2>2. \A i \in Int : InRange(i, l) \/ InRange(i, m) \/ InRange(i, r)
                         => InRange(i, << left, right >>)
    BY <1>17, <2>1, Zenon
  <2> QED
    BY <2>2, Zenon DEF T
<1>21. \A i, j \in left .. right : i < j /\ R[w[i]] > R[w[j]] =>
         \E rng \in T : InRange(i, rng) /\ InRange(j, rng)
  <2> TAKE i, j \in left .. right
  <2> HAVE i < j /\ R[w[i]] > R[w[j]]
  <2>1. j <= L - 2 \/ (L <= i /\ j <= G) \/ G + 2 <= i
    BY <1>2, <1>3, <1>4, <1>5, <1>10, <1>13, PartedSplit
  <2>2. \/ InRange(i, l) /\ InRange(j, l)
        \/ InRange(i, m) /\ InRange(j, m)
        \/ InRange(i, r) /\ InRange(j, r)
    BY <1>4, <1>17, <2>1
  <2> QED
    BY <2>2
<1>22. \A s \in S, q \in T : ~ Meet(s, q)
  BY <1>7, <1>20 DEF Meet
<1>23. \A q \in T : q[1] \in 0 .. cnt + 1 /\ q[2] \in -2 .. cnt - 1
  BY <1>4, <1>6, <1>18, SMTT(30)
<1> HIDE DEF T
<1>24. /\ Pushed(l, m, r) \in Seq(Int \X Int) /\ AllApart(Pushed(l, m, r))
       /\ Entries(Pushed(l, m, r)) = T
  BY <1>16, <1>19, PushedEntries DEF T
<1>25. stack' \in Seq(Int \X Int) /\ AllApart(stack') /\ Entries(stack') = S \cup T
  <2> DEFINE t == Pushed(l, m, r)
  <2>1. t \in Seq(Int \X Int) /\ AllApart(t) /\ Entries(t) = T
    BY <1>24
  <2> HIDE DEF t
  <2>2. \A q \in Entries(stack), v \in Entries(t) : ~ Meet(q, v)
    BY <1>22, <2>1 DEF S
  <2>3. /\ stack \o t \in Seq(Int \X Int) /\ AllApart(stack \o t)
        /\ Entries(stack \o t) = Entries(stack) \cup Entries(t)
    BY <1>4, <1>7, <2>1, <2>2, PushStack
  <2> QED
    BY <1>8, <2>1, <2>3 DEF S, t
<1>26. InPlace(R, w, cnt, S \cup T)
  BY <1>2, <1>4, <1>7, <1>14, <1>15, <1>21, Permuted
<1>27. Open' = S \cup T
  BY <1>9, <1>25 DEF Open, Entries
<1>28. InPlace(Rank[cmp'], vec', cnt', Open')
  BY <1>3, <1>8, <1>26, <1>27
<1>29. DOMAIN vec' = D /\ vec' \in [D -> Elems]
  BY <1>8, <1>12
<1>30. \A rng \in Entries(stack') : rng[1] \in 0 .. cnt + 1 /\ rng[2] \in -2 .. cnt - 1
  BY <1>4, <1>23, <1>25
<1>31. SortTypes'
  BY <1>1, <1>3, <1>4, <1>9, <1>25, <1>29, <1>30 DEF SortTypes
<1>32. RangesApart' /\ AtWork'
  BY <1>9, <1>25 DEF RangesApart, AtWork
<1> QED
  BY <1>28, <1>29, <1>31, <1>32 DEF SortInv, D

\* Every turn of the sort keeps the invariant, whatever the pivots are.
THEOREM TurnKeepsOrder ==
  ASSUME SortInv, UNCHANGED << cnt, cmp >>, SortStep
  PROVE  SortInv' /\ DOMAIN vec' = DOMAIN vec
BY PopStep, InsertStep, PartStep, SplitStep DEF SortStep

\* The whole vector is one range to sort: the invariant holds at the start.
THEOREM SortStarts ==
  ASSUME cnt \in Nat, cmp' \in Cmps, cnt' = cnt, vec' = vec, pc = "pop", StartSort,
         vec \in [DOMAIN vec -> Elems], 0 .. cnt - 1 \subseteq DOMAIN vec, DOMAIN vec \subseteq Int,
         left \in Int, right \in Int, L \in Int, K \in Int, G \in Int
  PROVE  SortInv'
<1> DEFINE a == << 0, cnt - 1 >>
           s == << a >>
<1>1. /\ stack' = s /\ pc' = "pop"
      /\ left' = left /\ right' = right /\ L' = L /\ K' = K /\ G' = G
  BY DEF StartSort
<1>2. a \in Int \X Int /\ a[1] = 0 /\ a[2] = cnt - 1
  OBVIOUS
<1>3. s \in Seq(Int \X Int) /\ Len(s) = 1 /\ s[1] = a
  BY <1>2
<1> HIDE DEF s
<1>4. AllApart(s)
  BY <1>3 DEF AllApart
<1>5. Entries(s) = {a}
  <2> HIDE DEF a
  <2>1. 1 \in 1 .. Len(s) /\ \A k \in 1 .. Len(s) : k = 1
    BY <1>3
  <2> QED
    BY <1>3, <2>1 DEF Entries
<1>6. Open' = {a}
  BY <1>1, <1>5 DEF Open, Entries
<1>7. \A i \in 0 .. cnt - 1 : InRange(i, a)
  BY <1>2 DEF InRange
<1>8. InPlace(Rank[cmp'], vec', cnt', Open')
  BY <1>6, <1>7 DEF InPlace
<1>9. \A rng \in Entries(stack') : rng[1] \in 0 .. cnt + 1 /\ rng[2] \in -2 .. cnt - 1
  BY <1>1, <1>2, <1>5
<1>10. SortTypes'
  BY <1>1, <1>3, <1>9 DEF SortTypes
<1>11. RangesApart' /\ AtWork'
  BY <1>1, <1>4 DEF RangesApart, AtWork
<1> QED
  BY <1>8, <1>10, <1>11 DEF SortInv

\* When no range is left, the elements are in order.
THEOREM SortEnds ==
  ASSUME SortInv, ~ Sorting
  PROVE  \A i, j \in 0 .. cnt - 1 : i < j => ~ Above(i, j)
<1>1. Entries(stack) = {}
  <2>1. \A k \in 1 .. 0 : FALSE
    OBVIOUS
  <2>2. stack = <<>> /\ Len(stack) = 0
    BY DEF Sorting
  <2> QED
    BY <2>1, <2>2 DEF Entries
<1>2. Open = {}
  BY <1>1, OpenRanges DEF Sorting
<1> QED
  BY <1>2 DEF SortInv, InPlace, Above

-----------------------------------------------------------------------------
(* The depth of the stack.  DepthFor is a recursive function; that it has   *)
(* the value its definition asks for is proved first (DepthEquation), from  *)
(* solutions up to every number, then how it grows, then that the stack     *)
(* never needs more, and last the number the C array has to do with.        *)

\* The deepest of the stacks that the three parts of a range need.
Deepest(a, b, c) ==
  LET deepest == {3, 2 + a, 1 + b, c} IN CHOOSE d \in deepest : \A x \in deepest : x <= d

\* One turn of the recursion of DepthFor.
DepthTurn(f, n) ==
  IF n <= Small + 1 THEN 1
  ELSE Deepest(f[(n - 2) \div 3], f[(n - 2) \div 2], f[n - 2])

\* A part of a range is shorter than the range.
LEMMA PartsAreShorter ==
  ASSUME NEW n \in Nat, n > Small + 1
  PROVE  /\ (n - 2) \div 3 \in 0 .. n - 1 /\ (n - 2) \div 2 \in 0 .. n - 1
         /\ n - 2 \in 0 .. n - 1 /\ n >= 3
         /\ (n - 2) \div 3 \in Nat /\ (n - 2) \div 2 \in Nat
OBVIOUS

\* The depth of n depends on that of smaller numbers only.
LEMMA DepthTurnLocal ==
  ASSUME NEW n \in Nat, NEW f, NEW g, \A m \in 0 .. n - 1 : f[m] = g[m]
  PROVE  DepthTurn(f, n) = DepthTurn(g, n)
<1>1. CASE n <= Small + 1
  BY <1>1 DEF DepthTurn
<1>2. CASE ~ (n <= Small + 1)
  <2>1. /\ (n - 2) \div 3 \in 0 .. n - 1 /\ (n - 2) \div 2 \in 0 .. n - 1
        /\ n - 2 \in 0 .. n - 1
    BY <1>2, PartsAreShorter
  <2>2. /\ f[(n - 2) \div 3] = g[(n - 2) \div 3] /\ f[(n - 2) \div 2] = g[(n - 2) \div 2]
        /\ f[n - 2] = g[n - 2]
    BY <2>1
  <2> QED
    BY <1>2, <2>2 DEF DepthTurn
<1> QED
  BY <1>1, <1>2

\* f satisfies the recursion below k.
UpTo(f, k) == \A n \in 0 .. k - 1 : f[n] = DepthTurn(f, n)

\* Two solutions up to k agree below k.
LEMMA DepthUnique ==
  ASSUME NEW k \in Nat, NEW f, NEW g, UpTo(f, k), UpTo(g, k)
  PROVE  \A n \in 0 .. k - 1 : f[n] = g[n]
<1> DEFINE T == {n \in 0 .. k - 1 : f[n] # g[n]}
<1> SUFFICES ASSUME T # {} PROVE FALSE
  OBVIOUS
<1>1. PICK n \in T : \A y \in T : n <= y
  <2>1. T \subseteq Nat
    OBVIOUS
  <2> HIDE DEF T
  <2> QED
    BY <2>1, LeastNatural
<1>2. n \in 0 .. k - 1 /\ n \in Nat /\ f[n] # g[n]
  OBVIOUS
<1>3. \A m \in 0 .. n - 1 : f[m] = g[m]
  BY <1>1, <1>2
<1>4. DepthTurn(f, n) = DepthTurn(g, n)
  BY <1>2, <1>3, DepthTurnLocal
<1> QED
  BY <1>2, <1>4 DEF UpTo

\* The recursion of DepthFor has a solution up to every k.
LEMMA DepthBelow ==
  ASSUME NEW k \in Nat
  PROVE  \E f : UpTo(f, k)
<1> DEFINE T == {n \in Nat : ~ \E f : UpTo(f, n)}
<1> SUFFICES ASSUME T # {} PROVE FALSE
  OBVIOUS
<1>1. PICK n \in T : \A y \in T : n <= y
  <2>1. T \subseteq Nat
    OBVIOUS
  <2> HIDE DEF T
  <2> QED
    BY <2>1, LeastNatural
<1>2. n \in Nat /\ ~ \E f : UpTo(f, n)
  OBVIOUS
<1>3. n # 0
  BY <1>2 DEF UpTo
<1> DEFINE j == n - 1
<1>4. j \in Nat /\ j \notin T
  BY <1>1, <1>2, <1>3
<1>5. PICK f : UpTo(f, j)
  BY <1>4
<1> DEFINE g == [m \in Nat |-> IF m = j THEN DepthTurn(f, j) ELSE f[m]]
<1>6. \A m \in Nat : g[m] = IF m = j THEN DepthTurn(f, j) ELSE f[m]
  OBVIOUS
<1> HIDE DEF g
<1>7. ASSUME NEW m \in 0 .. n - 1
      PROVE  g[m] = DepthTurn(g, m)
  <2>1. m \in Nat /\ \A i \in 0 .. m - 1 : i \in Nat /\ i # j
    BY <1>2, <1>4
  <2>2. \A i \in 0 .. m - 1 : f[i] = g[i]
    BY <1>6, <2>1
  <2>3. DepthTurn(f, m) = DepthTurn(g, m)
    BY <2>1, <2>2, DepthTurnLocal
  <2>4. m # j => m \in 0 .. j - 1
    BY <1>2, <1>4
  <2> QED
    BY <1>5, <1>6, <2>1, <2>3, <2>4 DEF UpTo
<1> QED
  BY <1>2, <1>7 DEF UpTo

\* DepthFor satisfies its recursion.
LEMMA DepthEquation == \A n \in Nat : DepthFor[n] = DepthTurn(DepthFor, n)
<1> DEFINE F == [n \in Nat |-> (CHOOSE f : UpTo(f, n + 1))[n]]
<1>1. ASSUME NEW n \in Nat
      PROVE  F[n] = DepthTurn(F, n)
  <2> DEFINE f == CHOOSE h : UpTo(h, n + 1)
  <2>1. UpTo(f, n + 1)
    BY DepthBelow
  <2>2. F[n] = f[n]
    OBVIOUS
  <2>3. ASSUME NEW m \in 0 .. n - 1
        PROVE  f[m] = F[m]
    <3> DEFINE g == CHOOSE h : UpTo(h, m + 1)
    <3>1. UpTo(g, m + 1)
      BY DepthBelow
    <3>2. F[m] = g[m]
      OBVIOUS
    <3> HIDE DEF f, g, F
    <3>3. UpTo(f, m + 1)
      BY <2>1 DEF UpTo
    <3> QED
      BY <3>1, <3>2, <3>3, DepthUnique
  <2> HIDE DEF f, F
  <2>4. DepthTurn(f, n) = DepthTurn(F, n)
    BY <2>3, DepthTurnLocal
  <2> QED
    BY <2>1, <2>2, <2>4 DEF UpTo
<1>2. F = [n \in Nat |-> DepthTurn(F, n)]
  <2>1. F = [n \in Nat |-> F[n]]
    OBVIOUS
  <2> HIDE DEF F
  <2> QED
    BY <1>1, <2>1
<1> HIDE DEF F
<1>3. DepthFor = CHOOSE f : f = [n \in Nat |-> DepthTurn(f, n)]
  BY DEF DepthFor, DepthTurn, Deepest
<1>4. DepthFor = [n \in Nat |-> DepthTurn(DepthFor, n)]
  BY <1>2, <1>3
<1> QED
  BY <1>4

\* What DepthFor promises of a range and its parts.
LEMMA DepthFacts ==
  ASSUME NEW n \in Nat
  PROVE  /\ DepthFor[n] \in Nat \ {0}
         /\ n <= Small + 1 => DepthFor[n] = 1
         /\ n > Small + 1 =>
              /\ DepthFor[n] >= 3
              /\ DepthFor[n] >= 2 + DepthFor[(n - 2) \div 3]
              /\ DepthFor[n] >= 1 + DepthFor[(n - 2) \div 2]
              /\ DepthFor[n] >= DepthFor[n - 2]
              /\ DepthFor[n] \in {3, 2 + DepthFor[(n - 2) \div 3],
                                  1 + DepthFor[(n - 2) \div 2], DepthFor[n - 2]}
<1> DEFINE Good(m) ==
             /\ DepthFor[m] \in Nat \ {0}
             /\ m <= Small + 1 => DepthFor[m] = 1
             /\ m > Small + 1 =>
                  /\ DepthFor[m] >= 3
                  /\ DepthFor[m] >= 2 + DepthFor[(m - 2) \div 3]
                  /\ DepthFor[m] >= 1 + DepthFor[(m - 2) \div 2]
                  /\ DepthFor[m] >= DepthFor[m - 2]
                  /\ DepthFor[m] \in {3, 2 + DepthFor[(m - 2) \div 3],
                                      1 + DepthFor[(m - 2) \div 2], DepthFor[m - 2]}
           T == {m \in Nat : ~ Good(m)}
<1>1. ASSUME T # {}
      PROVE  FALSE
  <2>1. PICK m \in T : \A y \in T : m <= y
    <3>1. T \subseteq Nat
      OBVIOUS
    <3> HIDE DEF T
    <3> QED
      BY <1>1, <3>1, LeastNatural
  <2>2. m \in Nat /\ ~ Good(m)
    OBVIOUS
  <2>3. DepthFor[m] = DepthTurn(DepthFor, m)
    BY DepthEquation
  <2>4. CASE m <= Small + 1
    BY <2>2, <2>3, <2>4 DEF DepthTurn
  <2>5. CASE ~ (m <= Small + 1)
    <3> DEFINE a == (m - 2) \div 3
               b == (m - 2) \div 2
               c == m - 2
               S == {3, 2 + DepthFor[a], 1 + DepthFor[b], DepthFor[c]}
    <3>1. m > Small + 1 /\ a \in 0 .. m - 1 /\ b \in 0 .. m - 1 /\ c \in 0 .. m - 1
      BY <2>2, <2>5, PartsAreShorter
    <3>2. \A i \in 0 .. m - 1 : i \in Nat /\ ~ (m <= i)
      BY <2>2
    <3>3. \A i \in 0 .. m - 1 : DepthFor[i] \in Nat \ {0}
      BY <2>1, <3>2
    <3> HIDE DEF a, b, c
    <3>4. DepthFor[a] \in Nat /\ DepthFor[b] \in Nat /\ DepthFor[c] \in Nat
      BY <3>1, <3>3
    <3>5. \E d \in S : \A x \in S : x <= d
      BY <3>4
    <3>6. DepthFor[m] = CHOOSE d \in S : \A x \in S : x <= d
      BY <2>3, <2>5 DEF DepthTurn, Deepest, a, b, c
    <3>7. DepthFor[m] \in S /\ \A x \in S : x <= DepthFor[m]
      BY <3>5, <3>6
    <3>8. Good(m)
      BY <2>5, <3>1, <3>4, <3>7 DEF a, b, c
    <3> QED
      BY <2>2, <3>8
  <2> QED
    BY <2>4, <2>5
<1>2. n \notin T
  BY <1>1
<1> QED
  BY <1>2

\* A longer range needs no shallower stack.
LEMMA DepthGrows ==
  ASSUME NEW m \in Nat, NEW n \in Nat, m <= n
  PROVE  DepthFor[m] <= DepthFor[n]
<1> DEFINE T == {y \in Nat : \E x \in Nat : x <= y /\ DepthFor[x] > DepthFor[y]}
<1>1. ASSUME T # {}
      PROVE  FALSE
  <2>1. PICK y \in T : \A z \in T : y <= z
    <3>1. T \subseteq Nat
      OBVIOUS
    <3> HIDE DEF T
    <3> QED
      BY <1>1, <3>1, LeastNatural
  <2>2. PICK x \in Nat : x <= y /\ DepthFor[x] > DepthFor[y]
    OBVIOUS
  <2>3. \A i, j \in Nat : j < y /\ i <= j => ~ (DepthFor[i] > DepthFor[j])
    BY <2>1
  <2> HIDE DEF T
  <2>4. y \in Nat
    BY <2>1 DEF T
  <2>5. DepthFor[x] \in Nat \ {0} /\ DepthFor[y] \in Nat \ {0}
    BY <2>4, DepthFacts
  <2>6. x > Small + 1
    <3>1. x <= Small + 1 => DepthFor[x] = 1
      BY DepthFacts
    <3> QED
      BY <2>2, <2>5, <3>1
  <2>7. y > Small + 1
    BY <2>2, <2>4, <2>6
  <2> DEFINE x3 == (x - 2) \div 3
             y3 == (y - 2) \div 3
             x2 == (x - 2) \div 2
             y2 == (y - 2) \div 2
  <2>8. /\ x3 \in Nat /\ y3 \in Nat /\ x2 \in Nat /\ y2 \in Nat /\ x - 2 \in Nat /\ y - 2 \in Nat
        /\ y3 < y /\ y2 < y /\ y - 2 < y
    BY <2>4, <2>6, <2>7, PartsAreShorter
  <2>9. x3 <= y3
    BY <2>2, <2>4, <2>6
  <2>10. x2 <= y2 /\ x - 2 <= y - 2
    BY <2>2, <2>4, <2>6
  <2>11. /\ DepthFor[y] >= 3 /\ DepthFor[y] >= 2 + DepthFor[y3]
         /\ DepthFor[y] >= 1 + DepthFor[y2] /\ DepthFor[y] >= DepthFor[y - 2]
    BY <2>4, <2>7, DepthFacts
  <2>12. DepthFor[x] \in {3, 2 + DepthFor[x3], 1 + DepthFor[x2], DepthFor[x - 2]}
    BY <2>6, DepthFacts
  <2> HIDE DEF x2, x3, y2, y3
  <2>13. /\ ~ (DepthFor[x3] > DepthFor[y3]) /\ ~ (DepthFor[x2] > DepthFor[y2])
         /\ ~ (DepthFor[x - 2] > DepthFor[y - 2])
    BY <2>3, <2>8, <2>9, <2>10
  <2>14. /\ DepthFor[x3] \in Nat /\ DepthFor[y3] \in Nat /\ DepthFor[x2] \in Nat
         /\ DepthFor[y2] \in Nat /\ DepthFor[x - 2] \in Nat /\ DepthFor[y - 2] \in Nat
    BY <2>8, DepthFacts
  <2> QED
    BY <2>2, <2>5, <2>11, <2>12, <2>13, <2>14
<1>2. ~ (DepthFor[m] > DepthFor[n])
  BY <1>1
<1>3. DepthFor[m] \in Nat /\ DepthFor[n] \in Nat
  BY DepthFacts
<1> QED
  BY <1>2, <1>3

\* The elements of a range.
Length(rng) == rng[2] - rng[1] + 1

\* The ranges on the stack are shorter the higher they are: the stack below a
\* range leaves room for the depth that sorting the range takes.
StackInv ==
  /\ \A k \in 1 .. Len(stack) :
       Length(stack[k]) \in Nat /\ k - 1 + DepthFor[Length(stack[k])] <= DepthFor[cnt]
  /\ pc # "pop" => Len(stack) + DepthFor[right - left + 1] <= DepthFor[cnt]
  /\ pc = "part" => right - left > Small

\* utl_dpqordrange and the switch: the longest range goes first, the shortest
\* last.
LEMMA PushedSorted ==
  ASSUME NEW l \in Int \X Int, NEW m \in Int \X Int, NEW r \in Int \X Int,
         Length(l) \in Nat, Length(m) \in Nat, Length(r) \in Nat,
         NEW n \in Nat, n = Length(l) + Length(m) + Length(r)
  PROVE  /\ Len(Pushed(l, m, r)) = 3
         /\ \A k \in 1 .. 3 : Length(Pushed(l, m, r)[k]) \in Nat
         /\ Length(Pushed(l, m, r)[1]) <= n
         /\ Length(Pushed(l, m, r)[2]) <= n \div 2
         /\ Length(Pushed(l, m, r)[3]) <= n \div 3
<1> DEFINE Good(a, b, c) ==
             /\ Len(<< a, b, c >>) = 3
             /\ \A k \in 1 .. 3 : Length(<< a, b, c >>[k]) \in Nat
             /\ Length(<< a, b, c >>[1]) <= n
             /\ Length(<< a, b, c >>[2]) <= n \div 2
             /\ Length(<< a, b, c >>[3]) <= n \div 3
<1>1. ASSUME NEW a, NEW b, NEW c,
             Length(a) \in Nat, Length(b) \in Nat, Length(c) \in Nat,
             n = Length(a) + Length(b) + Length(c),
             Length(a) >= Length(b), Length(b) >= Length(c)
      PROVE  Good(a, b, c)
  <2>1. \A x, y, z \in Nat : x >= y /\ y >= z /\ n = x + y + z =>
           x <= n /\ y <= n \div 2 /\ z <= n \div 3
    OBVIOUS
  <2>2. Length(a) <= n /\ Length(b) <= n \div 2 /\ Length(c) <= n \div 3
    BY <1>1, <2>1
  <2>3. /\ << a, b, c >>[1] = a /\ << a, b, c >>[2] = b /\ << a, b, c >>[3] = c
        /\ Len(<< a, b, c >>) = 3
    OBVIOUS
  <2>4. \A k \in 1 .. 3 : k = 1 \/ k = 2 \/ k = 3
    OBVIOUS
  <2> QED
    BY <1>1, <2>2, <2>3, <2>4, Zenon
<1> HIDE DEF Good
<1>2. l[2] - l[1] \in Int /\ m[2] - m[1] \in Int /\ r[2] - r[1] \in Int
  OBVIOUS
<1>3. /\ Length(l) = l[2] - l[1] + 1 /\ Length(m) = m[2] - m[1] + 1
      /\ Length(r) = r[2] - r[1] + 1
  BY DEF Length
<1> DEFINE P == Pushed(l, m, r)
<1>4. \/ P = << r, m, l >> /\ Length(r) >= Length(m) /\ Length(m) >= Length(l)
      \/ P = << l, r, m >> /\ Length(l) >= Length(r) /\ Length(r) >= Length(m)
      \/ P = << r, l, m >> /\ Length(r) >= Length(l) /\ Length(l) >= Length(m)
      \/ P = << m, r, l >> /\ Length(m) >= Length(r) /\ Length(r) >= Length(l)
      \/ P = << l, m, r >> /\ Length(l) >= Length(m) /\ Length(m) >= Length(r)
      \/ P = << m, l, r >> /\ Length(m) >= Length(l) /\ Length(l) >= Length(r)
  BY <1>2, <1>3 DEF Pushed
<1> HIDE DEF P
<1>5. \E a, b, c : P = << a, b, c >> /\ Good(a, b, c)
  <2>1. /\ n = Length(r) + Length(m) + Length(l) /\ n = Length(l) + Length(r) + Length(m)
        /\ n = Length(r) + Length(l) + Length(m) /\ n = Length(m) + Length(r) + Length(l)
        /\ n = Length(l) + Length(m) + Length(r) /\ n = Length(m) + Length(l) + Length(r)
    OBVIOUS
  <2> QED
    BY <1>1, <1>4, <2>1
<1> QED
  BY <1>5 DEF Good, P

\* An empty stack, and no range at work.
LEMMA NoStack ==
  ASSUME stack' = <<>>, pc' = "pop"
  PROVE  StackInv'
BY DEF StackInv

\* A range taken from the stack.
LEMMA PopDepth ==
  ASSUME SortTypes, StackInv, cnt' = cnt, Pop
  PROVE  StackInv'
<1>1. stack \in Seq(Int \X Int) /\ stack # <<>> /\ stack' = Below /\ cnt \in Nat
  BY DEF SortTypes, Pop
<1> DEFINE n == Len(stack)
<1>2. n \in Nat \ {0} /\ Len(Below) = n - 1 /\ \A k \in 1 .. n - 1 : Below[k] = stack[k]
  <2>1. n \in Nat \ {0}
    BY <1>1
  <2>2. Len(Below) = n - 1 /\ \A k \in 1 .. Len(Below) : Below[k] = stack[k]
    BY <1>1, PopEntries DEF Below
  <2> QED
    BY <2>1, <2>2
<1>3. Length(Top) \in Nat /\ n - 1 + DepthFor[Length(Top)] <= DepthFor[cnt]
  BY <1>2 DEF StackInv, Top
<1>4. \A k \in 1 .. n - 1 :
        Length(Below[k]) \in Nat /\ k - 1 + DepthFor[Length(Below[k])] <= DepthFor[cnt]
  BY <1>2 DEF StackInv
<1>5. \A k \in 1 .. Len(stack') :
        Length(stack'[k]) \in Nat /\ k - 1 + DepthFor[Length(stack'[k])] <= DepthFor[cnt']
  BY <1>1, <1>2, <1>4
<1>6. CASE PopSorted
  BY <1>5, <1>6 DEF StackInv, PopSorted, NextRange, Work
<1>7. CASE PopShort \/ PopLong
  <2>1. left' = Top[1] /\ right' = Top[2] /\ (pc' = "part" => Top[2] - Top[1] > Small)
    BY <1>7 DEF PopShort, PopLong, Work
  <2>2. right' - left' + 1 = Length(Top) /\ (pc' = "part" => right' - left' > Small)
    BY <2>1 DEF Length
  <2>3. Len(stack') + DepthFor[right' - left' + 1] <= DepthFor[cnt']
    BY <1>1, <1>2, <1>3, <2>2
  <2> QED
    BY <1>5, <2>2, <2>3 DEF StackInv
<1> QED
  BY <1>6, <1>7 DEF Pop

\* A turn of the insertion or of the partition: the range at work stays, or is
\* done.
LEMMA TurnDepth ==
  ASSUME StackInv, cnt' = cnt, Insert \/ Part
  PROVE  StackInv'
<1>1. stack' = stack /\ pc # "pop"
  BY DEF Insert, Part
<1>2. \/ pc' = "pop"
      \/ pc' = pc /\ left' = left /\ right' = right
  BY DEF Insert, Part, NextRange, Work, PartLow, PartMiddle, PartHigh
<1>3. CASE pc' = "pop"
  BY <1>1, <1>3 DEF StackInv
<1>4. CASE pc' = pc /\ left' = left /\ right' = right
  BY <1>1, <1>4 DEF StackInv
<1> QED
  BY <1>2, <1>3, <1>4

\* The three parts fit on the stack, and each of them can be sorted where it
\* is: the depth of the range is that of its parts with those below them.
LEMMA SplitDepth ==
  ASSUME SortInv, StackInv, cnt' = cnt, Split
  PROVE  StackInv'
<1> DEFINE l == << left, L - 2 >>
           m == << L, G >>
           r == << G + 2, right >>
           n == right - left + 1
           s == Len(stack)
           p == Pushed(l, m, r)
           D == DepthFor[cnt]
<1>1. pc = "part" /\ stack' = stack \o p /\ pc' = "pop"
  BY DEF Split, NextRange, Work
<1>2. /\ left \in Int /\ right \in Int /\ L \in Int /\ K \in Int /\ G \in Int /\ cnt \in Nat
      /\ stack \in Seq(Int \X Int)
      /\ left < L /\ L - 1 <= G /\ G < right
  BY <1>1 DEF SortInv, SortTypes, AtWork, Parted
<1>3. right - left > Small /\ s + DepthFor[n] <= D
  BY <1>1 DEF StackInv
<1>4. n \in Nat /\ n > Small + 1 /\ n - 2 \in Nat /\ s \in Nat /\ D \in Nat
  BY <1>2, <1>3, DepthFacts
<1>5. /\ l \in Int \X Int /\ m \in Int \X Int /\ r \in Int \X Int
      /\ Length(l) \in Nat /\ Length(m) \in Nat /\ Length(r) \in Nat
      /\ n - 2 = Length(l) + Length(m) + Length(r)
  BY <1>2 DEF Length
<1> HIDE DEF l, m, r
<1>6. /\ Len(p) = 3 /\ \A k \in 1 .. 3 : Length(p[k]) \in Nat
      /\ Length(p[1]) <= n - 2 /\ Length(p[2]) <= (n - 2) \div 2
      /\ Length(p[3]) <= (n - 2) \div 3
  BY <1>4, <1>5, PushedSorted
<1>7. p \in Seq(Int \X Int)
  <2>1. \/ p = << r, m, l >> \/ p = << l, r, m >> \/ p = << r, l, m >>
        \/ p = << m, r, l >> \/ p = << l, m, r >> \/ p = << m, l, r >>
    BY DEF Pushed
  <2>2. \A a, b, c \in Int \X Int : << a, b, c >> \in Seq(Int \X Int)
    OBVIOUS
  <2> DEFINE S == Seq(Int \X Int)
  <2>3. /\ << r, m, l >> \in S /\ << l, r, m >> \in S /\ << r, l, m >> \in S
        /\ << m, r, l >> \in S /\ << l, m, r >> \in S /\ << m, l, r >> \in S
    BY <1>5, <2>2, ZenonT(30)
  <2> HIDE DEF p, S
  <2>4. p \in S
    BY <2>1, <2>3
  <2> QED
    BY <2>4 DEF S
<1> HIDE DEF p
<1>8. (n - 2) \div 2 \in Nat /\ (n - 2) \div 3 \in Nat
  BY <1>4
<1>9. /\ DepthFor[Length(p[1])] <= DepthFor[n - 2]
      /\ DepthFor[Length(p[2])] <= DepthFor[(n - 2) \div 2]
      /\ DepthFor[Length(p[3])] <= DepthFor[(n - 2) \div 3]
  BY <1>4, <1>6, <1>8, DepthGrows, SMTT(20)
<1>10. /\ DepthFor[n] >= 2 + DepthFor[(n - 2) \div 3]
       /\ DepthFor[n] >= 1 + DepthFor[(n - 2) \div 2]
       /\ DepthFor[n] >= DepthFor[n - 2]
  BY <1>4, DepthFacts
<1>11. /\ DepthFor[Length(p[1])] \in Nat /\ DepthFor[Length(p[2])] \in Nat
       /\ DepthFor[Length(p[3])] \in Nat /\ DepthFor[n] \in Nat
       /\ DepthFor[n - 2] \in Nat
       /\ DepthFor[(n - 2) \div 2] \in Nat /\ DepthFor[(n - 2) \div 3] \in Nat
  <2>1. \A i \in Nat : DepthFor[i] \in Nat
    BY DepthFacts
  <2>2. Length(p[1]) \in Nat /\ Length(p[2]) \in Nat /\ Length(p[3]) \in Nat
    BY <1>6
  <2> QED
    BY <1>4, <1>8, <2>1, <2>2
<1> HIDE DEF n, s
<1>12. /\ s + DepthFor[Length(p[1])] <= D
       /\ s + 1 + DepthFor[Length(p[2])] <= D
       /\ s + 2 + DepthFor[Length(p[3])] <= D
  BY <1>3, <1>4, <1>9, <1>10, <1>11
<1>13. /\ Len(stack') = s + 3
       /\ \A k \in 1 .. s + 3 : stack'[k] = IF k <= s THEN stack[k] ELSE p[k - s]
  <2>1. /\ Len(stack \o p) = Len(stack) + Len(p)
        /\ \A k \in 1 .. Len(stack) + Len(p) :
             (stack \o p)[k] = IF k <= Len(stack) THEN stack[k] ELSE p[k - Len(stack)]
    BY <1>2, <1>7, ConcatProperties, ZenonT(30)
  <2> QED
    BY <1>1, <1>6, <2>1 DEF s
<1>14. ASSUME NEW k \in 1 .. s + 3
       PROVE  Length(stack'[k]) \in Nat /\ k - 1 + DepthFor[Length(stack'[k])] <= D
  <2>1. CASE k <= s
    <3>1. k \in 1 .. Len(stack) /\ stack'[k] = stack[k]
      BY <1>4, <1>13, <2>1 DEF s
    <3> QED
      BY <3>1 DEF StackInv
  <2>2. CASE k > s
    <3>1. stack'[k] = p[k - s] /\ (k = s + 1 \/ k = s + 2 \/ k = s + 3)
      BY <1>4, <1>13, <2>2
    <3>2. \/ k - 1 = s /\ stack'[k] = p[1]
          \/ k - 1 = s + 1 /\ stack'[k] = p[2]
          \/ k - 1 = s + 2 /\ stack'[k] = p[3]
      BY <1>4, <3>1
    <3>3. Length(p[1]) \in Nat /\ Length(p[2]) \in Nat /\ Length(p[3]) \in Nat
      BY <1>6
    <3> QED
      BY <1>12, <3>2, <3>3
  <2> QED
    BY <1>4, <2>1, <2>2
<1> QED
  BY <1>1, <1>13, <1>14 DEF StackInv

\* No turn of the sort makes the stack deeper than DepthFor says.
THEOREM TurnKeepsDepth ==
  ASSUME SortInv, StackInv, cnt' = cnt, SortStep
  PROVE  StackInv'
BY PopDepth, TurnDepth, SplitDepth DEF SortStep, SortInv

\* The whole vector is the first range.
LEMMA StartDepth ==
  ASSUME cnt \in Nat, cnt' = cnt, pc = "pop", StartSort
  PROVE  StackInv'
<1>1. /\ Len(stack') = 1 /\ stack'[1] = << 0, cnt - 1 >> /\ pc' = "pop"
  BY DEF StartSort
<1>2. Length(<< 0, cnt - 1 >>) = cnt
  BY DEF Length
<1>3. DepthFor[cnt] \in Nat
  BY DepthFacts
<1>4. \A k \in 1 .. Len(stack') : k = 1
  BY <1>1
<1> QED
  BY <1>1, <1>2, <1>3, <1>4 DEF StackInv

\* The stack stays within DepthFor.
LEMMA StackFits ==
  ASSUME StackInv, cnt \in Nat, Len(stack) \in Nat
  PROVE  StackIsShallow
<1>1. DepthFor[cnt] \in Nat \ {0}
  BY DepthFacts
<1>2. CASE Len(stack) = 0
  BY <1>1, <1>2 DEF StackIsShallow
<1>3. CASE Len(stack) # 0
  <2>1. Len(stack) \in 1 .. Len(stack)
    BY <1>3
  <2>2. /\ Length(stack[Len(stack)]) \in Nat
        /\ Len(stack) - 1 + DepthFor[Length(stack[Len(stack)])] <= DepthFor[cnt]
    BY <2>1 DEF StackInv
  <2>3. DepthFor[Length(stack[Len(stack)])] \in Nat \ {0}
    BY <2>2, DepthFacts
  <2> QED
    BY <1>1, <2>2, <2>3 DEF StackIsShallow
<1> QED
  BY <1>2, <1>3

\* A stack for q elements, or for half of them.
DepthWithin(q, d) ==
  \A n \in Nat : /\ n <= q => DepthFor[n] <= 2 * d + 1
                 /\ 2 * n <= q => DepthFor[n] <= 2 * d

\* Three times the elements take two more places.
LEMMA DepthThird ==
  ASSUME NEW q \in Nat, NEW d \in Nat \ {0}, DepthWithin(q, d)
  PROVE  DepthWithin(3 * q, d + 1)
<1> DEFINE Good(n) == /\ n <= 3 * q => DepthFor[n] <= 2 * d + 3
                      /\ 2 * n <= 3 * q => DepthFor[n] <= 2 * d + 2
           T == {n \in Nat : ~ Good(n)}
<1>1. ASSUME T # {}
      PROVE  FALSE
  <2>1. PICK n \in T : \A y \in T : n <= y
    <3>1. T \subseteq Nat
      OBVIOUS
    <3> HIDE DEF T
    <3> QED
      BY <1>1, <3>1, LeastNatural
  <2>2. n \in Nat /\ ~ Good(n)
    OBVIOUS
  <2>3. \A m \in Nat : m < n => Good(m)
    BY <2>1, <2>2
  <2>4. n > Small + 1
    <3>1. n <= Small + 1 => DepthFor[n] = 1
      BY <2>2, DepthFacts
    <3> QED
      BY <2>2, <3>1
  <2> DEFINE a == (n - 2) \div 3
             b == (n - 2) \div 2
             c == n - 2
  <2>5. a \in Nat /\ b \in Nat /\ c \in Nat /\ b < n /\ c < n /\ c >= 0
    BY <2>2, <2>4, PartsAreShorter
  <2>6. DepthFor[n] \in {3, 2 + DepthFor[a], 1 + DepthFor[b], DepthFor[c]}
    BY <2>2, <2>4, DepthFacts
  <2>7. 3 * a <= n - 2 /\ 2 * b <= n - 2
    BY <2>2, <2>4
  <2> HIDE DEF T, a, b
  <2>8. DepthFor[a] \in Nat /\ DepthFor[b] \in Nat /\ DepthFor[c] \in Nat
    BY <2>5, DepthFacts
  <2>9. CASE n <= 3 * q /\ ~ (DepthFor[n] <= 2 * d + 3)
    <3>1. a <= q /\ 2 * b <= 3 * q /\ c <= 3 * q
      BY <2>2, <2>5, <2>7, <2>9
    <3>2. DepthFor[a] <= 2 * d + 1
      BY <2>5, <3>1 DEF DepthWithin
    <3>3. DepthFor[b] <= 2 * d + 2 /\ DepthFor[c] <= 2 * d + 3
      BY <2>3, <2>5, <3>1
    <3> QED
      BY <2>6, <2>8, <2>9, <3>2, <3>3
  <2>10. CASE 2 * n <= 3 * q /\ ~ (DepthFor[n] <= 2 * d + 2)
    <3>1. 2 * a <= q /\ b <= q /\ 2 * c <= 3 * q
      BY <2>2, <2>5, <2>7, <2>10
    <3>2. DepthFor[a] <= 2 * d /\ DepthFor[b] <= 2 * d + 1
      BY <2>5, <3>1 DEF DepthWithin
    <3>3. DepthFor[c] <= 2 * d + 2
      BY <2>3, <2>5, <3>1
    <3> QED
      BY <2>6, <2>8, <2>10, <3>2, <3>3
  <2> QED
    BY <2>2, <2>9, <2>10
<1>2. \A n \in Nat : Good(n)
  BY <1>1
<1>3. 2 * (d + 1) + 1 = 2 * d + 3 /\ 2 * (d + 1) = 2 * d + 2
  OBVIOUS
<1> HIDE DEF T
<1> QED
  BY <1>2, <1>3 DEF DepthWithin

\* 27 times the elements take six more places.
LEMMA Depth27 ==
  ASSUME NEW q \in Nat, NEW d \in Nat \ {0}, DepthWithin(q, d)
  PROVE  DepthWithin(27 * q, d + 3)
<1>1. DepthWithin(3 * q, d + 1)
  BY DepthThird
<1>2. DepthWithin(3 * (3 * q), d + 1 + 1)
  BY <1>1, DepthThird
<1>3. DepthWithin(3 * (3 * (3 * q)), d + 1 + 1 + 1)
  BY <1>2, DepthThird
<1>4. 3 * (3 * (3 * q)) = 27 * q /\ d + 1 + 1 + 1 = d + 3
  OBVIOUS
<1> QED
  BY <1>3, <1>4

\* One or two elements: one range, and three for three.
LEMMA DepthStart == DepthWithin(3, 1)
<1> SUFFICES ASSUME NEW n \in Nat
             PROVE  (n <= 3 => DepthFor[n] <= 3) /\ (2 * n <= 3 => DepthFor[n] <= 2)
  BY DEF DepthWithin
<1>1. n <= Small + 1 => DepthFor[n] = 1
  BY DepthFacts
<1>2. ASSUME n = 3, n > Small + 1
      PROVE  DepthFor[n] <= 3
  <2>1. (n - 2) \div 3 = 0 /\ (n - 2) \div 2 = 0 /\ n - 2 = 1
    BY <1>2
  <2>2. DepthFor[n] \in {3, 2 + DepthFor[0], 1 + DepthFor[0], DepthFor[1]}
    BY <1>2, <2>1, DepthFacts
  <2>3. DepthFor[0] = 1 /\ DepthFor[1] = 1
    BY DepthFacts
  <2> QED
    BY <2>2, <2>3
<1> QED
  BY <1>1, <1>2

\* int32_t stack[128][2] holds the ranges of any vector whose count fits in
\* 32 bits (utl_vec.c:404 asks for 2^31): a third of it would do.
LEMMA StackIsEnough ==
  ASSUME NEW n \in Nat, n < 4294967296
  PROVE  DepthFor[n] <= 43
<1>1. DepthWithin(81, 4)
  BY DepthStart, Depth27
<1>2. DepthWithin(2187, 7)
  BY <1>1, Depth27
<1>3. DepthWithin(59049, 10)
  BY <1>2, Depth27
<1>4. DepthWithin(1594323, 13)
  BY <1>3, Depth27
<1>5. DepthWithin(43046721, 16)
  BY <1>4, Depth27
<1>6. DepthWithin(1162261467, 19)
  BY <1>5, Depth27
<1>7. DepthWithin(3486784401, 20)
  BY <1>6, DepthThird
<1>8. DepthWithin(10460353203, 21)
  BY <1>7, DepthThird
<1> QED
  BY <1>8 DEF DepthWithin
-----------------------------------------------------------------------------

USE RankAssumption, SizeAssumption, NoneAssumption, SmallAssumption

-----------------------------------------------------------------------------
(* Growing the storage *)

\* A turn of the growth makes the size larger.
LEMMA NewMaxFacts ==
  ASSUME NEW m \in Nat
  PROVE  NewMax(m) \in Nat /\ (m >= 1 => NewMax(m) > m) /\ (m = 0 => NewMax(m) = 0)
BY DEF NewMax

GrowTurn(f, n, s) == IF s > n THEN s ELSE f[NewMax(s)]

\* The loop of utl_vec_makeroom ends: a function satisfies its equation.
LEMMA GrowExists ==
  ASSUME NEW n \in Nat
  PROVE  \E f : f = [s \in Nat |-> GrowTurn(f, n, s)]
<1> DEFINE Ok(f, k) == \A s \in Nat : s >= k => f[s] = GrowTurn(f, n, s)
           T == {k \in Nat : \E f : f = [s \in Nat |-> f[s]] /\ Ok(f, k)}
<1>1. n + 1 \in T
  <2> DEFINE f == [s \in Nat |-> s]
  <2>1. Ok(f, n + 1)
    BY DEF GrowTurn
  <2>2. f = [s \in Nat |-> f[s]]
    OBVIOUS
  <2> HIDE DEF f
  <2> QED
    BY <2>1, <2>2
<1>2. PICK k \in T : \A y \in T : k <= y
  <2>1. T \subseteq Nat /\ T # {}
    BY <1>1
  <2> HIDE DEF T
  <2> QED
    BY <2>1, LeastNatural
<1>3. k \in Nat
  OBVIOUS
<1>4. PICK f : f = [s \in Nat |-> f[s]] /\ Ok(f, k)
  OBVIOUS
<1>5. CASE k = 0
  <2>1. \A s \in Nat : f[s] = GrowTurn(f, n, s)
    BY <1>4, <1>5
  <2> QED
    BY <1>4, <2>1
<1>6. CASE k # 0
  <2> DEFINE j == k - 1
             g == [s \in Nat |-> IF s = j THEN GrowTurn(f, n, s) ELSE f[s]]
  <2>1. j \in Nat /\ ~ (k <= j)
    BY <1>3, <1>6
  <2>2. g = [s \in Nat |-> g[s]]
    OBVIOUS
  <2>3. \A s \in Nat : g[s] = IF s = j THEN GrowTurn(f, n, s) ELSE f[s]
    OBVIOUS
  <2> HIDE DEF g
  <2>4. Ok(g, j)
    <3> SUFFICES ASSUME NEW s \in Nat, s >= j
                 PROVE  g[s] = GrowTurn(g, n, s)
      OBVIOUS
    <3>1. CASE s >= 1
      <4>1. NewMax(s) \in Nat /\ NewMax(s) # j
        BY <2>1, <3>1, NewMaxFacts
      <4>2. g[NewMax(s)] = f[NewMax(s)]
        BY <2>3, <4>1
      <4>3. s # j => s >= k
        BY <1>3, <2>1
      <4>4. g[s] = GrowTurn(f, n, s)
        BY <1>4, <2>3, <4>3
      <4> QED
        BY <4>2, <4>4 DEF GrowTurn
    <3>2. CASE s = 0
      <4>1. j = 0 /\ ~ (s > n) /\ NewMax(s) = 0
        BY <2>1, <3>2, NewMaxFacts
      <4>2. g[0] = f[0] /\ GrowTurn(g, n, s) = g[0]
        BY <2>3, <3>2, <4>1 DEF GrowTurn
      <4> QED
        BY <3>2, <4>2
    <3> QED
      BY <3>1, <3>2
  <2>5. j \in T
    BY <2>1, <2>2, <2>4
  <2> QED
    BY <1>2, <2>1, <2>5
<1> QED
  BY <1>5, <1>6

(* The loop ends with a size that is large enough.                         *)
LEMMA GrownFits ==
  ASSUME NEW m \in Nat, m >= 1, NEW n \in Nat
  PROVE  Grown(m, n) \in Nat /\ Grown(m, n) > n /\ Grown(m, n) >= m
<1> DEFINE grow == CHOOSE f : f = [s \in Nat |-> GrowTurn(f, n, s)]
           Good(s) == grow[s] \in Nat /\ grow[s] > n /\ grow[s] >= s
           T == {d \in Nat : \E s \in Nat : s >= 1 /\ s + d = n + 1 /\ ~ Good(s)}
<1>1. Grown(m, n) = grow[m]
  BY DEF Grown, GrowTurn
<1>2. grow = [s \in Nat |-> GrowTurn(grow, n, s)]
  BY GrowExists
<1> HIDE DEF grow
<1>3. \A s \in Nat : grow[s] = IF s > n THEN s ELSE grow[NewMax(s)]
  BY <1>2 DEF GrowTurn
<1>4. \A s \in Nat : s > n => Good(s)
  BY <1>3
<1>5. ASSUME T # {}
      PROVE  FALSE
  <2>1. PICK d \in T : \A y \in T : d <= y
    <3>1. T \subseteq Nat
      OBVIOUS
    <3> HIDE DEF T
    <3> QED
      BY <1>5, <3>1, LeastNatural
  <2>2. PICK s \in Nat : s >= 1 /\ s + d = n + 1 /\ ~ Good(s)
    OBVIOUS
  <2>3. ~ (s > n)
    BY <1>4, <2>2
  <2>4. NewMax(s) \in Nat /\ NewMax(s) > s
    BY <2>2, NewMaxFacts
  <2>5. grow[s] = grow[NewMax(s)]
    BY <1>3, <2>3
  <2>6. ~ Good(NewMax(s))
    BY <2>2, <2>4, <2>5
  <2>7. ~ (NewMax(s) > n)
    BY <1>4, <2>4, <2>6
  <2> DEFINE e == n + 1 - NewMax(s)
  <2>8. e \in Nat /\ NewMax(s) + e = n + 1 /\ NewMax(s) >= 1 /\ ~ (d <= e)
    BY <2>2, <2>4, <2>7
  <2>9. e \in T
    BY <2>4, <2>6, <2>8
  <2> QED
    BY <2>1, <2>8, <2>9
<1>6. Good(m)
  <2>1. CASE m > n
    BY <1>4, <2>1
  <2>2. CASE ~ (m > n)
    <3>1. n + 1 - m \in Nat /\ m + (n + 1 - m) = n + 1
      BY <2>2
    <3>2. n + 1 - m \notin T
      BY <1>5
    <3> QED
      BY <3>1, <3>2
  <2> QED
    BY <2>1, <2>2
<1> QED
  BY <1>1, <1>6

(* utl_vec_makeroom leaves a storage of 0 slots, or one with a slot n.     *)
LEMMA RoomFits ==
  ASSUME NEW m \in vec_MIN_ELEM .. MaxMax, NEW n \in Nat, NEW s \in Room(m, n), s # 0
  PROVE  s \in vec_MIN_ELEM .. MaxMax /\ s >= m /\ s > n
<1>1. m \in Nat /\ m >= 1
  OBVIOUS
<1>2. CASE n < m
  BY <1>2 DEF Room
<1>3. CASE ~ (n < m)
  <2>1. s = Grown(m, n) /\ s <= MaxMax
    BY <1>3 DEF Room
  <2> QED
    BY <1>1, <2>1, GrownFits
<1> QED
  BY <1>2, <1>3

-----------------------------------------------------------------------------
(* The binary search *)

\* What the search needs of the vector.
Searched == cnt \in Nat /\ cmp \in Cmps /\ \A i \in 0 .. cnt - 1 : vec[i] \in Elems

\* cmp answers with a number.
LEMMA OrderIsInt ==
  ASSUME Searched, NEW e \in Elems, NEW i \in 0 .. cnt - 1
  PROVE  Order(e, i) \in Int
<1>1. Rank[cmp] \in [Elems -> Int] /\ vec[i] \in Elems
  BY DEF Searched
<1> QED
  BY <1>1 DEF Order

\* The middle of a range that is not empty is in it.
LEMMA MidIsInside ==
  ASSUME NEW a \in Int, NEW b \in Int, a <= b
  PROVE  a + ((b - a) \div 2) \in a .. b
OBVIOUS

(* A turn leaves a smaller range, and with a sorted vector throws away     *)
(* only elements that are below or above the one searched.                 *)
Around(e, r) ==
  /\ r \in Ranges
  /\ Ordered => /\ \A i \in 0 .. r.lo - 1 : Order(e, i) > 0
                /\ \A i \in r.hi + 1 .. cnt - 1 : Order(e, i) < 0

\* A turn of the search makes the range smaller, and throws away only
\* what is below or above e.
LEMMA HalvedFacts ==
  ASSUME Searched, NEW e \in Elems, NEW r \in Ranges, ~ Over(e, r)
  PROVE  /\ Halved(e, r) \in Ranges
         /\ Halved(e, r).hi - Halved(e, r).lo < r.hi - r.lo
         /\ Around(e, r) => Around(e, Halved(e, r))
<1> DEFINE h == Halved(e, r)
           m == Mid(r)
<1>1. cnt \in Nat /\ r.lo \in 0 .. cnt /\ r.hi \in -1 .. cnt - 1 /\ r.lo <= r.hi /\ Order(e, m) # 0
  BY DEF Searched, Ranges, Over
<1>2. m \in r.lo .. r.hi
  BY <1>1, MidIsInside DEF Mid
<1>3. m \in 0 .. cnt - 1
  BY <1>1, <1>2
<1>4. Order(e, m) \in Int
  BY <1>3, OrderIsInt
<1>5. Ordered => /\ Order(e, m) < 0 => \A i \in m .. cnt - 1 : Order(e, i) < 0
                 /\ Order(e, m) > 0 => \A i \in 0 .. m : Order(e, i) > 0
  <2> SUFFICES ASSUME Ordered
               PROVE  /\ Order(e, m) < 0 => \A i \in m .. cnt - 1 : Order(e, i) < 0
                      /\ Order(e, m) > 0 => \A i \in 0 .. m : Order(e, i) > 0
    OBVIOUS
  <2> HIDE DEF m
  <2>1. \A i \in 0 .. cnt - 1 : Rank[cmp][e] \in Int /\ Rank[cmp][vec[i]] \in Int
    BY DEF Searched
  <2>2. ASSUME NEW i \in 0 .. cnt - 1, NEW j \in 0 .. cnt - 1, i <= j
        PROVE  Order(e, j) <= Order(e, i)
    <3>1. CASE i = j
      BY <2>1, <3>1 DEF Order
    <3>2. CASE i < j
      BY <2>1, <3>2 DEF Ordered, Above, Order
    <3> QED
      BY <2>2, <3>1, <3>2
  <2>3. \A i \in 0 .. cnt - 1 : Order(e, i) \in Int
    BY OrderIsInt
  <2>4. ASSUME Order(e, m) < 0, NEW i \in m .. cnt - 1
        PROVE  Order(e, i) < 0
    <3>1. i \in 0 .. cnt - 1 /\ m <= i
      BY <1>1, <1>3
    <3> QED
      BY <1>3, <2>2, <2>3, <2>4, <3>1
  <2>5. ASSUME Order(e, m) > 0, NEW i \in 0 .. m
        PROVE  Order(e, i) > 0
    <3>1. i \in 0 .. cnt - 1 /\ i <= m
      BY <1>1, <1>3
    <3> QED
      BY <1>3, <2>2, <2>3, <2>5, <3>1
  <2> QED
    BY <2>4, <2>5
<1> HIDE DEF m
<1>6. CASE Order(e, m) < 0
  <2>1. h = [r EXCEPT !.hi = m - 1]
    BY <1>6 DEF Halved, m
  <2>2. h \in Ranges /\ h.lo = r.lo /\ h.hi = m - 1
    <3>1. m - 1 \in -1 .. cnt - 1
      BY <1>1, <1>3
    <3> QED
      BY <2>1, <3>1 DEF Ranges
  <2> HIDE DEF h
  <2>3. h.hi - h.lo < r.hi - r.lo
    BY <1>1, <1>2, <2>2
  <2>4. m - 1 + 1 = m
    BY <1>2
  <2>5. Around(e, r) => Around(e, h)
    BY <1>5, <1>6, <2>2, <2>4 DEF Around
  <2> QED
    BY <2>2, <2>3, <2>5 DEF h
<1>7. CASE ~ (Order(e, m) < 0)
  <2>1. h = [r EXCEPT !.lo = m + 1] /\ Order(e, m) > 0
    BY <1>1, <1>4, <1>7 DEF Halved, m
  <2>2. h \in Ranges /\ h.hi = r.hi /\ h.lo = m + 1
    <3>1. m + 1 \in 0 .. cnt
      BY <1>1, <1>3
    <3> QED
      BY <2>1, <3>1 DEF Ranges
  <2> HIDE DEF h
  <2>3. h.hi - h.lo < r.hi - r.lo
    BY <1>1, <1>2, <2>2
  <2>4. (\A i \in 0 .. h.lo - 1 : i \in 0 .. m) /\ h.hi + 1 = r.hi + 1
    BY <1>2, <2>2
  <2>5. Ordered => \A i \in 0 .. h.lo - 1 : Order(e, i) > 0
    BY <1>5, <2>1, <2>4
  <2>6. Around(e, r) => Around(e, h)
    BY <2>2, <2>4, <2>5 DEF Around
  <2> QED
    BY <2>2, <2>3, <2>6 DEF h
<1> QED
  BY <1>6, <1>7

SearchTurn(f, e, r) == IF Over(e, r) THEN r ELSE f[Halved(e, r)]

\* The loop of the search ends: a function satisfies its equation.
LEMMA SearchExists ==
  ASSUME Searched, NEW e \in Elems
  PROVE  \E f : f = [r \in Ranges |-> SearchTurn(f, e, r)]
<1> DEFINE Size(r) == r.hi - r.lo
           Ok(f, k) == \A r \in Ranges : Size(r) < k => f[r] = SearchTurn(f, e, r)
           Some(k) == \E f : f = [r \in Ranges |-> f[r]] /\ Ok(f, k)
           T == {k \in Nat : ~ Some(k)}
<1>1. cnt \in Nat /\ \A r \in Ranges : Size(r) \in Int /\ Size(r) < cnt
  BY DEF Searched, Ranges
<1>2. Some(0)
  <2> DEFINE f == [r \in Ranges |-> r]
  <2>1. ASSUME NEW r \in Ranges, Size(r) < 0
        PROVE  f[r] = SearchTurn(f, e, r)
    <3>1. r.lo \in Int /\ r.hi \in Int
      BY <1>1 DEF Ranges
    <3>2. Over(e, r)
      BY <2>1, <3>1 DEF Over
    <3> QED
      BY <3>2 DEF SearchTurn
  <2>2. f = [r \in Ranges |-> f[r]]
    OBVIOUS
  <2> HIDE DEF f
  <2> QED
    BY <2>1, <2>2
<1>3. ASSUME NEW k \in Nat, Some(k)
      PROVE  Some(k + 1)
  <2>1. PICK f : f = [r \in Ranges |-> f[r]] /\ Ok(f, k)
    BY <1>3
  <2> DEFINE g == [r \in Ranges |-> IF Size(r) = k THEN SearchTurn(f, e, r) ELSE f[r]]
  <2>2. g = [r \in Ranges |-> g[r]]
    OBVIOUS
  <2>3. \A r \in Ranges : g[r] = IF Size(r) = k THEN SearchTurn(f, e, r) ELSE f[r]
    OBVIOUS
  <2> HIDE DEF g
  <2>4. ASSUME NEW r \in Ranges, Size(r) < k + 1
        PROVE  g[r] = SearchTurn(g, e, r)
    <3>1. g[r] = SearchTurn(f, e, r)
      <4>1. CASE Size(r) = k
        BY <2>3, <4>1
      <4>2. CASE Size(r) # k
        <5>1. Size(r) < k
          BY <1>1, <2>4, <4>2
        <5> QED
          BY <2>1, <2>3, <4>2, <5>1
      <4> QED
        BY <4>1, <4>2
    <3>2. CASE Over(e, r)
      BY <3>1, <3>2 DEF SearchTurn
    <3>3. CASE ~ Over(e, r)
      <4>1. Halved(e, r) \in Ranges /\ Size(Halved(e, r)) < Size(r)
        BY <3>3, HalvedFacts
      <4>2. Size(Halved(e, r)) # k
        BY <1>1, <2>4, <4>1
      <4>3. g[Halved(e, r)] = f[Halved(e, r)]
        BY <2>3, <4>1, <4>2
      <4> QED
        BY <3>1, <3>3, <4>3 DEF SearchTurn
    <3> QED
      BY <3>2, <3>3
  <2>5. Ok(g, k + 1)
    BY <2>4
  <2> QED
    BY <2>2, <2>5
<1> HIDE DEF Some
<1>4. Some(cnt)
  <2>1. ASSUME T # {}
        PROVE  FALSE
    <3>1. PICK k \in T : \A y \in T : k <= y
      <4>1. T \subseteq Nat
        OBVIOUS
      <4> HIDE DEF T
      <4> QED
        BY <2>1, <4>1, LeastNatural
    <3>2. k \in Nat /\ ~ Some(k)
      OBVIOUS
    <3>3. k - 1 \in Nat /\ ~ (k <= k - 1) /\ k - 1 + 1 = k
      BY <1>2, <3>2
    <3>4. Some(k - 1)
      BY <3>1, <3>3
    <3> QED
      BY <1>3, <3>2, <3>3, <3>4
  <2> QED
    BY <1>1, <2>1
<1>5. PICK f : f = [r \in Ranges |-> f[r]] /\ Ok(f, cnt)
  BY <1>4 DEF Some
<1>6. \A r \in Ranges : f[r] = SearchTurn(f, e, r)
  BY <1>1, <1>5
<1> QED
  BY <1>5, <1>6

(* The loop ends, and what it has thrown away is below or above e.         *)
LEMMA LastRangeFacts ==
  ASSUME Searched, NEW e \in Elems
  PROVE  Around(e, LastRange(e)) /\ Over(e, LastRange(e))
<1> DEFINE search == CHOOSE f : f = [r \in Ranges |-> SearchTurn(f, e, r)]
           Size(r) == r.hi - r.lo
           first == [lo |-> 0, hi |-> cnt - 1]
           Good(r) == Around(e, r) => Around(e, search[r]) /\ Over(e, search[r])
           T == {k \in Nat : \E r \in Ranges : Size(r) + 1 = k /\ ~ Good(r)}
<1>1. LastRange(e) = search[first]
  BY DEF LastRange, SearchTurn
<1>2. search = [r \in Ranges |-> SearchTurn(search, e, r)]
  BY SearchExists
<1> HIDE DEF search
<1>3. \A r \in Ranges : search[r] = IF Over(e, r) THEN r ELSE search[Halved(e, r)]
  BY <1>2 DEF SearchTurn
<1>4. cnt \in Nat /\ \A r \in Ranges : r.lo \in Int /\ r.hi \in Int /\ Size(r) \in Int
  BY DEF Searched, Ranges
<1>5. \A r \in Ranges : Over(e, r) => Good(r)
  BY <1>3
<1>6. ASSUME T # {}
      PROVE  FALSE
  <2>1. PICK k \in T : \A y \in T : k <= y
    <3>1. T \subseteq Nat
      OBVIOUS
    <3> HIDE DEF T
    <3> QED
      BY <1>6, <3>1, LeastNatural
  <2>2. PICK r \in Ranges : Size(r) + 1 = k /\ ~ Good(r)
    OBVIOUS
  <2>3. ~ Over(e, r)
    BY <1>5, <2>2
  <2> DEFINE h == Halved(e, r)
  <2>4. h \in Ranges /\ Size(h) < Size(r) /\ (Around(e, r) => Around(e, h))
    BY <2>3, HalvedFacts
  <2> HIDE DEF h
  <2>5. search[r] = search[h]
    BY <1>3, <2>3 DEF h
  <2>6. ~ Good(h)
    BY <2>2, <2>4, <2>5
  <2>7. ~ Over(e, h)
    BY <1>5, <2>4, <2>6
  <2>8. Size(h) + 1 \in Nat /\ ~ (k <= Size(h) + 1)
    BY <1>4, <2>2, <2>4, <2>7 DEF Over
  <2>9. Size(h) + 1 \in T
    BY <2>4, <2>6, <2>8
  <2> QED
    BY <2>1, <2>8, <2>9
<1>7. first \in Ranges /\ Around(e, first)
  <2>1. first \in Ranges
    BY <1>4 DEF Ranges
  <2>2. (\A i \in 0 .. first.lo - 1 : FALSE) /\ \A i \in first.hi + 1 .. cnt - 1 : FALSE
    BY <1>4
  <2> HIDE DEF first
  <2> QED
    BY <2>1, <2>2 DEF Around
<1>8. Good(first)
  <2>1. CASE Over(e, first)
    BY <1>5, <1>7, <2>1
  <2>2. CASE ~ Over(e, first)
    <3>1. Size(first) + 1 \in Nat
      BY <1>4, <1>7, <2>2 DEF Over
    <3>2. Size(first) + 1 \notin T
      BY <1>6
    <3> HIDE DEF first
    <3> QED
      BY <1>7, <3>1, <3>2
  <2> QED
    BY <2>1, <2>2
<1> QED
  BY <1>1, <1>7, <1>8

\* What the search returns: an equal element, or where to insert e.
LEMMA FindFacts ==
  ASSUME Searched, NEW e \in Elems
  PROVE  LET r == LastRange(e) IN
         IF Found(r) THEN Mid(r) \in 0 .. cnt - 1 /\ Order(e, Mid(r)) = 0
         ELSE /\ r.lo \in 0 .. cnt
              /\ Ordered => /\ \A i \in 0 .. r.lo - 1 : Order(e, i) > 0
                            /\ \A i \in r.lo .. cnt - 1 : Order(e, i) < 0
<1> DEFINE r == LastRange(e)
<1>1. Around(e, r) /\ Over(e, r)
  BY LastRangeFacts
<1> HIDE DEF r
<1>2. cnt \in Nat /\ r.lo \in 0 .. cnt /\ r.hi \in -1 .. cnt - 1
  BY <1>1 DEF Searched, Around, Ranges
<1>3. CASE Found(r)
  <2>1. Mid(r) \in r.lo .. r.hi
    BY <1>2, <1>3, MidIsInside DEF Found, Mid
  <2>2. Order(e, Mid(r)) = 0
    BY <1>1, <1>2, <1>3 DEF Over, Found
  <2>3. Mid(r) \in 0 .. cnt - 1
    BY <1>2, <2>1
  <2> QED
    BY <1>3, <2>2, <2>3 DEF r
<1>4. CASE ~ Found(r)
  <2>1. \A i \in r.lo .. cnt - 1 : i \in r.hi + 1 .. cnt - 1
    BY <1>2, <1>4 DEF Found
  <2>2. /\ r.lo \in 0 .. cnt
        /\ Ordered => /\ \A i \in 0 .. r.lo - 1 : Order(e, i) > 0
                      /\ \A i \in r.lo .. cnt - 1 : Order(e, i) < 0
    BY <1>1, <1>2, <2>1 DEF Around
  <2> QED
    BY <1>4, <2>2 DEF r
<1> QED
  BY <1>3, <1>4

-----------------------------------------------------------------------------
(* The inductive invariant *)

Inv ==
  /\ TypeOK
  /\ left \in Int /\ right \in Int /\ L \in Int /\ K \in Int /\ G \in Int
  /\ Idle => stack = <<>> /\ pc = "pop"
  /\ ~ Idle => cmp \in Cmps /\ SortInv
  /\ srt => cmp \in Cmps /\ Ordered
  /\ Sorting => ~ srt

\* A vector with a comparison function can be searched.
LEMMA CanSearch ==
  ASSUME TypeOK, cmp \in Cmps
  PROVE  Searched
<1>1. cnt \in Nat /\ max \in Nat /\ cnt <= max /\ vec \in [0 .. max - 1 -> Elems]
  BY DEF TypeOK
<1>2. \A i \in 0 .. cnt - 1 : i \in 0 .. max - 1
  BY <1>1
<1> QED
  BY <1>1, <1>2 DEF Searched

(* A call that takes one step, while nothing is sorted.                    *)
LEMMA OneStep ==
  ASSUME Inv, ~ Sorting, NoSort, call' = None,
         cmp' \in Cmps \cup {NoCmp}, max' \in vec_MIN_ELEM .. MaxMax, cnt' \in 0 .. max',
         vec' \in [0 .. max' - 1 -> Elems], ret' \in 0 .. max' - 1 \cup {None},
         srt' \in BOOLEAN, srt' => cmp' \in Cmps /\ Ordered'
  PROVE  Inv'
<1>1. stack = <<>> /\ pc = "pop" /\ stack' = stack /\ pc' = pc
      /\ left' = left /\ right' = right /\ L' = L /\ K' = K /\ G' = G
  BY DEF Sorting, NoSort
<1>2. \A k \in 1 .. Len(stack') :
        stack'[k][1] \in 0 .. cnt' + 1 /\ stack'[k][2] \in -2 .. cnt' - 1
  <2>1. Len(stack') = 0
    BY <1>1
  <2> QED
    BY <2>1
<1>3. TypeOK'
  BY <1>1, <1>2 DEF TypeOK
<1>4. ~ Sorting'
  BY <1>1 DEF Sorting
<1> QED
  BY <1>1, <1>3, <1>4 DEF Inv, Idle

(* What is left in order stays in order when some of it is dropped.        *)
LEMMA StillOrdered ==
  ASSUME Ordered, cmp' = cmp, vec' = vec, cnt \in Int, cnt' \in Int, cnt' <= cnt
  PROVE  Ordered'
<1>1. \A i \in 0 .. cnt' - 1 : i \in 0 .. cnt - 1
  <2> DEFINE m == cnt'
             n == cnt
  <2>1. m \in Int /\ n \in Int /\ m <= n
    OBVIOUS
  <2> HIDE DEF m, n
  <2>2. \A i \in 0 .. m - 1 : i \in 0 .. n - 1
    BY <2>1
  <2> QED
    BY <2>2 DEF m, n
<1>2. \A i, j \in 0 .. cnt' - 1 :
        i < j => ~ (Rank[cmp'][vec'[i]] > Rank[cmp'][vec'[j]])
  BY <1>1 DEF Ordered, Above
<1> QED
  BY <1>2 DEF Ordered, Above

\* A larger storage keeps its type, whatever realloc leaves in it.
LEMMA ResizedFacts ==
  ASSUME TypeOK, NEW m \in Nat, m >= max, NEW g \in Elems
  PROVE  Resized(m, g) \in [0 .. m - 1 -> Elems]
<1>1. max \in Nat /\ vec \in [0 .. max - 1 -> Elems]
  BY DEF TypeOK
<1>2. \A i \in 0 .. m - 1 : i < max => i \in 0 .. max - 1
  BY <1>1
<1> QED
  BY <1>1, <1>2 DEF Resized

\* What realloc leaves is taken from the elements.
LEMMA GarbageFacts ==
  ASSUME NEW m, NEW g \in Garbage(m)
  PROVE  g \in Elems
BY DEF Garbage

\* vecset, also beyond the end, and when a growth fails.
LEMMA SetStep ==
  ASSUME Inv, NEW i \in Nat, NEW e \in Elems, Set(i, e)
  PROVE  Inv'
<1>1. TypeOK /\ ~ Sorting
  BY DEF Inv, Set, Idle, Sorting
<1>2. NoSort /\ cmp' = cmp /\ call' = None /\ ret' = None
  BY DEF Set, Idle
<1>3. max \in vec_MIN_ELEM .. MaxMax /\ cnt \in 0 .. max /\ cmp \in Cmps \cup {NoCmp}
      /\ vec \in [0 .. max - 1 -> Elems] /\ srt \in BOOLEAN
  BY <1>1 DEF TypeOK
<1>4. PICK m \in Room(max, i) : \E g \in Garbage(m) :
        IF m = 0 THEN UNCHANGED << vec, cnt, max, srt >>
        ELSE /\ vec' = [Resized(m, g) EXCEPT ![i] = e]
             /\ max' = m /\ cnt' = Larger(cnt, i + 1) /\ srt' = FALSE
  BY DEF Set, SetAt
<1>5. PICK g \in Garbage(m) :
        IF m = 0 THEN UNCHANGED << vec, cnt, max, srt >>
        ELSE /\ vec' = [Resized(m, g) EXCEPT ![i] = e]
             /\ max' = m /\ cnt' = Larger(cnt, i + 1) /\ srt' = FALSE
  BY <1>4
<1>6. CASE m = 0
  <2>1. vec' = vec /\ cnt' = cnt /\ max' = max /\ srt' = srt
    BY <1>6, <1>5
  <2>2. srt' => cmp' \in Cmps /\ Ordered'
    BY <1>2, <1>3, <2>1, StillOrdered DEF Inv
  <2> QED
    BY <1>1, <1>2, <1>3, <2>1, <2>2, OneStep
<1>7. CASE m # 0
  <2>1. m \in vec_MIN_ELEM .. MaxMax /\ m >= max /\ m > i
    BY <1>3, <1>7, RoomFits
  <2>2. vec' = [Resized(m, g) EXCEPT ![i] = e] /\ max' = m /\ cnt' = Larger(cnt, i + 1) /\ ~ srt'
        /\ srt' \in BOOLEAN
    BY <1>7, <1>5
  <2>3. Resized(m, g) \in [0 .. m - 1 -> Elems]
    BY <1>1, <2>1, GarbageFacts, ResizedFacts
  <2>4. vec' \in [0 .. max' - 1 -> Elems]
    BY <2>2, <2>3
  <2>5. cnt' \in 0 .. max'
    BY <1>3, <2>1, <2>2 DEF Larger
  <2>6. max' \in vec_MIN_ELEM .. MaxMax /\ cmp' \in Cmps \cup {NoCmp} /\ ret' \in 0 .. max' - 1 \cup {None}
    BY <1>2, <1>3, <2>1, <2>2
  <2> QED
    BY <1>1, <1>2, <2>2, <2>4, <2>5, <2>6, OneStep
<1> QED
  BY <1>6, <1>7

\* vecalloc.
LEMMA AllocStep ==
  ASSUME Inv, NEW i \in Nat, Alloc(i)
  PROVE  Inv'
<1>1. TypeOK /\ ~ Sorting
  BY DEF Inv, Alloc, Idle, Sorting
<1>2. NoSort /\ cmp' = cmp /\ call' = None /\ ret' = None
  BY DEF Alloc, Idle
<1>3. max \in vec_MIN_ELEM .. MaxMax /\ cnt \in 0 .. max /\ cmp \in Cmps \cup {NoCmp}
      /\ vec \in [0 .. max - 1 -> Elems] /\ srt \in BOOLEAN
  BY <1>1 DEF TypeOK
<1>4. PICK m \in Room(max, i) : \E g \in Garbage(m) :
        IF m = 0 THEN UNCHANGED << vec, cnt, max, srt >>
        ELSE /\ vec' = Resized(m, g)
             /\ max' = m /\ cnt' = Larger(cnt, i + 1) /\ srt' = FALSE
  BY DEF Alloc
<1>5. PICK g \in Garbage(m) :
        IF m = 0 THEN UNCHANGED << vec, cnt, max, srt >>
        ELSE /\ vec' = Resized(m, g)
             /\ max' = m /\ cnt' = Larger(cnt, i + 1) /\ srt' = FALSE
  BY <1>4
<1>6. CASE m = 0
  <2>1. vec' = vec /\ cnt' = cnt /\ max' = max /\ srt' = srt
    BY <1>6, <1>5
  <2>2. srt' => cmp' \in Cmps /\ Ordered'
    BY <1>2, <1>3, <2>1, StillOrdered DEF Inv
  <2> QED
    BY <1>1, <1>2, <1>3, <2>1, <2>2, OneStep
<1>7. CASE m # 0
  <2>1. m \in vec_MIN_ELEM .. MaxMax /\ m >= max /\ m > i
    BY <1>3, <1>7, RoomFits
  <2>2. vec' = Resized(m, g) /\ max' = m /\ cnt' = Larger(cnt, i + 1) /\ ~ srt' /\ srt' \in BOOLEAN
    BY <1>7, <1>5
  <2>3. vec' \in [0 .. max' - 1 -> Elems]
    BY <1>1, <2>1, <2>2, GarbageFacts, ResizedFacts
  <2>4. cnt' \in 0 .. max'
    BY <1>3, <2>1, <2>2 DEF Larger
  <2>5. max' \in vec_MIN_ELEM .. MaxMax /\ cmp' \in Cmps \cup {NoCmp} /\ ret' \in 0 .. max' - 1 \cup {None}
    BY <1>2, <1>3, <2>1, <2>2
  <2> QED
    BY <1>1, <1>2, <2>2, <2>3, <2>4, <2>5, OneStep
<1> QED
  BY <1>6, <1>7

\* utl_vec_makegap shifts up the elements from i on by one.
LEMMA GapFacts ==
  ASSUME NEW n \in Nat, NEW f \in [0 .. n - 1 -> Elems], NEW i \in Nat, cnt \in Nat
  PROVE  /\ Gap(f, i) \in [0 .. n - 1 -> Elems]
         /\ \A k \in 0 .. n - 1 : Gap(f, i)[k] = IF k > i /\ k <= cnt THEN f[k - 1] ELSE f[k]
<1>1. DOMAIN f = 0 .. n - 1
  OBVIOUS
<1>2. \A k \in 0 .. n - 1 : k > i => k - 1 \in 0 .. n - 1
  OBVIOUS
<1> QED
  BY <1>1, <1>2 DEF Gap

(* An insertion: what it writes is inside the storage it has, whichever of *)
(* its two growths fails.                                                  *)
LEMMA InsFacts ==
  ASSUME TypeOK, NEW i \in Nat, NEW e \in Elems, InsAt(i, e)
  PROVE  /\ srt' = FALSE /\ max' \in vec_MIN_ELEM .. MaxMax /\ max' >= max
         /\ vec' \in [0 .. max' - 1 -> Elems] /\ cnt' \in 0 .. max'
         /\ ret' \in 0 .. max' - 1 \cup {None}
         /\ ret' # None /\ i <= cnt =>
              /\ cnt' = cnt + 1 /\ vec'[i] = e
              /\ \A k \in 0 .. i - 1 : vec'[k] = vec[k]
              /\ \A k \in i + 1 .. cnt : vec'[k] = vec[k - 1]
         /\ ret' # None /\ i >= cnt =>
              cnt' = i + 1 /\ \A k \in 0 .. cnt - 1 : vec'[k] = vec[k]
         /\ ret' = None => cnt' = cnt /\ \A k \in 0 .. cnt - 1 : vec'[k] = vec[k]
<1>1. max \in vec_MIN_ELEM .. MaxMax /\ cnt \in 0 .. max /\ max \in Nat /\ cnt \in Nat
      /\ vec \in [0 .. max - 1 -> Elems]
  BY DEF TypeOK
<1>2. srt' = FALSE
  BY DEF InsAt
<1>3. PICK m \in Room(max, cnt + 1) :
       IF m = 0 THEN UNCHANGED << vec, cnt, max >> /\ ret' = None
       ELSE \E n \in Room(m, i) :
              IF n = 0
              THEN /\ \E g \in Garbage(m) : vec' = Resized(m, g)
                   /\ max' = m /\ ret' = None /\ UNCHANGED cnt
              ELSE /\ \E g \in Garbage(n) : vec' = [Gap(Resized(n, g), i) EXCEPT ![i] = e]
                   /\ cnt' = IF i < cnt THEN cnt + 1 ELSE i + 1
                   /\ max' = n /\ ret' = i
  BY DEF InsAt
<1>4. CASE m = 0
  <2>1. vec' = vec /\ cnt' = cnt /\ max' = max /\ ret' = None
    BY <1>3, <1>4
  <2> QED
    BY <1>1, <1>2, <2>1
<1>5. CASE m # 0
  <2>1. m \in vec_MIN_ELEM .. MaxMax /\ m >= max /\ m > cnt + 1 /\ m \in Nat
    <3>1. cnt + 1 \in Nat
      BY <1>1
    <3> QED
      BY <1>1, <1>5, <3>1, RoomFits
  <2>2. PICK n \in Room(m, i) :
          IF n = 0
          THEN /\ \E g \in Garbage(m) : vec' = Resized(m, g)
               /\ max' = m /\ ret' = None /\ UNCHANGED cnt
          ELSE /\ \E g \in Garbage(n) : vec' = [Gap(Resized(n, g), i) EXCEPT ![i] = e]
               /\ cnt' = IF i < cnt THEN cnt + 1 ELSE i + 1
               /\ max' = n /\ ret' = i
    BY <1>3, <1>5
  <2>3. CASE n = 0
    <3>1. PICK g \in Garbage(m) : vec' = Resized(m, g)
      BY <2>2, <2>3
    <3>2. max' = m /\ ret' = None /\ cnt' = cnt
      BY <2>2, <2>3
    <3>3. vec' \in [0 .. m - 1 -> Elems]
      BY <2>1, <3>1, GarbageFacts, ResizedFacts
    <3>4. cnt' \in 0 .. max'
      BY <1>1, <2>1, <3>2
    <3>5. ASSUME NEW k \in 0 .. cnt - 1
          PROVE  vec'[k] = vec[k]
      <4>1. k \in 0 .. m - 1 /\ k < max
        BY <1>1, <2>1
      <4> QED
        BY <3>1, <4>1 DEF Resized
    <3> QED
      BY <1>2, <2>1, <3>2, <3>3, <3>4, <3>5
  <2>4. CASE n # 0
    <3>1. PICK g \in Garbage(n) : vec' = [Gap(Resized(n, g), i) EXCEPT ![i] = e]
      BY <2>2, <2>4
    <3>2. max' = n /\ ret' = i /\ cnt' = IF i < cnt THEN cnt + 1 ELSE i + 1
      BY <2>2, <2>4
    <3>3. n \in vec_MIN_ELEM .. MaxMax /\ n >= m /\ n > i /\ n \in Nat /\ n >= max
      BY <1>1, <2>1, <2>4, RoomFits
    <3> DEFINE f == Resized(n, g)
               h == Gap(f, i)
    <3>4. vec' = [h EXCEPT ![i] = e]
      BY <3>1, Zenon
    <3>5. f \in [0 .. n - 1 -> Elems] /\ \A k \in 0 .. max - 1 : f[k] = vec[k]
      <4>1. f \in [0 .. n - 1 -> Elems]
        BY <1>1, <3>3, GarbageFacts, ResizedFacts
      <4>2. \A k \in 0 .. max - 1 : k \in 0 .. n - 1 /\ k < max
        BY <1>1, <3>3
      <4> QED
        BY <4>1, <4>2 DEF Resized
    <3> HIDE DEF f
    <3>6. h \in [0 .. n - 1 -> Elems]
          /\ \A k \in 0 .. n - 1 : h[k] = IF k > i /\ k <= cnt THEN f[k - 1] ELSE f[k]
      <4>1. f \in [0 .. n - 1 -> Elems] /\ n \in Nat /\ cnt \in Nat
        BY <1>1, <3>3, <3>5
      <4> QED
        BY <4>1, GapFacts
    <3> HIDE DEF h
    <3>7. i \in 0 .. n - 1
      BY <3>3
    <3>8. vec' \in [0 .. n - 1 -> Elems] /\ vec'[i] = e /\ \A k \in 0 .. n - 1 : k # i => vec'[k] = h[k]
      BY <3>6, <3>4, <3>7
    <3>9. cnt' \in 0 .. max'
      BY <1>1, <2>1, <3>2, <3>3
    <3>10. ASSUME i <= cnt
          PROVE  /\ cnt' = cnt + 1
                 /\ \A k \in 0 .. i - 1 : vec'[k] = vec[k]
                 /\ \A k \in i + 1 .. cnt : vec'[k] = vec[k - 1]
      <4>1. cnt' = cnt + 1
        BY <1>1, <3>2, <3>10
      <4>2. ASSUME NEW k \in 0 .. i - 1
            PROVE  vec'[k] = vec[k]
        <5>1. k \in 0 .. n - 1 /\ k # i /\ ~ (k > i) /\ k \in 0 .. max - 1
          BY <1>1, <3>3, <3>10
        <5> QED
          BY <3>5, <3>6, <3>8, <5>1
      <4>3. ASSUME NEW k \in i + 1 .. cnt
            PROVE  vec'[k] = vec[k - 1]
        <5>1. k \in 0 .. n - 1 /\ k # i /\ k > i /\ k <= cnt /\ k - 1 \in 0 .. max - 1
          BY <1>1, <2>1, <3>3, <3>10
        <5> QED
          BY <3>5, <3>6, <3>8, <5>1
      <4> QED
        BY <4>1, <4>2, <4>3
    <3>11. ASSUME i >= cnt
          PROVE  cnt' = i + 1 /\ \A k \in 0 .. cnt - 1 : vec'[k] = vec[k]
      <4>1. cnt' = i + 1
        BY <1>1, <3>2, <3>11
      <4>2. ASSUME NEW k \in 0 .. cnt - 1
            PROVE  vec'[k] = vec[k]
        <5>1. k \in 0 .. n - 1 /\ k # i /\ ~ (k > i) /\ k \in 0 .. max - 1
          BY <1>1, <3>3, <3>11
        <5> QED
          BY <3>5, <3>6, <3>8, <5>1
      <4> QED
        BY <4>1, <4>2
    <3>12. ret' # None
      BY <3>2 DEF SizeAssumption
    <3> QED
      BY <1>2, <3>2, <3>3, <3>7, <3>8, <3>9, <3>10, <3>11, <3>12
  <2> QED
    BY <2>3, <2>4
<1> QED
  BY <1>4, <1>5

\* vecins, which clears the flag also when it fails.
LEMMA InsStep ==
  ASSUME Inv, NEW i \in Nat, NEW e \in Elems, Ins(i, e)
  PROVE  Inv'
<1>1. TypeOK /\ ~ Sorting /\ NoSort /\ cmp' = cmp /\ call' = None /\ InsAt(i, e)
  BY DEF Inv, Ins, Idle, Sorting
<1>2. cmp' \in Cmps \cup {NoCmp}
  BY <1>1 DEF TypeOK
<1> QED
  BY <1>1, <1>2, InsFacts, OneStep

(* A deletion: the elements after the range take its place, in the order   *)
(* they had.                                                               *)
LEMMA DelFacts ==
  ASSUME TypeOK, NEW i \in Nat, NEW j \in Nat, i <= j, DelRangeAt(i, j)
  PROVE  /\ vec' \in [0 .. max - 1 -> Elems] /\ cnt' \in 0 .. cnt
         /\ Ordered /\ cmp' = cmp => Ordered'
<1>1. max \in Nat /\ cnt \in Nat /\ cnt <= max /\ vec \in [0 .. max - 1 -> Elems]
      /\ DOMAIN vec = 0 .. max - 1
  BY DEF TypeOK
<1>2. CASE i < cnt /\ j + 1 < cnt
  <2> DEFINE n == j - i + 1
             from(k) == IF k >= i THEN k + n ELSE k
  <2>1. vec' = Closed(i, n) /\ cnt' = cnt - n
    BY <1>1, <1>2 DEF DelRangeAt
  <2>2. n \in Nat /\ n >= 1 /\ n < cnt
    BY <1>1, <1>2
  <2> HIDE DEF n
  <2>3. \A k \in 0 .. max - 1 : vec'[k] = IF k >= i /\ k < cnt - n THEN vec[k + n] ELSE vec[k]
    BY <1>1, <2>1 DEF Closed
  <2>4. \A k \in 0 .. max - 1 : k >= i /\ k < cnt - n => k + n \in 0 .. max - 1
    BY <1>1, <2>2
  <2>5. vec' \in [0 .. max - 1 -> Elems]
    BY <1>1, <2>1, <2>4 DEF Closed
  <2>6. cnt' \in 0 .. cnt
    BY <1>1, <2>1, <2>2
  <2>7. \A k \in 0 .. cnt' - 1 : vec'[k] = vec[from(k)] /\ from(k) \in 0 .. cnt - 1
    <3> TAKE k \in 0 .. cnt' - 1
    <3>1. k \in 0 .. max - 1 /\ k < cnt - n
      BY <1>1, <2>1, <2>2
    <3>2. from(k) \in 0 .. cnt - 1
      BY <1>1, <2>2, <3>1
    <3> QED
      BY <2>3, <3>1, <3>2
  <2>8. \A a, b \in 0 .. cnt' - 1 : a < b => from(a) < from(b)
    BY <2>2
  <2>9. ASSUME Ordered, cmp' = cmp
        PROVE  Ordered'
    <3> HIDE DEF from
    <3>1. \A a, b \in 0 .. cnt' - 1 :
            a < b => ~ (Rank[cmp'][vec'[a]] > Rank[cmp'][vec'[b]])
      <4> TAKE a, b \in 0 .. cnt' - 1
      <4> HAVE a < b
      <4>1. from(a) \in 0 .. cnt - 1 /\ from(b) \in 0 .. cnt - 1 /\ from(a) < from(b)
        BY <2>7, <2>8
      <4>2. ~ (Rank[cmp][vec[from(a)]] > Rank[cmp][vec[from(b)]])
        BY <2>9, <4>1 DEF Ordered, Above
      <4> QED
        BY <2>7, <2>9, <4>2
    <3> QED
      BY <3>1 DEF Ordered, Above
  <2> QED
    BY <2>5, <2>6, <2>9
<1>3. CASE ~ (i < cnt /\ j + 1 < cnt)
  <2>1. vec' = vec /\ cnt' \in 0 .. cnt
    BY <1>1, <1>3 DEF DelRangeAt
  <2>2. cnt' \in Int /\ cnt' <= cnt
    BY <1>1, <2>1
  <2>3. Ordered /\ cmp' = cmp => Ordered'
    BY <1>1, <2>1, <2>2, StillOrdered
  <2> QED
    BY <1>1, <2>1, <2>3
<1> QED
  BY <1>2, <1>3

\* vecdel and vecdelrange keep what is left in order.
LEMMA DelRangeStep ==
  ASSUME Inv, NEW i \in Nat, NEW j \in Nat, DelRange(i, j)
  PROVE  Inv'
<1>1. TypeOK /\ ~ Sorting /\ NoSort /\ call' = None /\ i <= j /\ DelRangeAt(i, j)
      /\ cmp' = cmp /\ max' = max /\ srt' = srt /\ ret' = None
  BY DEF Inv, DelRange, Idle, Sorting
<1>2. max \in vec_MIN_ELEM .. MaxMax /\ cnt \in 0 .. max /\ cmp \in Cmps \cup {NoCmp} /\ srt \in BOOLEAN
  BY <1>1 DEF TypeOK
<1>3. /\ vec' \in [0 .. max - 1 -> Elems] /\ cnt' \in 0 .. cnt
      /\ Ordered /\ cmp' = cmp => Ordered'
  BY <1>1, DelFacts
<1>4. srt' => cmp' \in Cmps /\ Ordered'
  BY <1>1, <1>3 DEF Inv
<1>5. cnt' \in 0 .. max'
  BY <1>1, <1>2, <1>3
<1> QED
  BY <1>1, <1>2, <1>3, <1>4, <1>5, OneStep

\* vecdrop keeps what is left in order.
LEMMA DropStep ==
  ASSUME Inv, NEW n \in Nat, Drop(n)
  PROVE  Inv'
<1>1. TypeOK /\ ~ Sorting /\ NoSort /\ call' = None
      /\ vec' = vec /\ cmp' = cmp /\ max' = max /\ srt' = srt /\ ret' = None
      /\ cnt' = IF cnt > n THEN cnt - n ELSE 0
  BY DEF Inv, Drop, Idle, Sorting
<1>2. max \in vec_MIN_ELEM .. MaxMax /\ cnt \in 0 .. max /\ cmp \in Cmps \cup {NoCmp} /\ srt \in BOOLEAN
      /\ vec \in [0 .. max - 1 -> Elems]
  BY <1>1 DEF TypeOK
<1>3. cnt \in Int /\ cnt' \in Int /\ cnt' <= cnt /\ cnt' \in 0 .. max'
  BY <1>1, <1>2
<1>4. srt' => cmp' \in Cmps /\ Ordered'
  BY <1>1, <1>3, StillOrdered DEF Inv
<1> QED
  BY <1>1, <1>2, <1>3, <1>4, OneStep

\* A sort without a comparison function clears the flag.
LEMMA DropCmpStep ==
  ASSUME Inv, DropCmp
  PROVE  Inv'
<1>1. TypeOK /\ ~ Sorting /\ NoSort /\ call' = None
      /\ vec' = vec /\ cmp' = NoCmp /\ max' = max /\ srt' = FALSE /\ ret' = None /\ cnt' = cnt
  BY DEF Inv, DropCmp, Idle, Sorting
<1>2. max \in vec_MIN_ELEM .. MaxMax /\ cnt \in 0 .. max /\ vec \in [0 .. max - 1 -> Elems]
  BY <1>1 DEF TypeOK
<1> QED
  BY <1>1, <1>2, OneStep

-----------------------------------------------------------------------------
(* Calls that sort first *)

\* The elements of a vector are in its storage.
LEMMA VecDomain ==
  ASSUME TypeOK
  PROVE  /\ vec \in [DOMAIN vec -> Elems] /\ DOMAIN vec = 0 .. max - 1
         /\ 0 .. cnt - 1 \subseteq DOMAIN vec /\ DOMAIN vec \subseteq Int
<1>1. max \in Nat /\ cnt \in Nat /\ cnt <= max /\ vec \in [0 .. max - 1 -> Elems]
  BY DEF TypeOK
<1> QED
  BY <1>1

(* Nothing to sort: a sort that is over before it begins.                  *)
LEMMA NothingToSort ==
  ASSUME cnt' \in Nat, vec' \in [DOMAIN vec' -> Elems], DOMAIN vec' \subseteq Int,
         0 .. cnt' - 1 \subseteq DOMAIN vec', stack' = <<>>, pc' = "pop", cmp' \in Cmps,
         left' \in Int, right' \in Int, L' \in Int, K' \in Int, G' \in Int,
         Ordered' \/ cnt' <= 1
  PROVE  SortInv'
<1>1. Entries(stack') = {}
  <2>1. \A k \in 1 .. Len(stack') : FALSE
    OBVIOUS
  <2> QED
    BY <2>1 DEF Entries
<1>2. AllApart(stack') /\ stack' \in Seq(Int \X Int)
  BY DEF AllApart
<1>3. Open' = {}
  BY <1>1 DEF Open, Entries
<1>4. \A i, j \in 0 .. cnt' - 1 : i < j => ~ (Rank[cmp'][vec'[i]] > Rank[cmp'][vec'[j]])
  BY SMTT(30) DEF Ordered, Above
<1>5. InPlace(Rank[cmp'], vec', cnt', Open')
  BY <1>4 DEF InPlace
<1>6. SortTypes'
  BY <1>1, <1>2 DEF SortTypes
<1>7. RangesApart' /\ AtWork'
  BY <1>2 DEF RangesApart, AtWork
<1> QED
  BY <1>5, <1>6, <1>7 DEF SortInv

\* A call that sorts first: the sort starts, or has nothing to do.
LEMMA EnterStep ==
  ASSUME Inv, NEW c \in Running, Enter(c), cmp' \in Cmps, srt' \in BOOLEAN,
         srt' => cmp' = cmp /\ srt
  PROVE  Inv'
<1>1. /\ TypeOK /\ stack = <<>> /\ pc = "pop"
      /\ left \in Int /\ right \in Int /\ L \in Int /\ K \in Int /\ G \in Int
      /\ call' = c /\ ret' = None /\ vec' = vec /\ cnt' = cnt /\ max' = max
  BY DEF Inv, Enter, Idle
<1>2. max \in vec_MIN_ELEM .. MaxMax /\ cnt \in 0 .. max /\ cnt \in Nat /\ max \in Nat
      /\ vec \in [0 .. max - 1 -> Elems]
  BY <1>1 DEF TypeOK
<1>3. ~ Idle'
  BY <1>1 DEF Idle
<1>4. srt' => Ordered'
  BY <1>1, <1>2, StillOrdered DEF Inv
<1>5. CASE srt' \/ cnt <= 1
  <2>1. stack' = <<>> /\ pc' = "pop" /\ left' = left /\ right' = right /\ L' = L /\ K' = K /\ G' = G
    BY <1>1, <1>5 DEF Enter, NoSort
  <2>2. \A k \in 1 .. Len(stack') :
          stack'[k][1] \in 0 .. cnt' + 1 /\ stack'[k][2] \in -2 .. cnt' - 1
    <3>1. Len(stack') = 0
      BY <2>1
    <3> QED
      BY <3>1
  <2>3. TypeOK'
    BY <1>1, <1>2, <2>1, <2>2 DEF TypeOK
  <2>4. SortInv'
    <3>1. cnt' <= 1 \/ Ordered'
      BY <1>1, <1>4, <1>5
    <3>2. cnt' \in Nat /\ vec' \in [DOMAIN vec' -> Elems] /\ DOMAIN vec' \subseteq Int
          /\ 0 .. cnt' - 1 \subseteq DOMAIN vec'
      BY <1>1, <1>2, VecDomain
    <3> QED
      BY <1>1, <2>1, <3>1, <3>2, NothingToSort
  <2>5. ~ Sorting'
    BY <2>1 DEF Sorting
  <2> QED
    BY <1>1, <1>3, <1>4, <2>1, <2>3, <2>4, <2>5 DEF Inv
<1>6. CASE ~ (srt' \/ cnt <= 1)
  <2>1. StartSort
    BY <1>6 DEF Enter
  <2>2. SortInv'
    BY <1>1, <1>2, <2>1, VecDomain, SortStarts
  <2>3. stack' = << << 0, cnt - 1 >> >> /\ pc' = "pop"
        /\ left' = left /\ right' = right /\ L' = L /\ K' = K /\ G' = G
    BY <1>1, <2>1 DEF StartSort
  <2>4. \A k \in 1 .. Len(stack') :
          stack'[k][1] \in 0 .. cnt' + 1 /\ stack'[k][2] \in -2 .. cnt' - 1
    <3>1. stack' \in Seq(Int \X Int)
          /\ \A rng \in Entries(stack') : rng[1] \in 0 .. cnt' + 1 /\ rng[2] \in -2 .. cnt' - 1
      BY <2>2 DEF SortInv, SortTypes
    <3> QED
      BY <3>1 DEF Entries
  <2>5. TypeOK'
    BY <1>1, <1>2, <2>3, <2>4 DEF TypeOK
  <2> QED
    BY <1>1, <1>3, <1>6, <2>2, <2>3, <2>5 DEF Inv
<1> QED
  BY <1>5, <1>6

\* A turn of the sort keeps the invariant of the vector.
LEMMA SortTurnStep ==
  ASSUME Inv, SortTurn
  PROVE  Inv'
<1>1. /\ TypeOK /\ SortInv /\ cmp \in Cmps /\ SortStep /\ ~ Idle
      /\ cnt' = cnt /\ cmp' = cmp /\ max' = max /\ srt' = srt /\ call' = call /\ ret' = ret
  BY DEF Inv, SortTurn
<1>2. SortInv' /\ DOMAIN vec' = DOMAIN vec
  BY <1>1, TurnKeepsOrder
<1>3. ~ srt
  <2>1. Sorting
    BY <1>1 DEF SortStep, Pop, Insert, Part, Split, Sorting
  <2> QED
    BY <2>1 DEF Inv
<1>4. vec' \in [0 .. max - 1 -> Elems]
  BY <1>1, <1>2, VecDomain DEF SortInv, SortTypes
<1>5. \A k \in 1 .. Len(stack') :
        stack'[k][1] \in 0 .. cnt' + 1 /\ stack'[k][2] \in -2 .. cnt' - 1
  <2>1. stack' \in Seq(Int \X Int)
        /\ \A rng \in Entries(stack') : rng[1] \in 0 .. cnt' + 1 /\ rng[2] \in -2 .. cnt' - 1
    BY <1>2 DEF SortInv, SortTypes
  <2> QED
    BY <2>1 DEF Entries
<1>6. /\ pc' \in {"pop", "insert", "part"}
      /\ pc' # "pop" => /\ 0 <= left' /\ left' < right' /\ right' < cnt'
                        /\ K' \in left' + 1 .. right'
      /\ pc' = "part" => /\ left' < L' /\ L' <= K' /\ K' <= G' + 2
                         /\ L' - 1 <= G' /\ G' < right'
      /\ left' \in Int /\ right' \in Int /\ L' \in Int /\ K' \in Int /\ G' \in Int
  BY <1>2 DEF SortInv, SortTypes, AtWork, Parted
<1>7. TypeOK'
  BY <1>1, <1>4, <1>5, <1>6 DEF TypeOK
<1>8. ~ Idle'
  BY <1>1 DEF Idle
<1> QED
  BY <1>1, <1>2, <1>3, <1>6, <1>7, <1>8 DEF Inv

(* A call whose sort is over finds the vector in order.                    *)
LEMMA SortedNow ==
  ASSUME Inv, ~ Idle, ~ Sorting
  PROVE  Ordered /\ cmp \in Cmps /\ TypeOK /\ Searched
BY SortEnds, CanSearch DEF Inv, Ordered

\* Overwriting an element by an equal one keeps the order.
LEMMA SameRankOrdered ==
  ASSUME Searched, Ordered, NEW e \in Elems, NEW p \in 0 .. cnt - 1, Order(e, p) = 0,
         vec' = [vec EXCEPT ![p] = e], cnt' = cnt, cmp' = cmp, p \in DOMAIN vec
  PROVE  Ordered'
<1>1. Rank[cmp][e] \in Int /\ \A i \in 0 .. cnt - 1 : Rank[cmp][vec[i]] \in Int
  BY DEF Searched
<1>2. Rank[cmp][e] = Rank[cmp][vec[p]]
  <2>1. \A a, b \in Int : a - b = 0 => a = b
    OBVIOUS
  <2>2. Rank[cmp][e] - Rank[cmp][vec[p]] = 0
    BY DEF Order
  <2> QED
    BY <1>1, <2>1, <2>2
<1>3. \A i \in 0 .. cnt - 1 : vec'[i] = vec[i] \/ (i = p /\ vec'[i] = e)
  OBVIOUS
<1>4. \A i \in 0 .. cnt - 1 : Rank[cmp'][vec'[i]] = Rank[cmp][vec[i]]
  BY <1>2, <1>3
<1>5. \A a, b \in 0 .. cnt' - 1 : a < b => ~ (Rank[cmp'][vec'[a]] > Rank[cmp'][vec'[b]])
  BY <1>4 DEF Ordered, Above
<1> QED
  BY <1>5 DEF Ordered, Above

\* The rest of a call, when its sort is over.
LEMMA ReturnStep ==
  ASSUME Inv, Return
  PROVE  Inv'
<1>1. ~ Idle /\ ~ Sorting /\ call' = None /\ NoSort /\ cmp' = cmp
  BY DEF Return, ReturnSort, ReturnSearch, ReturnAdd, ReturnRemove, Resume
<1>2. Ordered /\ cmp \in Cmps /\ TypeOK /\ Searched
  BY <1>1, SortedNow
<1>3. /\ max \in vec_MIN_ELEM .. MaxMax /\ cnt \in 0 .. max /\ cnt \in Nat /\ max \in Nat
      /\ vec \in [0 .. max - 1 -> Elems] /\ ret \in 0 .. max - 1 \cup {None}
  BY <1>2 DEF TypeOK
<1>4. call \in Running
  BY <1>1, <1>2 DEF TypeOK, Idle
<1>5. call.op # "sort" => call.arg \in Elems
  BY <1>4 DEF Running
<1> DEFINE r == LastRange(call.arg)
<1>6. call.op # "sort" => IF Found(r) THEN Mid(r) \in 0 .. cnt - 1 /\ Order(call.arg, Mid(r)) = 0
                          ELSE r.lo \in 0 .. cnt
  BY <1>2, <1>5, FindFacts
<1> HIDE DEF r
<1>7. vec' = vec /\ cnt' = cnt => Ordered'
  BY <1>1, <1>2, <1>3, StillOrdered
<1>8. CASE ReturnSort
  <2>1. vec' = vec /\ cnt' = cnt /\ max' = max /\ ret' = ret /\ srt' = TRUE
    BY <1>8 DEF ReturnSort
  <2> QED
    BY <1>1, <1>2, <1>3, <1>7, <2>1, OneStep
<1>9. CASE ReturnSearch
  <2>1. /\ vec' = vec /\ cnt' = cnt /\ max' = max /\ srt' = TRUE /\ call.op = "search"
        /\ ret' = IF Found(r) THEN Mid(r) ELSE None
    BY <1>9 DEF ReturnSearch, Resume, r
  <2>2. ret' \in 0 .. max' - 1 \cup {None}
    BY <1>3, <1>6, <2>1
  <2> QED
    BY <1>1, <1>2, <1>3, <1>7, <2>1, <2>2, OneStep
<1>10. CASE ReturnAdd
  <2>1. /\ call.op = "add"
        /\ IF Found(r) THEN /\ vec' = [vec EXCEPT ![Mid(r)] = call.arg]
                            /\ srt' = TRUE /\ ret' = Mid(r) /\ UNCHANGED << cnt, max >>
           ELSE InsAt(r.lo, call.arg)
    BY <1>10 DEF ReturnAdd, Resume, r
  <2>2. CASE Found(r)
    <3>1. /\ vec' = [vec EXCEPT ![Mid(r)] = call.arg] /\ srt' = TRUE /\ ret' = Mid(r)
          /\ cnt' = cnt /\ max' = max
      BY <2>1, <2>2
    <3>2. Mid(r) \in 0 .. cnt - 1 /\ Order(call.arg, Mid(r)) = 0 /\ Mid(r) \in 0 .. max - 1
      BY <1>3, <1>6, <2>1, <2>2
    <3>3. vec' \in [0 .. max' - 1 -> Elems]
      BY <1>3, <1>5, <2>1, <3>1, <3>2
    <3>4. Ordered'
      BY <1>1, <1>2, <1>3, <1>5, <2>1, <3>1, <3>2, SameRankOrdered
    <3> QED
      BY <1>1, <1>2, <1>3, <3>1, <3>2, <3>3, <3>4, OneStep
  <2>3. CASE ~ Found(r)
    <3>1. r.lo \in Nat /\ InsAt(r.lo, call.arg) /\ call.arg \in Elems
      BY <1>3, <1>5, <1>6, <2>1, <2>3
    <3> QED
      BY <1>1, <1>2, <3>1, InsFacts, OneStep
  <2> QED
    BY <2>2, <2>3
<1>11. CASE ReturnRemove
  <2>1. /\ call.op = "remove" /\ max' = max /\ srt' = TRUE
        /\ IF Found(r) THEN DelRangeAt(Mid(r), Mid(r)) /\ ret' = Mid(r)
           ELSE UNCHANGED << vec, cnt, ret >>
    BY <1>11 DEF ReturnRemove, Resume, r
  <2>2. CASE Found(r)
    <3>1. DelRangeAt(Mid(r), Mid(r)) /\ ret' = Mid(r)
      BY <2>1, <2>2
    <3>2. Mid(r) \in 0 .. cnt - 1
      BY <1>6, <2>1, <2>2
    <3>3. Mid(r) \in Nat /\ Mid(r) <= Mid(r) /\ Mid(r) \in 0 .. max - 1
      BY <1>3, <3>2
    <3>4. /\ vec' \in [0 .. max - 1 -> Elems] /\ cnt' \in 0 .. cnt
          /\ Ordered /\ cmp' = cmp => Ordered'
      BY <1>2, <3>1, <3>3, DelFacts
    <3>5. cnt' \in 0 .. max' /\ Ordered'
      BY <1>1, <1>2, <1>3, <2>1, <3>4
    <3> QED
      BY <1>1, <1>2, <1>3, <2>1, <3>1, <3>3, <3>4, <3>5, OneStep
  <2>3. CASE ~ Found(r)
    <3>1. vec' = vec /\ cnt' = cnt /\ ret' = ret
      BY <2>1, <2>3
    <3> QED
      BY <1>1, <1>2, <1>3, <1>7, <2>1, <3>1, OneStep
  <2> QED
    BY <2>2, <2>3
<1> QED
  BY <1>8, <1>9, <1>10, <1>11 DEF Return

-----------------------------------------------------------------------------
(* Theorems *)

\* A new vector.
LEMMA InitInv == Init => Inv
<1> SUFFICES ASSUME Init
             PROVE  Inv
  OBVIOUS
<1>1. /\ vec = [i \in 0 .. vec_MIN_ELEM - 1 |-> Fill] /\ cnt = 0 /\ max = vec_MIN_ELEM
      /\ cmp \in Cmps \cup {NoCmp} /\ srt = FALSE
      /\ stack = <<>> /\ pc = "pop" /\ left = 0 /\ right = 0 /\ L = 0 /\ K = 0 /\ G = 0
      /\ call = None /\ ret = None
  BY DEF Init
<1>2. vec \in [0 .. max - 1 -> Elems] /\ max \in vec_MIN_ELEM .. MaxMax /\ cnt \in 0 .. max
  BY <1>1
<1>3. \A k \in 1 .. Len(stack) :
        stack[k][1] \in 0 .. cnt + 1 /\ stack[k][2] \in -2 .. cnt - 1
  <2>1. Len(stack) = 0
    BY <1>1
  <2> QED
    BY <2>1
<1>4. TypeOK
  BY <1>1, <1>2, <1>3 DEF TypeOK
<1> QED
  BY <1>1, <1>4 DEF Inv, Idle, Sorting

\* The induction, one case for each call.
LEMMA NextInv == Inv /\ [Next]_vars => Inv'
<1> SUFFICES ASSUME Inv, [Next]_vars
             PROVE  Inv'
  OBVIOUS
<1>1. TypeOK /\ cnt \in Nat
  BY DEF Inv, TypeOK
<1>2. ASSUME NEW i \in 0 .. cnt + Hole, NEW e \in Elems, Set(i, e) \/ Ins(i, e)
      PROVE  Inv'
  <2>1. i \in Nat
    BY <1>1
  <2> QED
    BY <1>2, <2>1, SetStep, InsStep
<1>3. ASSUME NEW i \in 0 .. cnt + Hole, Alloc(i)
      PROVE  Inv'
  <2>1. i \in Nat
    BY <1>1
  <2> QED
    BY <1>3, <2>1, AllocStep
<1>4. ASSUME NEW n \in 1 .. cnt, Drop(n)
      PROVE  Inv'
  <2>1. n \in Nat
    OBVIOUS
  <2> QED
    BY <1>4, <2>1, DropStep
<1>5. ASSUME NEW i \in 0 .. cnt, NEW j \in 0 .. cnt, DelRange(i, j)
      PROVE  Inv'
  <2>1. i \in Nat /\ j \in Nat
    OBVIOUS
  <2> QED
    BY <1>5, <2>1, DelRangeStep
<1>6. ASSUME NEW e \in Args, AddUnordered(e)
      PROVE  Inv'
  <2>1. e \in Elems
    OBVIOUS
  <2> QED
    BY <1>1, <1>6, <2>1, SetStep DEF AddUnordered
<1>7. ASSUME Sort
      PROVE  Inv'
  <2>1. [op |-> "sort", arg |-> None] \in Running
    BY DEF Running
  <2>2. cmp # NoCmp /\ cmp' = cmp /\ srt' = srt /\ Enter([op |-> "sort", arg |-> None])
    BY <1>7 DEF Sort
  <2>3. cmp' \in Cmps /\ srt' \in BOOLEAN
    BY <1>1, <2>2 DEF TypeOK
  <2> QED
    BY <2>1, <2>2, <2>3, EnterStep
<1>8. ASSUME NEW c \in Cmps, SortBy(c)
      PROVE  Inv'
  <2>1. [op |-> "sort", arg |-> None] \in Running
    BY DEF Running
  <2>2. cmp' = c /\ srt' = (srt /\ c = cmp) /\ Enter([op |-> "sort", arg |-> None])
    BY <1>8 DEF SortBy, UseCmp
  <2>3. cmp' \in Cmps /\ srt' \in BOOLEAN /\ (srt' => cmp' = cmp /\ srt)
    BY <2>2
  <2> QED
    BY <2>1, <2>2, <2>3, EnterStep
<1>9. ASSUME NEW op \in {"search", "add", "remove"}, NEW e \in Args, Lookup(op, e)
      PROVE  Inv'
  <2>1. [op |-> op, arg |-> e] \in Running
    BY DEF Running
  <2>2. cmp # NoCmp /\ cmp' = cmp /\ srt' = srt /\ Enter([op |-> op, arg |-> e])
    BY <1>9 DEF Lookup
  <2>3. cmp' \in Cmps /\ srt' \in BOOLEAN
    BY <1>1, <2>2 DEF TypeOK
  <2> QED
    BY <2>1, <2>2, <2>3, EnterStep
<1>10. ASSUME UNCHANGED vars
       PROVE  Inv'
  <2>1. UNCHANGED << vec, stack, pc, left, right, L, K, G, cnt, cmp, max, srt, call, ret >>
    BY <1>10 DEF vars, sortvars
  <2>2. TypeOK' <=> TypeOK
    BY <2>1 DEF TypeOK
  <2>3. (Idle' <=> Idle) /\ (Sorting' <=> Sorting) /\ (Ordered' <=> Ordered)
    BY <2>1 DEF Idle, Sorting, Ordered, Above
  <2>4. (SortTypes' <=> SortTypes) /\ (RangesApart' <=> RangesApart) /\ (AtWork' <=> AtWork)
    BY <2>1 DEF SortTypes, RangesApart, AtWork
  <2>5. SortInv' <=> SortInv
    BY <2>1, <2>4 DEF SortInv, Open
  <2> QED
    BY <2>1, <2>2, <2>3, <2>5 DEF Inv
<1> QED
  BY <1>2, <1>3, <1>4, <1>5, <1>6, <1>7, <1>8, <1>9, <1>10, DropCmpStep, SortTurnStep, ReturnStep
  DEF Next

\* The inductive invariant: the types, the flag, and the invariant of the sort
\* that runs, if one does.
THEOREM Invariance == Spec => []Inv
<1>1. Init => Inv
  BY InitInv
<1>2. Inv /\ [Next]_vars => Inv'
  BY NextInv
<1> QED
  BY <1>1, <1>2, PTL DEF Spec

\* Types, for every size of storage: the elements are always inside it.
THEOREM Typing == Spec => []TypeOK
<1>1. Inv => TypeOK
  BY DEF Inv
<1> QED
  BY <1>1, Invariance, PTL

\* The SORTED flag is never set on a vector that is not sorted.
THEOREM Flagged == Spec => []FlagTellsTheTruth
<1>1. Inv => FlagTellsTheTruth
  BY DEF Inv, FlagTellsTheTruth
<1> QED
  BY <1>1, Invariance, PTL

\* What the sort has put in order stays in order, whatever pivots it takes.
THEOREM InPlaceAlways == Spec => []RangesInPlace
<1>1. Inv => RangesInPlace
  <2> SUFFICES ASSUME Inv, Sorting
               PROVE  \A i, j \in 0 .. cnt - 1 :
                        i < j /\ Above(i, j) => \E rng \in Open : InRange(i, rng) /\ InRange(j, rng)
    BY DEF RangesInPlace
  <2>1. SortInv
    BY DEF Inv, Sorting
  <2> QED
    BY <2>1 DEF SortInv, InPlace, Above
<1> QED
  BY <1>1, Invariance, PTL

\* Inserting e where the search says keeps the order.
LEMMA InsertedOrdered ==
  ASSUME Searched, Ordered, NEW e \in Elems, NEW p \in 0 .. cnt,
         \A i \in 0 .. p - 1 : Order(e, i) > 0, \A i \in p .. cnt - 1 : Order(e, i) < 0,
         cmp' = cmp, cnt' = cnt + 1, vec'[p] = e,
         \A k \in 0 .. p - 1 : vec'[k] = vec[k],
         \A k \in p + 1 .. cnt : vec'[k] = vec[k - 1]
  PROVE  Ordered'
<1> DEFINE from(k) == IF k < p THEN k ELSE k - 1
<1>1. cnt \in Nat /\ Rank[cmp][e] \in Int /\ \A i \in 0 .. cnt - 1 : Rank[cmp][vec[i]] \in Int
  BY DEF Searched
<1>2. \A a, b \in Int : (a - b > 0 => b < a) /\ (a - b < 0 => a < b)
  OBVIOUS
<1>3. \A i \in 0 .. p - 1 : i \in 0 .. cnt - 1 /\ Rank[cmp][vec[i]] < Rank[cmp][e]
  <2> TAKE i \in 0 .. p - 1
  <2>1. i \in 0 .. cnt - 1
    BY <1>1
  <2>2. Rank[cmp][e] - Rank[cmp][vec[i]] > 0
    BY DEF Order
  <2> QED
    BY <1>1, <1>2, <2>1, <2>2
<1>4. \A i \in p .. cnt - 1 : i \in 0 .. cnt - 1 /\ Rank[cmp][e] < Rank[cmp][vec[i]]
  <2> TAKE i \in p .. cnt - 1
  <2>1. i \in 0 .. cnt - 1
    BY <1>1
  <2>2. Rank[cmp][e] - Rank[cmp][vec[i]] < 0
    BY DEF Order
  <2> QED
    BY <1>1, <1>2, <2>1, <2>2
<1>5. ASSUME NEW a \in 0 .. cnt' - 1, NEW b \in 0 .. cnt' - 1, a < b
      PROVE  ~ (Rank[cmp'][vec'[a]] > Rank[cmp'][vec'[b]])
  <2>1. a \in 0 .. cnt /\ b \in 0 .. cnt
    BY <1>1
  <2>2. CASE a = p
    <3>1. b \in p + 1 .. cnt /\ b - 1 \in p .. cnt - 1
      BY <1>1, <1>5, <2>1, <2>2
    <3>2. vec'[a] = e /\ vec'[b] = vec[b - 1] /\ Rank[cmp][e] < Rank[cmp][vec[b - 1]]
          /\ Rank[cmp][vec[b - 1]] \in Int
      BY <1>1, <1>4, <2>2, <3>1
    <3> QED
      BY <1>1, <3>2
  <2>3. CASE b = p
    <3>1. a \in 0 .. p - 1
      BY <1>1, <1>5, <2>1, <2>3
    <3>2. vec'[b] = e /\ vec'[a] = vec[a] /\ Rank[cmp][vec[a]] < Rank[cmp][e]
          /\ Rank[cmp][vec[a]] \in Int
      BY <1>1, <1>3, <2>3, <3>1
    <3> QED
      BY <1>1, <3>2
  <2>4. CASE a # p /\ b # p
    <3>1. from(a) \in 0 .. cnt - 1 /\ from(b) \in 0 .. cnt - 1 /\ from(a) < from(b)
      BY <1>1, <1>5, <2>1, <2>4
    <3>2. vec'[a] = vec[from(a)]
      <4>1. CASE a < p
        BY <1>1, <2>1, <4>1
      <4>2. CASE p < a
        BY <1>1, <2>1, <4>2
      <4> QED
        BY <1>1, <2>1, <2>4, <4>1, <4>2
    <3>4. vec'[b] = vec[from(b)]
      <4>1. CASE b < p
        BY <1>1, <2>1, <4>1
      <4>2. CASE p < b
        BY <1>1, <2>1, <4>2
      <4> QED
        BY <1>1, <2>1, <2>4, <4>1, <4>2
    <3> HIDE DEF from
    <3>3. ~ (Rank[cmp][vec[from(a)]] > Rank[cmp][vec[from(b)]])
      BY <3>1 DEF Ordered, Above
    <3> QED
      BY <3>2, <3>4, <3>3
  <2> QED
    BY <2>2, <2>3, <2>4
<1> QED
  BY <1>5 DEF Ordered, Above

\* One step of SetCallsAreRight.
LEMMA AnswersAreRight == Inv => RightAnswer
<1> SUFFICES ASSUME Inv, ReturnSearch \/ ReturnAdd \/ ReturnRemove
             PROVE  RightAnswer
  BY DEF RightAnswer
<1> DEFINE e == call.arg
           r == LastRange(e)
<1>1. ~ Idle /\ ~ Sorting /\ cmp' = cmp /\ call.op \in {"search", "add", "remove"}
  BY DEF ReturnSearch, ReturnAdd, ReturnRemove, Resume
<1>2. Ordered /\ cmp \in Cmps /\ TypeOK /\ Searched
  BY <1>1, SortedNow
<1>3. e \in Elems
  BY <1>1, <1>2 DEF TypeOK, Idle, Running
<1>4. IF Found(r) THEN Mid(r) \in 0 .. cnt - 1 /\ Order(e, Mid(r)) = 0
      ELSE /\ r.lo \in 0 .. cnt
           /\ \A i \in 0 .. r.lo - 1 : Order(e, i) > 0
           /\ \A i \in r.lo .. cnt - 1 : Order(e, i) < 0
  BY <1>2, <1>3, FindFacts
<1>5. cnt \in Nat /\ Rank[cmp][e] \in Int /\ \A i \in 0 .. cnt - 1 : Rank[cmp][vec[i]] \in Int
  BY <1>2, <1>3 DEF Searched
<1> HIDE DEF r
<1>6. \A i \in 0 .. cnt - 1 : Order(e, i) = 0 <=> Equal(i, e)
  <2> TAKE i \in 0 .. cnt - 1
  <2>1. \A a, b \in Int : a - b = 0 <=> b = a
    OBVIOUS
  <2> QED
    BY <1>5, <2>1 DEF Order, Equal
<1>7. Found(r) => Has(e) /\ Mid(r) \in 0 .. cnt - 1 /\ Equal(Mid(r), e)
  BY <1>4, <1>6 DEF Has
<1>8. ~ Found(r) => ~ Has(e)
  <2> SUFFICES ASSUME ~ Found(r), NEW i \in 0 .. cnt - 1, Equal(i, e)
               PROVE  FALSE
    BY DEF Has
  <2>1. i \in 0 .. r.lo - 1 \/ i \in r.lo .. cnt - 1
    BY <1>4, <1>5
  <2>2. Order(e, i) = 0
    BY <1>6
  <2> QED
    BY <1>4, <2>1, <2>2
<1>9. ReturnSearch =>
        AllStay /\ IF Has(e) THEN ret' \in 0 .. cnt - 1 /\ Equal(ret', e) ELSE ret' = None
  <2> SUFFICES ASSUME ReturnSearch
               PROVE  AllStay /\ IF Has(e) THEN ret' \in 0 .. cnt - 1 /\ Equal(ret', e) ELSE ret' = None
    OBVIOUS
  <2>1. ret' = (IF Found(r) THEN Mid(r) ELSE None) /\ vec' = vec /\ cnt' = cnt
    BY DEF ReturnSearch, r
  <2> QED
    BY <1>7, <1>8, <2>1 DEF AllStay
<1>10. ReturnAdd =>
         IF Has(e) THEN \E i \in 0 .. cnt - 1 : Equal(i, e) /\ InPlaceOf(i, e)
         ELSE IF ret' = None THEN AllStay
         ELSE Ordered' /\ \E i \in 0 .. cnt : InBefore(i, e)
  <2> SUFFICES ASSUME ReturnAdd
               PROVE  IF Has(e) THEN \E i \in 0 .. cnt - 1 : Equal(i, e) /\ InPlaceOf(i, e)
                      ELSE IF ret' = None THEN AllStay
                      ELSE Ordered' /\ \E i \in 0 .. cnt : InBefore(i, e)
    OBVIOUS
  <2>1. IF Found(r) THEN cnt' = cnt /\ vec' = [vec EXCEPT ![Mid(r)] = e] ELSE InsAt(r.lo, e)
    BY DEF ReturnAdd, r
  <2>2. CASE Found(r)
    <3>1. \A k \in 0 .. cnt - 1 : k \in DOMAIN vec
      BY <1>2, <1>5 DEF TypeOK
    <3>2. InPlaceOf(Mid(r), e)
      BY <2>1, <2>2, <3>1 DEF InPlaceOf
    <3> QED
      BY <1>7, <2>2, <3>2
  <2>3. CASE ~ Found(r)
    <3>1. r.lo \in Nat /\ r.lo \in 0 .. cnt /\ r.lo <= cnt
      BY <1>4, <1>5, <2>3
    <3>2. InsAt(r.lo, e)
      BY <2>1, <2>3
    <3>3. CASE ret' = None
      <4>1. AllStay
        BY <1>2, <1>3, <3>1, <3>2, <3>3, InsFacts DEF AllStay
      <4> QED
        BY <1>8, <2>3, <3>3, <4>1
    <3>4. CASE ret' # None
      <4>1. /\ cnt' = cnt + 1 /\ vec'[r.lo] = e
            /\ \A k \in 0 .. r.lo - 1 : vec'[k] = vec[k]
            /\ \A k \in r.lo + 1 .. cnt : vec'[k] = vec[k - 1]
        BY <1>2, <1>3, <3>1, <3>2, <3>4, InsFacts
      <4>2. Ordered'
        BY <1>1, <1>2, <1>3, <1>4, <2>3, <3>1, <4>1, InsertedOrdered
      <4>3. ASSUME NEW k \in 0 .. cnt
            PROVE  vec'[k] = IF k < r.lo THEN vec[k] ELSE IF k = r.lo THEN e ELSE vec[k - 1]
        <5>1. k < r.lo => k \in 0 .. r.lo - 1
          BY <1>5, <3>1
        <5>2. ~ (k < r.lo) /\ k # r.lo => k \in r.lo + 1 .. cnt
          BY <1>5, <3>1
        <5> QED
          BY <4>1, <5>1, <5>2
      <4>4. InBefore(r.lo, e)
        BY <4>1, <4>3 DEF InBefore
      <4> QED
        BY <1>8, <2>3, <3>1, <3>4, <4>2, <4>4
    <3> QED
      BY <3>3, <3>4
  <2> QED
    BY <2>2, <2>3
<1>11. ReturnRemove =>
         IF Has(e) THEN \E i \in 0 .. cnt - 1 : Equal(i, e) /\ Gone(i) ELSE AllStay
  <2> SUFFICES ASSUME ReturnRemove
               PROVE  IF Has(e) THEN \E i \in 0 .. cnt - 1 : Equal(i, e) /\ Gone(i) ELSE AllStay
    OBVIOUS
  <2>1. IF Found(r) THEN DelRangeAt(Mid(r), Mid(r)) ELSE cnt' = cnt /\ vec' = vec
    BY DEF ReturnRemove, r
  <2>2. CASE Found(r)
    <3> DEFINE i == Mid(r)
    <3>1. i \in 0 .. cnt - 1 /\ DelRangeAt(i, i)
      BY <1>7, <2>1, <2>2
    <3> HIDE DEF i
    <3>2. cnt' = cnt - 1 /\ (i - i + 1) = 1
      BY <1>5, <3>1 DEF DelRangeAt
    <3>3. vec' = IF i + 1 < cnt THEN Closed(i, 1) ELSE vec
      BY <1>5, <3>1, <3>2 DEF DelRangeAt
    <3>4. ASSUME NEW k \in 0 .. cnt - 2
          PROVE  vec'[k] = IF k < i THEN vec[k] ELSE vec[k + 1]
      <4>1. k \in DOMAIN vec
        BY <1>2, <1>5 DEF TypeOK
      <4>2. CASE i + 1 < cnt
        <5>1. vec' = Closed(i, 1)
          BY <3>3, <4>2
        <5>2. k >= i /\ k < cnt - 1 <=> ~ (k < i)
          BY <1>5, <3>1
        <5> QED
          BY <4>1, <5>1, <5>2 DEF Closed
      <4>3. CASE ~ (i + 1 < cnt)
        BY <1>5, <3>1, <3>3, <4>3
      <4> QED
        BY <4>2, <4>3
    <3>5. Gone(i)
      BY <3>2, <3>4 DEF Gone
    <3>6. i \in 0 .. cnt - 1 /\ Equal(i, e) /\ Has(e)
      BY <1>7, <2>2 DEF i
    <3> QED
      BY <3>5, <3>6
  <2> QED
    BY <1>8, <2>1, <2>2 DEF AllStay
<1> QED
  BY <1>9, <1>10, <1>11 DEF RightAnswer

\* vecsearch, vecadd and vecremove do what a set does, for vectors of any size.
THEOREM SetCalls == Spec => SetCallsAreRight
<1>1. Inv /\ [Next]_vars => [RightAnswer]_vars
  BY AnswersAreRight
<1> QED
  BY <1>1, Invariance, PTL DEF Spec, SetCallsAreRight

-----------------------------------------------------------------------------
(* The stack of the sort *)

\* No call leaves ranges on the stack that its own sort did not push.
LEMMA NextStack == Inv /\ StackInv /\ [Next]_vars => StackInv'
<1> SUFFICES ASSUME Inv, StackInv, [Next]_vars
             PROVE  StackInv'
  OBVIOUS
<1>1. cnt \in Nat /\ (Idle => stack = <<>> /\ pc = "pop") /\ (~ Sorting => stack = <<>> /\ pc = "pop")
  BY DEF Inv, TypeOK, Sorting
<1>2. ASSUME Idle, NoSort
      PROVE  StackInv'
  BY <1>1, <1>2, NoStack DEF NoSort
<1>3. ASSUME NEW c, Enter(c)
      PROVE  StackInv'
  <2>1. Idle /\ cnt' = cnt
    BY <1>3 DEF Enter
  <2>2. CASE NoSort
    BY <1>2, <2>1, <2>2
  <2>3. CASE StartSort
    BY <1>1, <2>1, <2>3, StartDepth
  <2> QED
    BY <1>3, <2>2, <2>3 DEF Enter
<1>4. ASSUME SortTurn
      PROVE  StackInv'
  <2>1. SortInv /\ SortStep /\ cnt' = cnt
    BY <1>4 DEF SortTurn, Inv
  <2> QED
    BY <2>1, TurnKeepsDepth
<1>5. ASSUME Return
      PROVE  StackInv'
  <2>1. ~ Sorting /\ NoSort
    BY <1>5 DEF Return, ReturnSort, ReturnSearch, ReturnAdd, ReturnRemove, Resume
  <2> QED
    BY <1>1, <2>1, NoStack DEF NoSort
<1>6. ASSUME UNCHANGED vars
      PROVE  StackInv'
  BY <1>6 DEF StackInv, vars, sortvars
<1>7. ASSUME NEW i, NEW e, Set(i, e) \/ Ins(i, e)
      PROVE  StackInv'
  BY <1>2, <1>7 DEF Set, Ins
<1>8. ASSUME \/ \E i : Alloc(i)
             \/ \E n : Drop(n)
             \/ \E i, j : DelRange(i, j)
             \/ DropCmp
      PROVE  StackInv'
  BY <1>2, <1>8 DEF Alloc, Drop, DelRange, DropCmp
<1>9. ASSUME \/ \E e : AddUnordered(e)
             \/ Sort
             \/ \E c : SortBy(c)
             \/ \E op, e : Lookup(op, e)
      PROVE  StackInv'
  BY <1>3, <1>7, <1>9 DEF AddUnordered, Sort, SortBy, Lookup
<1> QED
  BY <1>4, <1>5, <1>6, <1>7, <1>8, <1>9 DEF Next

\* The stack stays within its invariant.
LEMMA StackInvariance == Spec => [](Inv /\ StackInv)
<1>1. Init => Inv /\ StackInv
  <2>1. Init => Len(stack) = 0 /\ pc = "pop"
    BY DEF Init
  <2> QED
    BY <2>1, InitInv DEF StackInv
<1>2. (Inv /\ StackInv) /\ [Next]_vars => (Inv /\ StackInv)'
  BY NextInv, NextStack
<1> QED
  BY <1>1, <1>2, PTL DEF Spec

\* The stack of the sort stays logarithmic, for every number of elements and
\* whatever pivots the random numbers give: pushing the longest part first
\* keeps it within DepthFor (utl_vec.c:404).
THEOREM ShallowStack == Spec => []StackIsShallow
<1>1. Inv /\ StackInv => StackIsShallow
  <2>1. Inv => cnt \in Nat /\ Len(stack) \in Nat
    BY DEF Inv, TypeOK, SortInv, SortTypes, Idle
  <2> QED
    BY <2>1, StackFits
<1> QED
  BY <1>1, StackInvariance, PTL

\* The array of the C function has 128 places.  "Enough for 2^31 max elements
\* in the array" (utl_vec.c:404) is right, and up to 2^32 elements no more
\* than 43 places are ever used.
THEOREM StackOf128 == Spec => [](cnt < 4294967296 => Len(stack) <= 43)
<1>1. Inv /\ StackIsShallow => (cnt < 4294967296 => Len(stack) <= 43)
  <2> SUFFICES ASSUME Inv, StackIsShallow, cnt < 4294967296
               PROVE  Len(stack) <= 43
    <3>1. Inv => Len(stack) \in Nat
      BY DEF Inv, SortInv, SortTypes, Idle
    <3> QED
      BY <3>1
  <2>1. cnt \in Nat /\ Len(stack) \in Nat
    BY DEF Inv, TypeOK, SortInv, SortTypes, Idle
  <2>2. DepthFor[cnt] <= 43 /\ DepthFor[cnt] \in Nat
    BY <2>1, StackIsEnough, DepthFacts
  <2> QED
    BY <2>1, <2>2 DEF StackIsShallow
<1> QED
  BY <1>1, Invariance, ShallowStack, PTL

-----------------------------------------------------------------------------
(* The sort keeps the elements *)

\* The first n elements of g are those of f, in some order.
SameElements(f, g, n) ==
  \E p \in Bijection(0 .. n - 1, 0 .. n - 1) : \A i \in 0 .. n - 1 : g[i] = f[p[i]]

\* A swap keeps the elements.
LEMMA SwapSame ==
  ASSUME NEW D, NEW f \in [D -> Elems], NEW n \in Nat, 0 .. n - 1 \subseteq D,
         NEW i \in 0 .. n - 1, NEW j \in 0 .. n - 1
  PROVE  SameElements(f, Swapped(f, i, j), n)
<1> DEFINE S == 0 .. n - 1
           g == Swapped(f, i, j)
           p == [k \in S |-> IF k = i THEN j ELSE IF k = j THEN i ELSE k]
<1>1. i \in S /\ j \in S /\ S \subseteq D
  OBVIOUS
<1> HIDE DEF S
<1>2. p \in Bijection(S, S)
  <2>1. p \in [S -> S] /\ \A k \in S : p[k] = IF k = i THEN j ELSE IF k = j THEN i ELSE k
    BY <1>1
  <2> HIDE DEF p
  <2>2. \A k, m \in S : p[k] = p[m] => k = m
    BY <1>1, <2>1
  <2>3. \A k \in S : p[p[k]] = k /\ p[k] \in S
    BY <1>1, <2>1
  <2>4. \A k \in S : \E m \in S : p[m] = k
    BY <2>3
  <2> QED
    BY <2>1, <2>2, <2>4, Fun_IsBij
<1>3. \A k \in S : g[k] = f[p[k]]
  <2>1. g[i] = f[j] /\ g[j] = f[i] /\ \A k \in S : k # i /\ k # j => g[k] = f[k]
    <3>1. i \in D /\ j \in D
      BY <1>1
    <3>2. /\ g[i] = f[j] /\ g[j] = f[i]
          /\ \A k \in D : k # i /\ k # j => g[k] = f[k]
      BY <3>1 DEF Swapped
    <3> QED
      BY <1>1, <3>2
  <2> QED
    BY <2>1
<1> QED
  BY <1>2, <1>3 DEF SameElements, S

\* An element that goes down past others keeps the elements.
LEMMA SlideSame ==
  ASSUME NEW D, NEW f \in [D -> Elems], NEW n \in Nat, 0 .. n - 1 \subseteq D,
         NEW k \in 0 .. n - 1, NEW q \in 0 .. k
  PROVE  SameElements(f, Slid(f, q, k), n)
<1> DEFINE S == 0 .. n - 1
           g == Slid(f, q, k)
           p == [m \in S |-> IF m = q THEN k ELSE IF m > q /\ m <= k THEN m - 1 ELSE m]
<1>1. \A m \in S : m \in D /\ m \in Int
  OBVIOUS
<1>2. p \in Bijection(S, S)
  <2>1. p \in [S -> S]
    OBVIOUS
  <2>2. \A m \in S : p[m] = IF m = q THEN k ELSE IF m > q /\ m <= k THEN m - 1 ELSE m
    OBVIOUS
  <2> HIDE DEF p
  <2>3. \A x, y \in S : p[x] = p[y] => x = y
    BY <2>2
  <2>4. ASSUME NEW x \in S
        PROVE  \E m \in S : p[m] = x
    <3> DEFINE m == IF x = k THEN q ELSE IF x >= q /\ x < k THEN x + 1 ELSE x
    <3>1. m \in S
      OBVIOUS
    <3>2. p[m] = x
      BY <2>2, <3>1
    <3> QED
      BY <3>1, <3>2
  <2> QED
    BY <2>1, <2>3, <2>4, Fun_IsBij
<1>3. \A m \in S : g[m] = f[p[m]]
  BY <1>1 DEF Slid
<1> QED
  BY <1>2, <1>3 DEF SameElements

\* No move at all keeps the elements.
LEMMA NoneSame ==
  ASSUME NEW f, NEW n \in Nat
  PROVE  SameElements(f, f, n)
<1> DEFINE S == 0 .. n - 1
           p == [k \in S |-> k]
<1>1. p \in [S -> S] /\ \A k \in S : p[k] = k
  OBVIOUS
<1> HIDE DEF S, p
<1>2. p \in Bijection(S, S)
  BY <1>1, Fun_IsBij
<1>3. \A k \in S : f[k] = f[p[k]]
  BY <1>1
<1> QED
  BY <1>2, <1>3 DEF SameElements, S

\* Two moves that keep the elements are one.
LEMMA SameTwice ==
  ASSUME NEW f, NEW g, NEW h, NEW n \in Nat, SameElements(f, g, n), SameElements(g, h, n)
  PROVE  SameElements(f, h, n)
<1> DEFINE S == 0 .. n - 1
<1>1. PICK p \in Bijection(S, S) : \A i \in S : g[i] = f[p[i]]
  BY DEF SameElements
<1>2. PICK q \in Bijection(S, S) : \A i \in S : h[i] = g[q[i]]
  BY DEF SameElements
<1> HIDE DEF S
<1> DEFINE r == [i \in S |-> p[q[i]]]
<1>3. r \in Bijection(S, S)
  BY Fun_BijTransitive
<1>4. q \in [S -> S] /\ \A i \in S : q[i] \in S
  BY Fun_BijectionProperties
<1>5. \A i \in S : h[i] = f[r[i]]
  BY <1>1, <1>2, <1>4
<1> HIDE DEF r
<1> QED
  BY <1>3, <1>5 DEF SameElements, S

\* The number of the first n elements that are e.
CopiesIn(f, n, e) == Cardinality({i \in 1 .. n : f[i - 1] = e})

\* Each element has as many copies after such a move as before.
LEMMA SameCopies ==
  ASSUME NEW f, NEW g, NEW n, n \in Nat, SameElements(f, g, n), NEW e
  PROVE  CopiesIn(g, n, e) = CopiesIn(f, n, e)
<1> DEFINE S == 0 .. n - 1
           A == {i \in 1 .. n : g[i - 1] = e}
           B == {i \in 1 .. n : f[i - 1] = e}
<1>1. PICK p \in Bijection(S, S) : \A i \in S : g[i] = f[p[i]]
  BY DEF SameElements
<1>2. /\ \A i \in A : i - 1 \in S /\ i \in Int /\ g[i - 1] = e
      /\ \A i \in B : i - 1 \in S /\ i \in Int /\ f[i - 1] = e
      /\ \A s \in S : /\ s \in Int
                      /\ g[s] = e => s + 1 \in A
                      /\ f[s] = e => s + 1 \in B
  <2>1. \A i \in 1 .. n : i - 1 \in S /\ i \in Int
    OBVIOUS
  <2>2. \A s \in S : s + 1 \in 1 .. n /\ s + 1 - 1 = s /\ s \in Int
    OBVIOUS
  <2> HIDE DEF S
  <2> QED
    BY <2>1, <2>2
<1>3. IsFiniteSet(A)
  <2>1. IsFiniteSet(1 .. n) /\ A \subseteq 1 .. n
    BY FS_Interval
  <2> HIDE DEF A
  <2> QED
    BY <2>1, FS_Subset
<1> HIDE DEF A, B, S
<1>4. /\ p \in [S -> S]
      /\ \A a, b \in S : p[a] = p[b] => a = b
      /\ \A t \in S : \E s \in S : p[s] = t
  BY Fun_BijectionProperties
<1> DEFINE h == [i \in A |-> p[i - 1] + 1]
<1>5. \A i \in A : p[i - 1] \in S /\ p[i - 1] + 1 \in B
  <2> TAKE i \in A
  <2>1. i - 1 \in S /\ g[i - 1] = e
    BY <1>2
  <2>2. p[i - 1] \in S /\ f[p[i - 1]] = e
    BY <1>1, <1>4, <2>1
  <2> QED
    BY <1>2, <2>2, Zenon
<1>6. h \in [A -> B] /\ \A i \in A : h[i] = p[i - 1] + 1
  BY <1>5
<1> HIDE DEF h
<1>7. \A a, b \in A : h[a] = h[b] => a = b
  <2> SUFFICES ASSUME NEW a \in A, NEW b \in A, h[a] = h[b]
               PROVE  a = b
    OBVIOUS
  <2>1. a - 1 \in S /\ b - 1 \in S /\ a \in Int /\ b \in Int
    BY <1>2
  <2>2. p[a - 1] \in Int /\ p[b - 1] \in Int /\ p[a - 1] + 1 = p[b - 1] + 1
    <3>1. p[a - 1] \in S /\ p[b - 1] \in S /\ p[a - 1] + 1 = p[b - 1] + 1
      BY <1>5, <1>6, Zenon
    <3> QED
      BY <1>2, <3>1, Zenon
  <2>3. p[a - 1] = p[b - 1]
    BY <2>2
  <2>4. a - 1 = b - 1
    BY <1>4, <2>1, <2>3
  <2> QED
    BY <2>1, <2>4
<1>8. \A t \in B : \E a \in A : h[a] = t
  <2> SUFFICES ASSUME NEW t \in B
               PROVE  \E a \in A : h[a] = t
    OBVIOUS
  <2>1. t - 1 \in S /\ t \in Int /\ f[t - 1] = e
    BY <1>2
  <2>2. PICK s \in S : p[s] = t - 1
    BY <1>4, <2>1
  <2>3. s \in Int /\ g[s] = e /\ s + 1 \in A
    <3>1. g[s] = e
      BY <1>1, <2>1, <2>2
    <3> QED
      BY <1>2, <3>1, Zenon
  <2>4. s + 1 - 1 = s
    BY <2>3
  <2>5. h[s + 1] = p[s] + 1
    BY <1>6, <2>3, <2>4
  <2>6. h[s + 1] = t
    BY <2>1, <2>2, <2>5
  <2> QED
    BY <2>3, <2>6
<1>9. h \in Bijection(A, B)
  BY <1>6, <1>7, <1>8, Fun_IsBij
<1>10. Cardinality(B) = Cardinality(A)
  BY <1>3, <1>9, FS_Bijection DEF ExistsBijection
<1> QED
  BY <1>10 DEF A, B, CopiesIn

\* One more swap.
LEMMA SwapMore ==
  ASSUME NEW D, NEW f, NEW n \in Nat, 0 .. n - 1 \subseteq D,
         NEW g \in [D -> Elems], SameElements(f, g, n), NEW i \in 0 .. n - 1, NEW j \in 0 .. n - 1
  PROVE  Swapped(g, i, j) \in [D -> Elems] /\ SameElements(f, Swapped(g, i, j), n)
<1>1. Swapped(g, i, j) \in [D -> Elems]
  <2>1. i \in D /\ j \in D
    OBVIOUS
  <2> QED
    BY <2>1, SwapFacts
<1>2. SameElements(g, Swapped(g, i, j), n)
  BY SwapSame
<1> QED
  BY <1>1, <1>2, SameTwice

\* Taking a range from the stack: choosing the pivots swaps elements.
LEMMA PopSame ==
  ASSUME SortTypes, Pop
  PROVE  SameElements(vec, vec', cnt)
<1>1. cnt \in Nat /\ vec \in [DOMAIN vec -> Elems] /\ 0 .. cnt - 1 \subseteq DOMAIN vec
  BY DEF SortTypes
<1>2. CASE PopSorted \/ PopShort
  <2>1. vec' = vec
    BY <1>2 DEF PopSorted, PopShort
  <2> QED
    BY <1>1, <2>1, NoneSame
<1>3. CASE PopLong
  <2> DEFINE lo == Top[1]
             hi == Top[2]
             S == 0 .. cnt - 1
  <2>1. Top \in Entries(stack) /\ Top \in Int \X Int
    <3>1. stack \in Seq(Int \X Int) /\ stack # <<>>
      BY DEF SortTypes, Pop
    <3>2. Len(stack) \in 1 .. Len(stack)
      BY <3>1
    <3> QED
      BY <3>1, <3>2 DEF Top, Entries
  <2>2. lo \in Int /\ hi \in Int /\ lo >= 0 /\ hi < cnt
    BY <1>1, <2>1, SMTT(20) DEF SortTypes
  <2>3. hi - lo > Small
    BY <1>3 DEF PopLong
  <2>4. PICK p \in lo .. hi - 1, q \in lo .. hi - 1 : vec' = WithPivots(lo, hi, p, q)
    BY <1>3 DEF PopLong
  <2> HIDE DEF lo, hi
  <2>5. p \in S /\ q \in S /\ lo \in S /\ hi \in S
    BY <1>1, <2>2, <2>3
  <2> HIDE DEF S
  <2> DEFINE u == Swapped(vec, p, lo)
             v == Swapped(u, q, hi)
             w == Swapped(v, lo, hi)
  <2>6. u \in [DOMAIN vec -> Elems] /\ SameElements(vec, u, cnt)
    <3>1. SameElements(vec, vec, cnt)
      BY <1>1, NoneSame
    <3> QED
      BY <1>1, <2>5, <3>1, SwapMore DEF S
  <2> HIDE DEF u
  <2>7. v \in [DOMAIN vec -> Elems] /\ SameElements(vec, v, cnt)
    BY <1>1, <2>5, <2>6, SwapMore DEF S
  <2> HIDE DEF v
  <2>8. SameElements(vec, w, cnt)
    BY <1>1, <2>5, <2>7, SwapMore DEF S
  <2>9. vec' = w \/ vec' = v
    BY <2>4 DEF WithPivots, w, v, u
  <2> QED
    BY <2>7, <2>8, <2>9
<1> QED
  BY <1>2, <1>3 DEF Pop

\* A turn of the insertion sort, of the partition, or the end of one.
LEMMA WorkSame ==
  ASSUME SortInv, Insert \/ Part \/ Split
  PROVE  SameElements(vec, vec', cnt)
<1> DEFINE S == 0 .. cnt - 1
<1>1. /\ cnt \in Nat /\ vec \in [DOMAIN vec -> Elems] /\ 0 .. cnt - 1 \subseteq DOMAIN vec
      /\ pc # "pop" /\ 0 <= left /\ left < right /\ right < cnt /\ K \in left + 1 .. right
      /\ left \in Int /\ right \in Int /\ L \in Int /\ K \in Int /\ G \in Int
  BY DEF SortInv, SortTypes, Insert, Part, Split
<1>2. left \in S /\ right \in S /\ K \in S
  BY <1>1
<1>3. SameElements(vec, vec, cnt)
  BY <1>1, NoneSame
<1>4. CASE Insert
  <2>1. InsertAt \in left .. K
    BY <1>4, InsertPlace DEF Insert
  <2>2. InsertAt \in 0 .. K
    BY <1>1, <2>1
  <2>3. vec' = Slid(vec, InsertAt, K)
    BY <1>4 DEF Insert, Slid
  <2> QED
    BY <1>1, <1>2, <2>2, <2>3, SlideSame
<1>5. ASSUME pc = "part"
      PROVE  L \in S /\ L - 1 \in S /\ G + 1 \in S
  <2>1. left < L /\ L <= K /\ L - 1 <= G /\ G < right
    BY <1>5 DEF SortInv, AtWork, Parted
  <2> QED
    BY <1>1, <2>1
<1>6. CASE Part
  <2>1. pc = "part" /\ K <= G
    BY <1>6 DEF Part
  <2>2. CASE PartLow
    BY <1>1, <1>2, <1>5, <2>1, <2>2, SwapSame DEF PartLow
  <2>3. CASE PartMiddle
    BY <1>3, <2>3 DEF PartMiddle
  <2>4. CASE PartHigh
    <3> DEFINE g == LastNotAbove
               v == Swapped(vec, K, g)
    <3>1. g \in K .. G
      BY <1>1, <2>1, <2>4, HighPlace DEF PartHigh
    <3>2. g \in S
      <4>1. G < right
        BY <2>1 DEF SortInv, AtWork, Parted
      <4> HIDE DEF g
      <4> QED
        BY <1>1, <3>1, <4>1
    <3>3. vec' = v \/ vec' = Swapped(v, K, L)
      BY <2>4 DEF PartHigh
    <3> HIDE DEF g
    <3>4. v \in [DOMAIN vec -> Elems] /\ SameElements(vec, v, cnt)
      BY <1>1, <1>2, <1>3, <3>2, SwapMore
    <3> HIDE DEF v
    <3>5. SameElements(vec, Swapped(v, K, L), cnt)
      BY <1>1, <1>2, <1>5, <2>1, <3>4, SwapMore
    <3> QED
      BY <3>3, <3>4, <3>5
  <2> QED
    BY <1>6, <2>2, <2>3, <2>4 DEF Part
<1>7. CASE Split
  <2> DEFINE u == Swapped(vec, left, L - 1)
  <2>1. pc = "part" /\ vec' = Swapped(u, right, G + 1)
    BY <1>7 DEF Split
  <2>2. u \in [DOMAIN vec -> Elems] /\ SameElements(vec, u, cnt)
    BY <1>1, <1>2, <1>3, <1>5, <2>1, SwapMore
  <2> HIDE DEF u
  <2> QED
    BY <1>1, <1>2, <1>5, <2>1, <2>2, SwapMore
<1> QED
  BY <1>4, <1>6, <1>7

\* A turn of the sort loses no element and makes no copy of one.
THEOREM TurnKeepsElements ==
  ASSUME SortInv, SortStep
  PROVE  SameElements(vec, vec', cnt)
BY PopSame, WorkSame DEF SortStep, SortInv

-----------------------------------------------------------------------------
(* The list of a vector *)

\* A part of a sequence that does not go past its end.
LEMMA PartOf ==
  ASSUME NEW s \in Seq(Elems), NEW a \in Int, NEW b \in Int, 1 <= a, a <= b + 1, b <= Len(s)
  PROVE  /\ SubSeq(s, a, b) \in Seq(Elems) /\ Len(SubSeq(s, a, b)) = b - a + 1
         /\ \A k \in 1 .. b - a + 1 : SubSeq(s, a, b)[k] = s[a + k - 1]
<1>1. \A k \in a .. b : s[k] \in Elems
  OBVIOUS
<1> DEFINE p == SubSeq(s, a, b)
<1>2. /\ p \in Seq(Elems)
      /\ Len(p) = IF a <= b THEN b - a + 1 ELSE 0
      /\ \A k \in 1 .. b - a + 1 : p[k] = s[a + k - 1]
  <2> HIDE DEF p
  <2>1. p = SubSeq(s, a, b)
    BY DEF p
  <2> QED
    BY <1>1, <2>1, SubSeqProperties
<1> HIDE DEF p
<1>3. Len(p) = b - a + 1
  BY <1>2
<1> QED
  BY <1>2, <1>3 DEF p

\* Two sequences joined.
LEMMA Joined ==
  ASSUME NEW a \in Seq(Elems), NEW b \in Seq(Elems)
  PROVE  /\ a \o b \in Seq(Elems) /\ Len(a \o b) = Len(a) + Len(b)
         /\ \A k \in 1 .. Len(a) : (a \o b)[k] = a[k]
         /\ \A k \in 1 .. Len(b) : (a \o b)[Len(a) + k] = b[k]
<1> DEFINE u == a \o b
           n == Len(a)
           m == Len(b)
<1>1. /\ u \in Seq(Elems) /\ Len(u) = n + m
      /\ \A k \in 1 .. n + m : u[k] = IF k <= n THEN a[k] ELSE b[k - n]
  BY ConcatProperties
<1>2. n \in Nat /\ m \in Nat
  OBVIOUS
<1> HIDE DEF u, n, m
<1>3. \A k \in 1 .. n : k \in 1 .. n + m /\ k <= n
  BY <1>2
<1>5. \A k \in 1 .. n : u[k] = a[k]
  BY <1>1, <1>3
<1>6. \A k \in 1 .. m : u[n + k] = b[k]
  <2> TAKE k \in 1 .. m
  <2> DEFINE j == n + k
  <2>1. j \in 1 .. n + m /\ ~ (j <= n) /\ j - n = k
    BY <1>2
  <2> HIDE DEF j
  <2>2. u[j] = IF j <= n THEN a[j] ELSE b[j - n]
    BY <1>1, <2>1
  <2>3. u[j] = b[k]
    BY <2>1, <2>2
  <2> QED
    BY <2>3 DEF j
<1> QED
  BY <1>1, <1>5, <1>6 DEF u, n, m

\* c is a, then the element of w, then b.
Between(c, a, w, b) ==
  /\ c \in Seq(Elems) /\ Len(c) = Len(a) + 1 + Len(b)
  /\ \A k \in 1 .. Len(a) : c[k] = a[k]
  /\ c[Len(a) + 1] = w[1]
  /\ \A k \in 1 .. Len(b) : c[Len(a) + 1 + k] = b[k]

\* Two sequences with one element between them.
LEMMA JoinedBetween ==
  ASSUME NEW a \in Seq(Elems), NEW b \in Seq(Elems), NEW w \in Seq(Elems), Len(w) = 1
  PROVE  Between(a \o w \o b, a, w, b)
<1> DEFINE u == a \o w
           v == u \o b
<1>1. Len(a) \in Nat /\ 1 \in 1 .. Len(w)
  OBVIOUS
<1>2. /\ u \in Seq(Elems) /\ Len(u) = Len(a) + Len(w)
      /\ \A k \in 1 .. Len(a) : u[k] = a[k]
      /\ \A k \in 1 .. Len(w) : u[Len(a) + k] = w[k]
  BY <1>1, Joined
<1> HIDE DEF u
<1>3. Len(u) = Len(a) + 1 /\ u[Len(a) + 1] = w[1]
  BY <1>1, <1>2
<1>4. /\ v \in Seq(Elems) /\ Len(v) = Len(u) + Len(b)
      /\ \A k \in 1 .. Len(u) : v[k] = u[k]
      /\ \A k \in 1 .. Len(b) : v[Len(u) + k] = b[k]
  BY <1>2, Joined
<1> HIDE DEF v
<1>5. Len(a) + 1 \in 1 .. Len(u) /\ \A k \in 1 .. Len(a) : k \in 1 .. Len(u)
  BY <1>1, <1>3
<1>6. v[Len(a) + 1] = w[1] /\ \A k \in 1 .. Len(a) : v[k] = a[k]
  BY <1>2, <1>3, <1>4, <1>5
<1>7. Len(v) = Len(a) + 1 + Len(b) /\ \A k \in 1 .. Len(b) : v[Len(a) + 1 + k] = b[k]
  BY <1>3, <1>4
<1> QED
  BY <1>4, <1>6, <1>7, Zenon DEF v, u, Between

\* v is s with the element e at i.
HasMore(v, s, i, e) ==
  /\ v \in Seq(Elems) /\ Len(v) = Len(s) + 1 /\ v[i] = e
  /\ \A k \in 1 .. i - 1 : v[k] = s[k]
  /\ \A k \in 1 .. Len(s) - i + 1 : v[i + k] = s[i + k - 1]

\* The sequence s with e as its element i.
LEMMA InsertedFacts ==
  ASSUME NEW s \in Seq(Elems), NEW i \in 1 .. Len(s), NEW w \in Seq(Elems), Len(w) = 1
  PROVE  HasMore(SubSeq(s, 1, i - 1) \o w \o SubSeq(s, i, Len(s)), s, i, w[1])
<1> DEFINE a == SubSeq(s, 1, i - 1)
           b == SubSeq(s, i, Len(s))
           n == Len(s)
           v == a \o w \o b
<1>1. n \in Nat /\ i \in Int /\ 1 <= i /\ i <= n
  OBVIOUS
<1>2. a \in Seq(Elems) /\ Len(a) = i - 1 /\ \A k \in 1 .. i - 1 : a[k] = s[k]
  <2>1. /\ a \in Seq(Elems) /\ Len(a) = i - 1 - 1 + 1
        /\ \A k \in 1 .. i - 1 - 1 + 1 : a[k] = s[1 + k - 1]
    BY <1>1, PartOf
  <2> HIDE DEF a, n
  <2>2. i - 1 - 1 + 1 = i - 1 /\ \A k \in 1 .. i - 1 : 1 + k - 1 = k
    BY <1>1
  <2> QED
    BY <2>1, <2>2
<1>3. b \in Seq(Elems) /\ Len(b) = n - i + 1 /\ \A k \in 1 .. n - i + 1 : b[k] = s[i + k - 1]
  BY <1>1, PartOf
<1> HIDE DEF a, b
<1>4. /\ v \in Seq(Elems) /\ Len(v) = Len(a) + 1 + Len(b)
      /\ \A k \in 1 .. Len(a) : v[k] = a[k]
      /\ v[Len(a) + 1] = w[1]
      /\ \A k \in 1 .. Len(b) : v[Len(a) + 1 + k] = b[k]
  <2>1. a \in Seq(Elems) /\ b \in Seq(Elems)
    BY <1>2, <1>3
  <2>2. Between(v, a, w, b)
    BY <2>1, JoinedBetween
  <2> QED
    BY <2>2, Zenon DEF Between
<1> HIDE DEF v
<1>5. Len(v) = n + 1 /\ Len(a) + 1 = i
  BY <1>1, <1>2, <1>3, <1>4
<1>6. \A k \in 1 .. n - i + 1 : v[i + k] = b[k]
  BY <1>3, <1>4, <1>5
<1>7. /\ v \in Seq(Elems) /\ Len(v) = n + 1 /\ v[i] = w[1]
      /\ \A k \in 1 .. i - 1 : v[k] = s[k]
      /\ \A k \in 1 .. n - i + 1 : v[i + k] = s[i + k - 1]
  <2>1. v \in Seq(Elems) /\ Len(v) = n + 1 /\ v[i] = w[1]
    BY <1>4, <1>5
  <2>2. \A k \in 1 .. i - 1 : v[k] = s[k]
    BY <1>2, <1>4
  <2>3. \A k \in 1 .. n - i + 1 : v[i + k] = s[i + k - 1]
    BY <1>3, <1>6
  <2> QED
    BY <2>1, <2>2, <2>3
<1>8. HasMore(v, s, i, w[1])
  BY <1>7 DEF HasMore
<1> QED
  BY <1>8 DEF v, a, b

\* A sequence with one element more at i.
LEMMA InsertedSeq ==
  ASSUME NEW s \in Seq(Elems), NEW t \in Seq(Elems), NEW i \in 1 .. Len(s), NEW e \in Elems,
         Len(t) = Len(s) + 1, t[i] = e,
         \A k \in 1 .. i - 1 : t[k] = s[k],
         \A k \in i + 1 .. Len(s) + 1 : t[k] = s[k - 1]
  PROVE  t = SubSeq(s, 1, i - 1) \o << e >> \o SubSeq(s, i, Len(s))
<1> DEFINE n == Len(s)
           w == << e >>
           v == SubSeq(s, 1, i - 1) \o w \o SubSeq(s, i, Len(s))
<1>1. n \in Nat /\ i \in Int /\ 1 <= i /\ i <= n /\ w \in Seq(Elems) /\ Len(w) = 1 /\ w[1] = e
  OBVIOUS
<1> HIDE DEF w
<1>2. /\ v \in Seq(Elems) /\ Len(v) = n + 1 /\ v[i] = e
      /\ \A k \in 1 .. i - 1 : v[k] = s[k]
      /\ \A k \in 1 .. n - i + 1 : v[i + k] = s[i + k - 1]
  <2>1. w \in Seq(Elems) /\ Len(w) = 1
    BY <1>1
  <2>2. HasMore(v, s, i, w[1])
    BY <2>1, InsertedFacts
  <2> QED
    BY <1>1, <2>2 DEF HasMore
<1> HIDE DEF v
<1>3. ASSUME NEW k \in 1 .. n + 1
      PROVE  t[k] = v[k]
  <2>1. CASE k < i
    <3>1. k \in 1 .. i - 1
      BY <1>1, <2>1
    <3> QED
      BY <1>2, <3>1
  <2>2. CASE k = i
    BY <1>2, <2>2
  <2>3. CASE k > i
    <3>1. k \in i + 1 .. n + 1 /\ k - i \in 1 .. n - i + 1 /\ i + (k - i) = k /\ i + (k - i) - 1 = k - 1
      BY <1>1, <2>3
    <3>2. v[k] = s[k - 1]
      BY <1>2, <3>1
    <3> QED
      BY <3>1, <3>2
  <2> QED
    BY <1>1, <2>1, <2>2, <2>3
<1>4. t = v
  BY <1>2, <1>3, SeqEqual
<1> QED
  BY <1>4, Zenon DEF v, w

\* A sequence without n of its elements.
LEMMA DeletedSeq ==
  ASSUME NEW s \in Seq(Elems), NEW t \in Seq(Elems), NEW i \in 1 .. Len(s),
         NEW n \in 1 .. Len(s) - i + 1,
         Len(t) = Len(s) - n,
         \A k \in 1 .. Len(t) : t[k] = IF k < i THEN s[k] ELSE s[k + n]
  PROVE  t = SubSeq(s, 1, i - 1) \o SubSeq(s, i + n, Len(s))
<1> DEFINE a == SubSeq(s, 1, i - 1)
           b == SubSeq(s, i + n, Len(s))
           m == Len(s)
           v == a \o b
<1>1. m \in Nat /\ i \in Int /\ 1 <= i /\ n \in Int /\ n >= 1 /\ i + n <= m + 1
  OBVIOUS
<1>2. a \in Seq(Elems) /\ Len(a) = i - 1 /\ \A k \in 1 .. i - 1 : a[k] = s[k]
  <2>1. /\ a \in Seq(Elems) /\ Len(a) = i - 1 - 1 + 1
        /\ \A k \in 1 .. i - 1 - 1 + 1 : a[k] = s[1 + k - 1]
    BY <1>1, PartOf
  <2> HIDE DEF a, m
  <2>2. i - 1 - 1 + 1 = i - 1 /\ \A k \in 1 .. i - 1 : 1 + k - 1 = k
    BY <1>1
  <2> QED
    BY <2>1, <2>2
<1>3. /\ b \in Seq(Elems) /\ Len(b) = m - (i + n) + 1
      /\ \A k \in 1 .. m - (i + n) + 1 : b[k] = s[(i + n) + k - 1]
  BY <1>1, PartOf
<1> HIDE DEF a, b, m
<1>4. /\ v \in Seq(Elems) /\ Len(v) = Len(a) + Len(b)
      /\ \A k \in 1 .. Len(a) : v[k] = a[k]
      /\ \A k \in 1 .. Len(b) : v[Len(a) + k] = b[k]
  BY <1>2, <1>3, Joined
<1> HIDE DEF v
<1>5. Len(v) = m - n /\ \A k \in 1 .. m - (i + n) + 1 : v[i - 1 + k] = b[k]
  BY <1>1, <1>2, <1>3, <1>4
<1>6. ASSUME NEW k \in 1 .. m - n
      PROVE  t[k] = v[k]
  <2>1. t[k] = IF k < i THEN s[k] ELSE s[k + n]
    BY DEF m
  <2>2. CASE k < i
    <3>1. k \in 1 .. i - 1
      BY <1>1, <2>2
    <3> QED
      BY <1>2, <1>4, <2>1, <2>2, <3>1
  <2>3. CASE ~ (k < i)
    <3>1. /\ k - (i - 1) \in 1 .. m - (i + n) + 1 /\ i - 1 + (k - (i - 1)) = k
          /\ (i + n) + (k - (i - 1)) - 1 = k + n
      BY <1>1, <2>3
    <3>2. v[k] = b[k - (i - 1)]
      BY <1>5, <3>1
    <3>3. b[k - (i - 1)] = s[k + n]
      BY <1>3, <3>1
    <3> QED
      BY <2>1, <2>3, <3>2, <3>3
  <2> QED
    BY <2>2, <2>3
<1>7. t = v
  <2>1. Len(t) = m - n
    BY DEF m
  <2> QED
    BY <1>4, <1>5, <1>6, <2>1, SeqEqual
<1> QED
  BY <1>7 DEF v, a, b

\* The sequence s without the n elements from i on.
Without(s, i, n) == SubSeq(s, 1, i - 1) \o SubSeq(s, i + n, Len(s))

\* t has the elements of s but n from i on.
LosesElements(s, t, i, n) ==
  /\ s \in Seq(Elems) /\ t \in Seq(Elems)
  /\ i \in 1 .. Len(s) /\ n \in 1 .. Len(s) - i + 1 /\ Len(t) = Len(s) - n
  /\ \A k \in 1 .. Len(t) : t[k] = IF k < i THEN s[k] ELSE s[k + n]

\* A sequence is known by its elements to be another one without n of them.
LEMMA DeletedIs ==
  ASSUME NEW s, NEW t, NEW i, NEW n, LosesElements(s, t, i, n)
  PROVE  t = Without(s, i, n)
BY DeletedSeq DEF Without, LosesElements

\* A sequence that begins like another.
LEMMA PrefixSeq ==
  ASSUME NEW s \in Seq(Elems), NEW t \in Seq(Elems), Len(t) >= Len(s),
         \A k \in 1 .. Len(s) : t[k] = s[k]
  PROVE  SubSeq(t, 1, Len(s)) = s
<1> DEFINE a == SubSeq(t, 1, Len(s))
           m == Len(s)
<1>1. m \in Nat /\ Len(t) \in Nat
  OBVIOUS
<1>2. a \in Seq(Elems) /\ Len(a) = m - 1 + 1 /\ \A k \in 1 .. m - 1 + 1 : a[k] = t[1 + k - 1]
  BY <1>1, PartOf
<1> HIDE DEF a
<1>3. Len(a) = m /\ \A k \in 1 .. m : a[k] = t[k]
  <2> HIDE DEF m
  <2>1. m - 1 + 1 = m /\ \A k \in 1 .. m : 1 + k - 1 = k
    BY <1>1
  <2> QED
    BY <1>2, <2>1
<1>4. a = s
  BY <1>2, <1>3, SeqEqual
<1> QED
  BY <1>4 DEF a

\* The first n elements of f as a sequence.
AsList(f, n) == [k \in 1 .. n |-> f[k - 1]]

\* The first n elements of f are elements.
Holds(f, n) == n \in Nat /\ \A k \in 0 .. n - 1 : f[k] \in Elems

\* s is the sequence of the first n elements of f.
Lists(s, f, n) ==
  s \in Seq(Elems) /\ Len(s) = n /\ \A k \in 1 .. n : s[k] = f[k - 1]

\* AsList gives that sequence.
LEMMA AsListFacts ==
  ASSUME NEW f, NEW n, Holds(f, n)
  PROVE  Lists(AsList(f, n), f, n)
<1>1. n \in Nat /\ \A k \in 1 .. n : f[k - 1] \in Elems
  <2>1. n \in Nat /\ \A k \in 1 .. n : k - 1 \in 0 .. n - 1
    BY DEF Holds
  <2> QED
    BY <2>1 DEF Holds
<1>2. AsList(f, n) \in [1 .. n -> Elems] /\ \A k \in 1 .. n : AsList(f, n)[k] = f[k - 1]
  BY <1>1 DEF AsList
<1> HIDE DEF AsList
<1> QED
  BY <1>1, <1>2 DEF Lists

\* The list of a vector is Contents, before and after a step.
LEMMA ContentsFacts == Contents = AsList(vec, cnt) /\ Contents' = AsList(vec', cnt')
BY DEF Contents, AsList

\* The elements before and after a step.
InStorage == Holds(vec, cnt)

\* What is in the list before and after.
LEMMA BothLists ==
  ASSUME InStorage, InStorage'
  PROVE  /\ Contents \in Seq(Elems) /\ Len(Contents) = cnt
         /\ \A k \in 1 .. cnt : Contents[k] = vec[k - 1]
         /\ Contents' \in Seq(Elems) /\ Len(Contents') = cnt'
         /\ \A k \in 1 .. cnt' : Contents'[k] = vec'[k - 1]
<1>1. Holds(vec, cnt) /\ Holds(vec', cnt')
  BY Zenon DEF InStorage
<1>2. Lists(AsList(vec, cnt), vec, cnt) /\ Lists(AsList(vec', cnt'), vec', cnt')
  BY <1>1, AsListFacts, Zenon
<1> QED
  BY <1>2, ContentsFacts, Zenon DEF Lists

\* Nothing changes in the list, whatever happens to the rest of the storage.
LEMMA ListStays ==
  ASSUME cnt' = cnt, cnt \in Nat, \A k \in 0 .. cnt - 1 : vec'[k] = vec[k]
  PROVE  Contents' = Contents
<1>1. \A k \in 1 .. cnt : k - 1 \in 0 .. cnt - 1
  OBVIOUS
<1> QED
  BY <1>1 DEF Contents

\* An element is overwritten.
LEMMA ListReplaces ==
  ASSUME InStorage, InStorage', NEW i \in 0 .. cnt - 1, NEW e \in Elems, cnt' = cnt, vec'[i] = e,
         \A k \in 0 .. cnt - 1 : k # i => vec'[k] = vec[k]
  PROVE  Abs!Replace
<1> DEFINE s == Contents
           t == Contents'
           u == [s EXCEPT ![i + 1] = e]
<1>1. /\ s \in Seq(Elems) /\ Len(s) = cnt /\ \A k \in 1 .. cnt : s[k] = vec[k - 1]
      /\ t \in Seq(Elems) /\ Len(t) = cnt /\ \A k \in 1 .. cnt : t[k] = vec'[k - 1]
  BY BothLists
<1>2. cnt \in Nat
  BY DEF InStorage, Holds
<1> HIDE DEF s, t
<1>3. i + 1 \in 1 .. cnt /\ i + 1 - 1 = i /\ \A k \in 1 .. cnt : k # i + 1 => k - 1 # i /\ k - 1 \in 0 .. cnt - 1
  BY <1>2
<1>4. u \in Seq(Elems) /\ Len(u) = cnt /\ u[i + 1] = e /\ \A k \in 1 .. cnt : k # i + 1 => u[k] = s[k]
  BY <1>1, <1>3
<1> HIDE DEF u
<1>5. ASSUME NEW k \in 1 .. cnt
      PROVE  t[k] = u[k]
  <2>1. CASE k = i + 1
    BY <1>1, <1>3, <1>4, <2>1
  <2>2. CASE k # i + 1
    <3>1. vec'[k - 1] = vec[k - 1]
      BY <1>3, <2>2
    <3> QED
      BY <1>1, <1>4, <2>2, <3>1
  <2> QED
    BY <2>1, <2>2
<1>6. t = u
  BY <1>1, <1>4, <1>5, SeqEqual
<1>7. \E k \in 1 .. Len(s) : \E x \in Elems : t = [s EXCEPT ![k] = x]
  BY <1>1, <1>3, <1>6 DEF u
<1> QED
  BY <1>7 DEF Abs!Replace, s, t

\* The list gets longer at its end.
LEMMA ListExtends ==
  ASSUME InStorage, InStorage', cnt' > cnt, \A k \in 0 .. cnt - 1 : vec'[k] = vec[k]
  PROVE  Abs!Extend
<1> DEFINE s == Contents
           t == Contents'
<1>1. /\ s \in Seq(Elems) /\ Len(s) = cnt /\ \A k \in 1 .. cnt : s[k] = vec[k - 1]
      /\ t \in Seq(Elems) /\ Len(t) = cnt' /\ \A k \in 1 .. cnt' : t[k] = vec'[k - 1]
  BY BothLists
<1>2. cnt \in Nat /\ cnt' \in Nat
  BY DEF InStorage, Holds
<1> HIDE DEF s, t
<1>3. \A k \in 1 .. cnt : k \in 1 .. cnt' /\ k - 1 \in 0 .. cnt - 1
  BY <1>2
<1>4. \A k \in 1 .. cnt : t[k] = s[k]
  BY <1>1, <1>3
<1>5. Len(t) > Len(s) /\ Len(t) >= Len(s)
  BY <1>1, <1>2
<1>6. SubSeq(t, 1, Len(s)) = s
  BY <1>1, <1>4, <1>5, PrefixSeq
<1> QED
  BY <1>5, <1>6 DEF Abs!Extend, s, t

\* The list gets one element more before another one.
LEMMA ListInserts ==
  ASSUME InStorage, InStorage', NEW i \in 0 .. cnt - 1, NEW e \in Elems, cnt' = cnt + 1, vec'[i] = e,
         \A k \in 0 .. i - 1 : vec'[k] = vec[k],
         \A k \in i + 1 .. cnt : vec'[k] = vec[k - 1]
  PROVE  Abs!Insert
<1> DEFINE s == Contents
           t == Contents'
           j == i + 1
<1>1. /\ s \in Seq(Elems) /\ Len(s) = cnt /\ \A k \in 1 .. cnt : s[k] = vec[k - 1]
      /\ t \in Seq(Elems) /\ Len(t) = cnt + 1 /\ \A k \in 1 .. cnt + 1 : t[k] = vec'[k - 1]
  BY BothLists
<1>2. cnt \in Nat
  BY DEF InStorage, Holds
<1> HIDE DEF s, t
<1>3. j \in 1 .. cnt /\ j \in 1 .. cnt + 1 /\ j - 1 = i
  BY <1>2
<1>4. t[j] = e
  BY <1>1, <1>3
<1>5. ASSUME NEW k \in 1 .. j - 1
      PROVE  t[k] = s[k]
  <2>1. k \in 1 .. cnt /\ k \in 1 .. cnt + 1 /\ k - 1 \in 0 .. i - 1
    BY <1>2
  <2> QED
    BY <1>1, <2>1
<1>6. ASSUME NEW k \in j + 1 .. cnt + 1
      PROVE  t[k] = s[k - 1]
  <2>1. k - 1 \in 1 .. cnt /\ k \in 1 .. cnt + 1 /\ k - 1 \in i + 1 .. cnt
    BY <1>2
  <2>2. t[k] = vec[k - 1 - 1]
    BY <1>1, <2>1
  <2> QED
    BY <1>1, <2>1, <2>2
<1> HIDE DEF j
<1>7. t = SubSeq(s, 1, j - 1) \o << e >> \o SubSeq(s, j, Len(s))
  <2>1. j \in 1 .. Len(s) /\ Len(t) = Len(s) + 1
    BY <1>1, <1>3
  <2>2. \A k \in j + 1 .. Len(s) + 1 : t[k] = s[k - 1]
    BY <1>1, <1>6
  <2> QED
    BY <1>1, <1>4, <1>5, <2>1, <2>2, InsertedSeq
<1>8. j \in 1 .. Len(s)
  BY <1>1, <1>3
<1> QED
  BY <1>7, <1>8, Zenon DEF Abs!Insert, s, t

\* The list loses n elements from i on.
LEMMA ListDeletes ==
  ASSUME InStorage, InStorage', NEW n \in Nat \ {0}, NEW i \in 0 .. cnt - n, cnt' = cnt - n,
         \A k \in 0 .. cnt - n - 1 : vec'[k] = IF k < i THEN vec[k] ELSE vec[k + n]
  PROVE  Abs!Delete
<1> DEFINE s == Contents
           t == Contents'
           j == i + 1
<1>1. /\ s \in Seq(Elems) /\ Len(s) = cnt /\ \A k \in 1 .. cnt : s[k] = vec[k - 1]
      /\ t \in Seq(Elems) /\ Len(t) = cnt - n /\ \A k \in 1 .. cnt - n : t[k] = vec'[k - 1]
  BY BothLists
<1>2. cnt \in Nat
  BY DEF InStorage, Holds
<1> HIDE DEF s, t
<1>3. j \in 1 .. cnt /\ n \in 1 .. cnt - j + 1
  BY <1>2
<1>4. ASSUME NEW k \in 1 .. cnt - n
      PROVE  t[k] = IF k < j THEN s[k] ELSE s[k + n]
  <2>1. /\ k - 1 \in 0 .. cnt - n - 1 /\ (k - 1 < i <=> k < j) /\ k \in 1 .. cnt /\ k + n \in 1 .. cnt
        /\ k + n - 1 = k - 1 + n
    BY <1>2
  <2>2. t[k] = IF k - 1 < i THEN vec[k - 1] ELSE vec[k - 1 + n]
    BY <1>1, <2>1
  <2>3. s[k] = vec[k - 1] /\ s[k + n] = vec[k - 1 + n]
    BY <1>1, <2>1
  <2> QED
    BY <2>1, <2>2, <2>3
<1> HIDE DEF j
<1>5. j \in 1 .. Len(s) /\ n \in 1 .. Len(s) - j + 1 /\ Len(t) = Len(s) - n
  BY <1>1, <1>3
<1>6. s \in Seq(Elems) /\ t \in Seq(Elems)
  BY <1>1
<1>7. \A k \in 1 .. Len(t) : t[k] = IF k < j THEN s[k] ELSE s[k + n]
  BY <1>1, <1>4
<1>8. LosesElements(s, t, j, n)
  BY <1>5, <1>6, <1>7 DEF LosesElements
<1>9. t = Without(s, j, n)
  BY <1>8, DeletedIs
<1> QED
  BY <1>5, <1>9, Zenon DEF Without, Abs!Delete, s, t

\* The list counts copies with the cardinality of FiniteSets.
LEMMA SameCardinality == ASSUME NEW S PROVE Abs!Cardinality(S) = Cardinality(S)
BY DEF Abs!Cardinality, Cardinality

\* The elements of the list change places.
LEMMA ListPermutes ==
  ASSUME InStorage, InStorage', cnt' = cnt, SameElements(vec, vec', cnt)
  PROVE  Abs!Permute
<1> DEFINE s == Contents
           t == Contents'
<1>1. /\ s \in Seq(Elems) /\ Len(s) = cnt /\ \A k \in 1 .. cnt : s[k] = vec[k - 1]
      /\ t \in Seq(Elems) /\ Len(t) = cnt /\ \A k \in 1 .. cnt : t[k] = vec'[k - 1]
  BY BothLists
<1>2. cnt \in Nat
  BY DEF InStorage, Holds
<1> HIDE DEF s, t
<1>3. ASSUME NEW e
      PROVE  Abs!Copies(t, e) = Abs!Copies(s, e)
  <2>1. Abs!Copies(t, e) = CopiesIn(vec', cnt, e)
    <3>1. {k \in 1 .. Len(t) : t[k] = e} = {k \in 1 .. cnt : vec'[k - 1] = e}
      BY <1>1
    <3> QED
      BY <3>1, SameCardinality DEF Abs!Copies, CopiesIn
  <2>2. Abs!Copies(s, e) = CopiesIn(vec, cnt, e)
    <3>1. {k \in 1 .. Len(s) : s[k] = e} = {k \in 1 .. cnt : vec[k - 1] = e}
      BY <1>1
    <3> QED
      BY <3>1, SameCardinality DEF Abs!Copies, CopiesIn
  <2>3. CopiesIn(vec', cnt, e) = CopiesIn(vec, cnt, e)
    BY <1>2, SameCopies
  <2> QED
    BY <2>1, <2>2, <2>3
<1> QED
  BY <1>1, <1>3 DEF Abs!Permute, s, t

-----------------------------------------------------------------------------
(* A vector implements a list *)

\* A step of the list, or none.
ListStep == Abs!Next \/ Contents' = Contents

\* The types put every element in the storage.
LEMMA AllInStorage == (TypeOK => InStorage) /\ (TypeOK' => InStorage')
<1>1. ASSUME TypeOK
      PROVE  InStorage
  <2>1. cnt \in Nat /\ max \in Nat /\ cnt <= max /\ vec \in [0 .. max - 1 -> Elems]
    BY <1>1 DEF TypeOK
  <2>2. \A k \in 0 .. cnt - 1 : k \in 0 .. max - 1
    BY <2>1
  <2> QED
    BY <2>1, <2>2 DEF InStorage, Holds
<1>2. ASSUME TypeOK'
      PROVE  InStorage'
  <2> DEFINE m == max'
             n == cnt'
  <2>1. m \in vec_MIN_ELEM .. MaxMax /\ n \in 0 .. m /\ vec' \in [0 .. m - 1 -> Elems]
    BY <1>2, Zenon DEF TypeOK
  <2> HIDE DEF m, n
  <2>2. n \in Nat /\ \A k \in 0 .. n - 1 : k \in 0 .. m - 1
    BY <2>1
  <2>3. \A k \in 0 .. n - 1 : vec'[k] \in Elems
    BY <2>1, <2>2
  <2> QED
    BY <2>2, <2>3 DEF InStorage, Holds, n
<1> QED
  BY <1>1, <1>2

\* vecset replaces an element or makes the list longer.
LEMMA SetList ==
  ASSUME TypeOK, TypeOK', NEW i \in Nat, NEW e \in Elems, Set(i, e)
  PROVE  ListStep
<1>1. max \in vec_MIN_ELEM .. MaxMax /\ cnt \in 0 .. max /\ vec \in [0 .. max - 1 -> Elems]
      /\ cnt \in Nat /\ max \in Nat
  BY DEF TypeOK
<1>2. InStorage /\ InStorage'
  BY AllInStorage
<1>3. PICK m \in Room(max, i) : \E g \in Garbage(m) :
        IF m = 0 THEN UNCHANGED << vec, cnt, max, srt >>
        ELSE /\ vec' = [Resized(m, g) EXCEPT ![i] = e]
             /\ max' = m /\ cnt' = Larger(cnt, i + 1) /\ srt' = FALSE
  BY DEF Set, SetAt
<1>4. PICK g \in Garbage(m) :
        IF m = 0 THEN UNCHANGED << vec, cnt, max, srt >>
        ELSE /\ vec' = [Resized(m, g) EXCEPT ![i] = e]
             /\ max' = m /\ cnt' = Larger(cnt, i + 1) /\ srt' = FALSE
  BY <1>3
<1>5. CASE m = 0
  <2>1. vec' = vec /\ cnt' = cnt
    BY <1>4, <1>5
  <2> QED
    BY <1>1, <2>1, ListStays DEF ListStep
<1>6. CASE m # 0
  <2>1. m \in vec_MIN_ELEM .. MaxMax /\ m >= max /\ m > i /\ m \in Nat
    BY <1>1, <1>6, RoomFits
  <2> DEFINE f == Resized(m, g)
  <2>2. vec' = [f EXCEPT ![i] = e] /\ cnt' = Larger(cnt, i + 1)
    BY <1>4, <1>6
  <2>3. f \in [0 .. m - 1 -> Elems]
    BY <2>1, GarbageFacts, ResizedFacts
  <2>4. \A k \in 0 .. cnt - 1 : k \in 0 .. m - 1 /\ k < max
    BY <1>1, <2>1
  <2>5. \A k \in 0 .. cnt - 1 : f[k] = vec[k]
    BY <2>4 DEF Resized
  <2> HIDE DEF f
  <2>6. i \in 0 .. m - 1
    BY <2>1
  <2>7. vec'[i] = e
    BY <2>2, <2>3, <2>6
  <2>8. \A k \in 0 .. cnt - 1 : k # i => vec'[k] = vec[k]
    BY <2>2, <2>3, <2>4, <2>5
  <2>9. CASE i < cnt
    <3>1. i \in 0 .. cnt - 1 /\ cnt' = cnt
      BY <1>1, <2>2, <2>9 DEF Larger
    <3>2. Abs!Replace
      BY <1>2, <2>7, <2>8, <3>1, ListReplaces
    <3> QED
      BY <3>2 DEF ListStep, Abs!Next
  <2>10. CASE ~ (i < cnt)
    <3>1. cnt' > cnt /\ \A k \in 0 .. cnt - 1 : k # i
      BY <1>1, <2>2, <2>10 DEF Larger
    <3>2. Abs!Extend
      BY <1>2, <2>8, <3>1, ListExtends
    <3> QED
      BY <3>2 DEF ListStep, Abs!Next
  <2> QED
    BY <2>9, <2>10
<1> QED
  BY <1>5, <1>6

\* vecalloc changes the list only when it makes it longer.
LEMMA AllocList ==
  ASSUME TypeOK, TypeOK', NEW i \in Nat, Alloc(i)
  PROVE  ListStep
<1>1. max \in vec_MIN_ELEM .. MaxMax /\ cnt \in 0 .. max /\ cnt \in Nat /\ max \in Nat
  BY DEF TypeOK
<1>2. InStorage /\ InStorage'
  BY AllInStorage
<1>3. PICK m \in Room(max, i) : \E g \in Garbage(m) :
        IF m = 0 THEN UNCHANGED << vec, cnt, max, srt >>
        ELSE /\ vec' = Resized(m, g)
             /\ max' = m /\ cnt' = Larger(cnt, i + 1) /\ srt' = FALSE
  BY DEF Alloc
<1>4. PICK g \in Garbage(m) :
        IF m = 0 THEN UNCHANGED << vec, cnt, max, srt >>
        ELSE /\ vec' = Resized(m, g)
             /\ max' = m /\ cnt' = Larger(cnt, i + 1) /\ srt' = FALSE
  BY <1>3
<1>5. CASE m = 0
  <2>1. vec' = vec /\ cnt' = cnt
    BY <1>4, <1>5
  <2> QED
    BY <1>1, <2>1, ListStays DEF ListStep
<1>6. CASE m # 0
  <2>1. m \in vec_MIN_ELEM .. MaxMax /\ m >= max /\ m > i /\ m \in Nat
    BY <1>1, <1>6, RoomFits
  <2>2. vec' = Resized(m, g) /\ cnt' = Larger(cnt, i + 1)
    BY <1>4, <1>6
  <2>3. \A k \in 0 .. cnt - 1 : k \in 0 .. m - 1 /\ k < max
    BY <1>1, <2>1
  <2>4. \A k \in 0 .. cnt - 1 : vec'[k] = vec[k]
    BY <2>2, <2>3 DEF Resized
  <2>5. CASE i < cnt
    <3>1. cnt' = cnt
      BY <1>1, <2>2, <2>5 DEF Larger
    <3> QED
      BY <1>1, <2>4, <3>1, ListStays DEF ListStep
  <2>6. CASE ~ (i < cnt)
    <3>1. cnt' > cnt
      BY <1>1, <2>2, <2>6 DEF Larger
    <3>2. Abs!Extend
      BY <1>2, <2>4, <3>1, ListExtends
    <3> QED
      BY <3>2 DEF ListStep, Abs!Next
  <2> QED
    BY <2>5, <2>6
<1> QED
  BY <1>5, <1>6

\* vecins, vecpush and the insertion of vecadd: one element more in its place,
\* a longer list when its place is past the end, the same list when the storage
\* does not grow.
LEMMA InsList ==
  ASSUME TypeOK, TypeOK', NEW i \in Nat, NEW e \in Elems, InsAt(i, e)
  PROVE  ListStep
<1>1. cnt \in Nat
  BY DEF TypeOK
<1>2. InStorage /\ InStorage'
  BY AllInStorage
<1>3. /\ ret' # None /\ i <= cnt =>
           /\ cnt' = cnt + 1 /\ vec'[i] = e
           /\ \A k \in 0 .. i - 1 : vec'[k] = vec[k]
           /\ \A k \in i + 1 .. cnt : vec'[k] = vec[k - 1]
      /\ ret' # None /\ i >= cnt =>
           cnt' = i + 1 /\ \A k \in 0 .. cnt - 1 : vec'[k] = vec[k]
      /\ ret' = None => cnt' = cnt /\ \A k \in 0 .. cnt - 1 : vec'[k] = vec[k]
  BY InsFacts
<1>4. CASE ret' = None
  BY <1>1, <1>3, <1>4, ListStays DEF ListStep
<1>5. CASE ret' # None /\ i < cnt
  <2>1. i \in 0 .. cnt - 1 /\ i <= cnt
    BY <1>1, <1>5
  <2>2. Abs!Insert
    BY <1>2, <1>3, <1>5, <2>1, ListInserts
  <2> QED
    BY <2>2 DEF ListStep, Abs!Next
<1>6. CASE ret' # None /\ ~ (i < cnt)
  <2>1. cnt' > cnt /\ \A k \in 0 .. cnt - 1 : vec'[k] = vec[k]
    BY <1>1, <1>3, <1>6
  <2>2. Abs!Extend
    BY <1>2, <2>1, ListExtends
  <2> QED
    BY <2>2 DEF ListStep, Abs!Next
<1> QED
  BY <1>4, <1>5, <1>6

\* vecdel, vecdelrange and vecremove take the elements of the range away.
LEMMA DelList ==
  ASSUME TypeOK, TypeOK', NEW i \in Nat, NEW j \in Nat, i <= j, DelRangeAt(i, j)
  PROVE  ListStep
<1>1. cnt \in Nat /\ max \in Nat /\ cnt <= max /\ vec \in [0 .. max - 1 -> Elems]
  BY DEF TypeOK
<1>2. InStorage /\ InStorage'
  BY AllInStorage
<1>3. CASE i >= cnt
  <2>1. vec' = vec /\ cnt' = cnt
    BY <1>1, <1>3 DEF DelRangeAt
  <2> QED
    BY <1>1, <2>1, ListStays DEF ListStep
<1>4. CASE i < cnt /\ j + 1 >= cnt
  <2> DEFINE n == cnt - i
  <2>1. vec' = vec /\ cnt' = cnt - n /\ n \in Nat \ {0} /\ i \in 0 .. cnt - n /\ cnt - n = i
    BY <1>1, <1>4 DEF DelRangeAt
  <2> HIDE DEF n
  <2>2. \A k \in 0 .. cnt - n - 1 : vec'[k] = IF k < i THEN vec[k] ELSE vec[k + n]
    BY <1>1, <2>1
  <2>3. Abs!Delete
    BY <1>2, <2>1, <2>2, ListDeletes
  <2> QED
    BY <2>3 DEF ListStep, Abs!Next
<1>5. CASE i < cnt /\ j + 1 < cnt
  <2> DEFINE n == j - i + 1
  <2>1. vec' = Closed(i, n) /\ cnt' = cnt - n /\ n \in Nat \ {0} /\ i \in 0 .. cnt - n
    BY <1>1, <1>5 DEF DelRangeAt
  <2> HIDE DEF n
  <2>2. ASSUME NEW k \in 0 .. cnt - n - 1
        PROVE  vec'[k] = IF k < i THEN vec[k] ELSE vec[k + n]
    <3>1. k \in DOMAIN vec /\ k < cnt - n /\ (k >= i <=> ~ (k < i))
      BY <1>1, <2>1
    <3> QED
      BY <2>1, <3>1 DEF Closed
  <2>3. Abs!Delete
    BY <1>2, <2>1, <2>2, ListDeletes
  <2> QED
    BY <2>3 DEF ListStep, Abs!Next
<1> QED
  BY <1>1, <1>3, <1>4, <1>5

\* vecdrop takes elements away at the end.
LEMMA DropList ==
  ASSUME TypeOK, TypeOK', NEW n \in 1 .. cnt, Drop(n)
  PROVE  ListStep
<1>1. cnt \in Nat
  BY DEF TypeOK
<1>2. InStorage /\ InStorage'
  BY AllInStorage
<1>3. vec' = vec /\ cnt' = cnt - n /\ n \in Nat \ {0} /\ cnt - n \in 0 .. cnt - n
  BY <1>1 DEF Drop
<1>4. \A k \in 0 .. cnt - n - 1 : vec'[k] = IF k < cnt - n THEN vec[k] ELSE vec[k + n]
  BY <1>1, <1>3
<1>5. Abs!Delete
  BY <1>2, <1>3, <1>4, ListDeletes
<1> QED
  BY <1>5 DEF ListStep, Abs!Next

\* A step that leaves the elements alone.
LEMMA SameList ==
  ASSUME TypeOK, vec' = vec, cnt' = cnt
  PROVE  ListStep
<1>1. cnt \in Nat
  BY DEF TypeOK
<1> QED
  BY <1>1, ListStays DEF ListStep

\* A turn of the sort puts the list in another order.
LEMMA SortList ==
  ASSUME Inv, TypeOK', SortTurn
  PROVE  ListStep
<1>1. SortInv /\ SortStep /\ cnt' = cnt /\ TypeOK
  BY DEF Inv, SortTurn
<1>2. SameElements(vec, vec', cnt)
  BY <1>1, TurnKeepsElements
<1>3. InStorage /\ InStorage'
  BY <1>1, AllInStorage
<1>4. Abs!Permute
  BY <1>1, <1>2, <1>3, ListPermutes
<1> QED
  BY <1>4 DEF ListStep, Abs!Next

\* The rest of a call after its sort: one list operation at most.
LEMMA ReturnList ==
  ASSUME Inv, TypeOK', Return
  PROVE  ListStep
<1>1. ~ Idle /\ ~ Sorting
  BY DEF Return, ReturnSort, ReturnSearch, ReturnAdd, ReturnRemove, Resume
<1>2. TypeOK /\ Searched
  BY <1>1, SortedNow
<1>3. cnt \in Nat /\ max \in Nat /\ cnt <= max /\ vec \in [0 .. max - 1 -> Elems]
  BY <1>2 DEF TypeOK
<1>4. call.op # "sort" => call.arg \in Elems
  BY <1>1, <1>2 DEF TypeOK, Idle, Running
<1> DEFINE r == LastRange(call.arg)
<1>5. call.op # "sort" => IF Found(r) THEN Mid(r) \in 0 .. cnt - 1 ELSE r.lo \in 0 .. cnt
  BY <1>2, <1>4, FindFacts
<1> HIDE DEF r
<1>6. CASE ReturnSort \/ ReturnSearch
  <2>1. vec' = vec /\ cnt' = cnt
    BY <1>6 DEF ReturnSort, ReturnSearch
  <2> QED
    BY <1>2, <2>1, SameList
<1>7. CASE ReturnAdd
  <2>1. /\ call.op = "add"
        /\ IF Found(r) THEN /\ vec' = [vec EXCEPT ![Mid(r)] = call.arg]
                            /\ srt' = TRUE /\ ret' = Mid(r) /\ UNCHANGED << cnt, max >>
           ELSE InsAt(r.lo, call.arg)
    BY <1>7 DEF ReturnAdd, Resume, r
  <2>2. CASE Found(r)
    <3> DEFINE i == Mid(r)
               e == call.arg
    <3>1. vec' = [vec EXCEPT ![i] = e] /\ cnt' = cnt /\ i \in 0 .. cnt - 1 /\ e \in Elems
      BY <1>4, <1>5, <2>1, <2>2
    <3> HIDE DEF i, e
    <3>2. \A k \in 0 .. cnt - 1 : k \in 0 .. max - 1
      BY <1>3
    <3>3. vec'[i] = e /\ \A k \in 0 .. cnt - 1 : k # i => vec'[k] = vec[k]
      BY <1>3, <3>1, <3>2
    <3>4. InStorage /\ InStorage'
      BY <1>2, AllInStorage
    <3>5. Abs!Replace
      BY <3>1, <3>3, <3>4, ListReplaces
    <3> QED
      BY <3>5 DEF ListStep, Abs!Next
  <2>3. CASE ~ Found(r)
    <3>1. r.lo \in Nat /\ InsAt(r.lo, call.arg) /\ call.arg \in Elems
      BY <1>3, <1>4, <1>5, <2>1, <2>3
    <3> QED
      BY <1>2, <3>1, InsList
  <2> QED
    BY <2>2, <2>3
<1>8. CASE ReturnRemove
  <2>1. /\ call.op = "remove"
        /\ IF Found(r) THEN DelRangeAt(Mid(r), Mid(r)) /\ ret' = Mid(r)
           ELSE UNCHANGED << vec, cnt, ret >>
    BY <1>8 DEF ReturnRemove, Resume, r
  <2>2. CASE Found(r)
    <3>1. Mid(r) \in Nat /\ Mid(r) <= Mid(r) /\ DelRangeAt(Mid(r), Mid(r))
      BY <1>3, <1>5, <2>1, <2>2
    <3> QED
      BY <1>2, <3>1, DelList
  <2>3. CASE ~ Found(r)
    BY <1>2, <2>1, <2>3, SameList
  <2> QED
    BY <2>2, <2>3
<1> QED
  BY <1>6, <1>7, <1>8 DEF Return

\* Every step of the vector is a step of the list or leaves the list as it is.
LEMMA NextList ==
  ASSUME Inv, TypeOK', [Next]_vars
  PROVE  ListStep
<1>1. TypeOK /\ cnt \in Nat
  BY DEF Inv, TypeOK
<1>2. ASSUME NEW i \in 0 .. cnt + Hole, NEW e \in Elems, Set(i, e) \/ Ins(i, e)
      PROVE  ListStep
  <2>1. i \in Nat
    BY <1>1
  <2> QED
    BY <1>1, <1>2, <2>1, SetList, InsList DEF Ins
<1>3. ASSUME NEW i \in 0 .. cnt + Hole, Alloc(i)
      PROVE  ListStep
  <2>1. i \in Nat
    BY <1>1
  <2> QED
    BY <1>1, <1>3, <2>1, AllocList
<1>4. ASSUME NEW n \in 1 .. cnt, Drop(n)
      PROVE  ListStep
  BY <1>1, <1>4, DropList
<1>5. ASSUME NEW i \in 0 .. cnt, NEW j \in 0 .. cnt, DelRange(i, j)
      PROVE  ListStep
  <2>1. i \in Nat /\ j \in Nat /\ i <= j /\ DelRangeAt(i, j)
    BY <1>5 DEF DelRange
  <2> QED
    BY <1>1, <2>1, DelList
<1>6. ASSUME NEW e \in Args, AddUnordered(e)
      PROVE  ListStep
  <2>1. e \in Elems /\ Set(cnt, e)
    BY <1>6 DEF AddUnordered
  <2> QED
    BY <1>1, <2>1, SetList
<1>7. ASSUME Sort \/ (\E c \in Cmps : SortBy(c)) \/ DropCmp
             \/ (\E op \in {"search", "add", "remove"}, e \in Args : Lookup(op, e))
             \/ UNCHANGED vars
      PROVE  ListStep
  <2>1. vec' = vec /\ cnt' = cnt
    BY <1>7 DEF Sort, SortBy, DropCmp, Lookup, Enter, vars, sortvars
  <2> QED
    BY <1>1, <2>1, SameList
<1>8. CASE SortTurn
  BY <1>8, SortList
<1>9. CASE Return
  BY <1>9, ReturnList
<1> QED
  BY <1>2, <1>3, <1>4, <1>5, <1>6, <1>7, <1>8, <1>9 DEF Next

\* A vector is a list: every call, also one that sorts first, and also one for
\* which the storage does not grow, is one operation of the list and steps that
\* put its elements in another order.
THEOREM VectorIsAList == Spec => ImplementsList
<1>1. Init => Abs!Init
  <2> SUFFICES ASSUME Init
               PROVE  Contents = <<>>
    BY DEF Abs!Init
  <2>1. cnt = 0 /\ \A k : k \notin 1 .. 0
    BY DEF Init
  <2> QED
    BY <2>1 DEF Contents
<1>2. Inv /\ Inv' /\ [Next]_vars => [Abs!Next]_Contents
  <2> SUFFICES ASSUME Inv, Inv', [Next]_vars
               PROVE  Abs!Next \/ Contents' = Contents
    OBVIOUS
  <2>1. TypeOK'
    BY DEF Inv
  <2> QED
    BY <2>1, NextList DEF ListStep
<1> QED
  BY <1>1, <1>2, Invariance, PTL DEF Spec, ImplementsList, Abs!Spec

-----------------------------------------------------------------------------
(* Buffers and symbol tables: how far the storage grows *)

\* Nothing that follows is about the elements of vectors.
HIDE RankAssumption
HIDE SizeAssumption
HIDE NoneAssumption
HIDE SmallAssumption

(* A storage that may grow, grows a turn of the loop at a time.            *)
LEMMA GrownTurns ==
  ASSUME NEW m \in Nat, NEW n \in Nat
  PROVE  Grown(m, n) = IF m > n THEN m ELSE Grown(NewMax(m), n)
<1> DEFINE grow == CHOOSE f : f = [s \in Nat |-> GrowTurn(f, n, s)]
<1>1. \A s \in Nat : Grown(s, n) = grow[s]
  BY DEF Grown, GrowTurn
<1>2. grow = [s \in Nat |-> GrowTurn(grow, n, s)]
  BY GrowExists
<1> HIDE DEF grow
<1>3. grow[m] = IF m > n THEN m ELSE grow[NewMax(m)]
  BY <1>2 DEF GrowTurn
<1> QED
  BY <1>1, <1>3, NewMaxFacts

(* Growing for i and then for n comes to the size that growing for n does. *)
LEMMA GrownTwice ==
  ASSUME NEW m \in Nat \ {0}, NEW i \in Nat, NEW n \in Nat, i <= n
  PROVE  Grown(Grown(m, i), n) = Grown(m, n)
<1> DEFINE Same(s) == Grown(Grown(s, i), n) = Grown(s, n)
           T == {k \in Nat : \E s \in Nat \ {0} : s + k = i + 1 /\ ~ Same(s)}
<1>1. \A s \in Nat \ {0} : s > i => Same(s)
  BY GrownTurns
<1>2. ASSUME T # {} PROVE FALSE
  <2>1. PICK k \in T : \A j \in T : k <= j
    <3>1. T \subseteq Nat
      OBVIOUS
    <3> HIDE DEF T
    <3> QED
      BY <1>2, <3>1, LeastNatural
  <2>2. PICK s \in Nat \ {0} : s + k = i + 1 /\ ~ Same(s)
    OBVIOUS
  <2> DEFINE r == NewMax(s)
  <2>3. r \in Nat /\ r > s
    BY NewMaxFacts
  <2> HIDE DEF r
  <2>4. ~ (s > i)
    BY <1>1, <2>2
  <2>5. Grown(s, i) = Grown(r, i)
    BY <2>4, GrownTurns DEF r
  <2>6. Grown(s, n) = Grown(r, n)
    BY <2>4, GrownTurns DEF r
  <2>7. ~ Same(r)
    BY <2>2, <2>5, <2>6
  <2>8. ~ (r > i)
    BY <1>1, <2>3, <2>7
  <2>9. i + 1 - r \in Nat /\ r + (i + 1 - r) = i + 1 /\ i + 1 - r < k
    BY <2>2, <2>3, <2>8
  <2>10. i + 1 - r \in T
    BY <2>3, <2>7, <2>9
  <2> QED
    BY <2>1, <2>9, <2>10
<1>3. CASE m > i
  BY <1>1, <1>3
<1>4. CASE ~ (m > i)
  <2>1. i + 1 - m \in Nat /\ m + (i + 1 - m) = i + 1
    BY <1>4
  <2>2. i + 1 - m \notin T
    BY <1>2
  <2> QED
    BY <2>1, <2>2
<1> QED
  BY <1>3, <1>4

-----------------------------------------------------------------------------
(* Writing to a buffer *)

\* What a byte of a storage is.
Byte == Chars \cup Letters \cup Words \cup {Nul, Junk, Newline}

IsBuffer(x) ==
  /\ x = [bytes |-> x.bytes, cnt |-> x.cnt, max |-> x.max]
  /\ x.cnt \in Nat /\ x.max \in Nat \ {0} /\ x.bytes \in [0 .. x.max - 1 -> Byte]

\* y has the storage of x, or one that makeroom grew for the bytes below n.
Enlarged(x, y, n) ==
  /\ y.max >= x.max
  /\ \A k \in Nat : k >= n => (HasRoom(y, k) <=> HasRoom(x, k))

\* The bytes of x that are not in from .. to are in y.
SameBut(x, y, from, to) ==
  \A k \in 0 .. x.max - 1 : k \notin from .. to => y.bytes[k] = x.bytes[k]

\* The limit of a buffer or symbol table.
LimOK == lim \in Nat

LEMMA RoomBelow ==
  ASSUME LimOK, NEW x, IsBuffer(x), NEW n \in Nat, NEW k \in Nat, k <= n, HasRoom(x, n)
  PROVE  HasRoom(x, k)
<1>1. Grown(Grown(x.max, k), n) = Grown(x.max, n)
  BY GrownTwice DEF IsBuffer
<1>2. Grown(x.max, k) \in Nat /\ Grown(x.max, k) >= x.max
  BY GrownFits DEF IsBuffer
<1>3. Grown(x.max, n) >= Grown(x.max, k)
  BY <1>1, <1>2, GrownFits DEF IsBuffer
<1>4. Grown(x.max, n) \in Nat
  BY GrownFits DEF IsBuffer
<1> QED
  BY <1>2, <1>3, <1>4 DEF HasRoom, IsBuffer, LimOK

LEMMA RoomyFits ==
  ASSUME LimOK, NEW x, IsBuffer(x), NEW n \in Nat, HasRoom(x, n)
  PROVE  /\ IsBuffer(Roomy(x, n)) /\ Roomy(x, n).cnt = x.cnt /\ n < Roomy(x, n).max
         /\ Enlarged(x, Roomy(x, n), n)
         /\ \A k \in 0 .. x.max - 1 : Roomy(x, n).bytes[k] = x.bytes[k]
<1>1. CASE n < x.max
  BY <1>1 DEF Roomy, Enlarged, IsBuffer
<1>2. CASE ~ (n < x.max)
  <2> DEFINE m == Grown(x.max, n)
             y == Roomy(x, n)
  <2>1. m \in Nat /\ m > n /\ m >= x.max
    BY GrownFits DEF IsBuffer
  <2>2. m <= lim
    BY <1>2 DEF HasRoom
  <2>3. y = [x EXCEPT !.max = m, !.bytes = [i \in 0 .. m - 1 |-> IF i < x.max THEN x.bytes[i] ELSE Junk]]
    BY <1>2 DEF Roomy
  <2>4. \A k \in Nat : k >= n => Grown(m, k) = Grown(x.max, k)
    BY GrownTwice DEF IsBuffer
  <2>5. \A k \in Nat : m > k => Grown(m, k) = m
    BY <2>1, GrownTurns
  <2> HIDE DEF m, y
  <2>6. y.cnt = x.cnt /\ y.max = m
        /\ y.bytes = [i \in 0 .. m - 1 |-> IF i < x.max THEN x.bytes[i] ELSE Junk]
    BY <2>3 DEF IsBuffer
  <2>7. IsBuffer(y)
    <3>1. \A i \in 0 .. m - 1 : i < x.max => x.bytes[i] \in Byte
      BY <2>1 DEF IsBuffer
    <3>2. y.bytes \in [0 .. m - 1 -> Byte]
      BY <2>6, <3>1 DEF Byte
    <3>3. y = [bytes |-> y.bytes, cnt |-> y.cnt, max |-> y.max]
      BY <2>3 DEF IsBuffer
    <3> QED
      BY <2>1, <2>6, <3>2, <3>3 DEF IsBuffer
  <2>8. Enlarged(x, y, n)
    <3> SUFFICES ASSUME NEW k \in Nat, k >= n
                 PROVE  HasRoom(y, k) <=> HasRoom(x, k)
      BY <2>1, <2>6 DEF Enlarged
    <3>1. HasRoom(x, k) <=> Grown(x.max, k) <= lim
      BY <1>2 DEF HasRoom, IsBuffer
    <3>2. HasRoom(y, k) <=> k < m \/ Grown(m, k) <= lim
      BY <2>6 DEF HasRoom
    <3> QED
      BY <2>1, <2>2, <2>4, <2>5, <3>1, <3>2
  <2>9. \A k \in 0 .. x.max - 1 : y.bytes[k] = x.bytes[k]
    BY <2>1, <2>6 DEF IsBuffer
  <2> QED
    BY <2>1, <2>6, <2>7, <2>8, <2>9 DEF y
<1> QED
  BY <1>1, <1>2

(* bufsetc, with room and without.                                         *)
LEMMA SetCWrites ==
  ASSUME LimOK, NEW x, IsBuffer(x), NEW i \in Nat, NEW e \in Byte
  PROVE  /\ IsBuffer(SetC(x, i, e)) /\ Enlarged(x, SetC(x, i, e), i)
         /\ SameBut(x, SetC(x, i, e), i, i)
         /\ HasRoom(x, i) => /\ SetC(x, i, e).cnt = Larger(x.cnt, i + 1)
                             /\ i < SetC(x, i, e).max /\ SetC(x, i, e).bytes[i] = e
         /\ ~ HasRoom(x, i) => SetC(x, i, e) = x
<1>1. CASE ~ HasRoom(x, i)
  BY <1>1 DEF SetC, Enlarged, SameBut, IsBuffer
<1>2. CASE HasRoom(x, i)
  <2> DEFINE r == Roomy(x, i)
             y == SetC(x, i, e)
  <2>1. IsBuffer(r) /\ r.cnt = x.cnt /\ i < r.max /\ Enlarged(x, r, i)
        /\ \A k \in 0 .. x.max - 1 : r.bytes[k] = x.bytes[k]
    BY <1>2, RoomyFits
  <2>2. y = [r EXCEPT !.bytes[i] = e, !.cnt = Larger(@, i + 1)]
    BY <1>2 DEF SetC
  <2> HIDE DEF r, y
  <2>3. y.cnt = Larger(x.cnt, i + 1) /\ y.max = r.max /\ y.bytes = [r.bytes EXCEPT ![i] = e]
        /\ y = [bytes |-> y.bytes, cnt |-> y.cnt, max |-> y.max]
    BY <2>1, <2>2 DEF IsBuffer
  <2>4. Larger(x.cnt, i + 1) \in Nat
    BY DEF Larger, IsBuffer
  <2>5. IsBuffer(y)
    BY <2>1, <2>3, <2>4 DEF IsBuffer
  <2>6. Enlarged(x, y, i)
    BY <2>1, <2>3 DEF Enlarged, HasRoom
  <2>7. y.bytes[i] = e /\ \A k \in 0 .. r.max - 1 : k # i => y.bytes[k] = r.bytes[k]
    BY <2>1, <2>3 DEF IsBuffer
  <2>8. SameBut(x, y, i, i)
    BY <2>1, <2>7 DEF SameBut, Enlarged, IsBuffer
  <2> QED
    BY <1>2, <2>1, <2>3, <2>5, <2>6, <2>7, <2>8 DEF y
<1> QED
  BY <1>1, <1>2

(* The '\0' after the last byte.                                           *)
LEMMA EndedFacts ==
  ASSUME LimOK, NEW x, IsBuffer(x)
  PROVE  /\ IsBuffer(Ended(x)) /\ SameBut(x, Ended(x), x.cnt, x.cnt) /\ Enlarged(x, Ended(x), x.cnt)
         /\ HasRoom(x, x.cnt) => /\ Ended(x).cnt = x.cnt /\ x.cnt < Ended(x).max
                                 /\ Ended(x).bytes[x.cnt] = Nul
<1> DEFINE y == SetC(x, x.cnt, Nul)
           z == Ended(x)
<1>1. x.cnt \in Nat /\ Nul \in Byte
  BY DEF IsBuffer, Byte
<1>2. /\ IsBuffer(y) /\ Enlarged(x, y, x.cnt) /\ SameBut(x, y, x.cnt, x.cnt)
      /\ HasRoom(x, x.cnt) => /\ y.cnt = Larger(x.cnt, x.cnt + 1)
                              /\ x.cnt < y.max /\ y.bytes[x.cnt] = Nul
      /\ ~ HasRoom(x, x.cnt) => y = x
  BY <1>1, SetCWrites
<1>3. z = [y EXCEPT !.cnt = @ - 1]
  BY DEF Ended
<1> HIDE DEF y, z
<1>4. z.cnt = y.cnt - 1 /\ z.max = y.max /\ z.bytes = y.bytes
      /\ z = [bytes |-> z.bytes, cnt |-> z.cnt, max |-> z.max]
  BY <1>2, <1>3 DEF IsBuffer
<1>5. HasRoom(x, x.cnt) => z.cnt = x.cnt
  BY <1>1, <1>2, <1>4 DEF Larger
<1>6. z.cnt \in Nat
  <2>1. CASE HasRoom(x, x.cnt)
    BY <1>1, <1>5, <2>1
  <2>2. CASE ~ HasRoom(x, x.cnt)
    <3>1. ~ (x.cnt < x.max)
      BY <2>2 DEF HasRoom
    <3> QED
      BY <1>2, <1>4, <2>2, <3>1 DEF IsBuffer
  <2> QED
    BY <2>1, <2>2
<1>7. IsBuffer(z)
  BY <1>2, <1>4, <1>6 DEF IsBuffer
<1>8. Enlarged(x, z, x.cnt) /\ SameBut(x, z, x.cnt, x.cnt)
  BY <1>2, <1>4 DEF Enlarged, HasRoom, SameBut
<1> QED
  BY <1>2, <1>4, <1>5, <1>7, <1>8 DEF z

(* A string of bytes, written where the storage is.                        *)
IsWritten(x, i, s, y) ==
  /\ IsBuffer(y) /\ y.max = x.max /\ y.cnt = x.cnt /\ SameBut(x, y, i, i + Len(s) - 1)
  /\ \A k \in 0 .. x.max - 1 : k \in i .. i + Len(s) - 1 => y.bytes[k] = s[k - i + 1]
  /\ \A n \in Nat : HasRoom(y, n) <=> HasRoom(x, n)

LEMMA WrittenFacts ==
  ASSUME NEW x, IsBuffer(x), NEW i \in Nat, NEW s \in Seq(Byte)
  PROVE  IsWritten(x, i, s, Written(x, i, s))
<1> DEFINE y == Written(x, i, s)
<1>1. y = [x EXCEPT !.bytes =
             [k \in DOMAIN @ |-> IF k >= i /\ k < i + Len(s) THEN s[k - i + 1] ELSE @[k]]]
  BY DEF Written
<1> HIDE DEF y
<1>2. y.max = x.max /\ y.cnt = x.cnt /\ y = [bytes |-> y.bytes, cnt |-> y.cnt, max |-> y.max]
      /\ y.bytes = [k \in 0 .. x.max - 1 |-> IF k >= i /\ k < i + Len(s) THEN s[k - i + 1] ELSE x.bytes[k]]
  BY <1>1 DEF IsBuffer
<1>3. \A k \in 0 .. x.max - 1 : k >= i /\ k < i + Len(s) => s[k - i + 1] \in Byte
  <2> SUFFICES ASSUME NEW k \in 0 .. x.max - 1, k >= i, k < i + Len(s)
               PROVE  s[k - i + 1] \in Byte
    OBVIOUS
  <2>1. Len(s) \in Nat /\ s \in [1 .. Len(s) -> Byte]
    OBVIOUS
  <2>2. k - i + 1 \in 1 .. Len(s)
    BY <2>1 DEF IsBuffer
  <2> HIDE DEF Byte
  <2> QED
    BY <2>1, <2>2
<1>4. IsBuffer(y)
  <2>1. \A k \in 0 .. x.max - 1 : x.bytes[k] \in Byte
    BY DEF IsBuffer
  <2>2. y.bytes \in [0 .. x.max - 1 -> Byte]
    BY <1>2, <1>3, <2>1
  <2> QED
    BY <1>2, <2>2 DEF IsBuffer
<1>5. Len(s) \in Nat /\ x.max \in Nat
  BY DEF IsBuffer
<1>6. SameBut(x, y, i, i + Len(s) - 1)
  BY <1>2, <1>5 DEF SameBut
<1>7. \A k \in 0 .. x.max - 1 : k \in i .. i + Len(s) - 1 => y.bytes[k] = s[k - i + 1]
  BY <1>2, <1>5
<1>8. \A n \in Nat : HasRoom(y, n) <=> HasRoom(x, n)
  BY <1>2 DEF HasRoom
<1> QED
  BY <1>2, <1>4, <1>6, <1>7, <1>8 DEF y, IsWritten

(* utl_buf_sets: a byte after another.                                     *)
PutTurn(f, x, i, s, k) == IF k = 0 THEN x ELSE SetC(f[k - 1], i + k - 1, s[k])
PutLoop(f, x, i, s, N) == f = [k \in 0 .. N |-> PutTurn(f, x, i, s, k)]

LEMMA PutExists ==
  ASSUME NEW x, NEW i, NEW s, NEW N \in Nat
  PROVE  \E f : PutLoop(f, x, i, s, N)
<1> DEFINE PutUpTo(f, n) == \A k \in 0 .. n : f[k] = PutTurn(f, x, i, s, k)
           T == {n \in Nat : ~ \E f : PutUpTo(f, n)}
<1>1. 0 \notin T
  <2> DEFINE f == [k \in {0} |-> x]
  <2>1. PutUpTo(f, 0)
    BY DEF PutTurn
  <2> QED
    BY <2>1
<1>2. ASSUME NEW n \in Nat, NEW f, PutUpTo(f, n) PROVE \E g : PutUpTo(g, n + 1)
  <2> DEFINE g == [k \in 0 .. n + 1 |-> IF k <= n THEN f[k] ELSE PutTurn(f, x, i, s, k)]
  <2>1. ASSUME NEW k \in 0 .. n + 1 PROVE g[k] = PutTurn(g, x, i, s, k)
    <3>1. g[k] = PutTurn(f, x, i, s, k)
      BY <1>2, <2>1
    <3>2. k # 0 => g[k - 1] = f[k - 1]
      BY <2>1
    <3> QED
      BY <3>1, <3>2 DEF PutTurn
  <2>2. PutUpTo(g, n + 1)
    BY <2>1
  <2> QED
    BY <2>2
<1>3. T = {}
  <2>1. SUFFICES ASSUME T # {} PROVE FALSE
    OBVIOUS
  <2>2. T \subseteq Nat
    OBVIOUS
  <2> HIDE DEF PutUpTo
  <2>3. PICK n \in T : \A k \in T : n <= k
    <3> HIDE DEF T
    <3> QED
      BY <2>1, <2>2, LeastNatural
  <2>4. n # 0 /\ n \in Nat
    BY <1>1, <2>3
  <2>5. n - 1 \in Nat /\ n - 1 \notin T
    BY <2>3, <2>4
  <2>6. PICK f : PutUpTo(f, n - 1)
    BY <2>5
  <2>7. \E g : PutUpTo(g, (n - 1) + 1)
    BY <1>2, <2>5, <2>6
  <2> QED
    BY <2>3, <2>4, <2>7
<1>4. PICK f : PutUpTo(f, N)
  <2> HIDE DEF PutUpTo
  <2> QED
    BY <1>3
<1> DEFINE g == [k \in 0 .. N |-> f[k]]
<1>5. ASSUME NEW k \in 0 .. N PROVE g[k] = PutTurn(g, x, i, s, k)
  <2>1. f[k] = PutTurn(f, x, i, s, k)
    BY <1>4
  <2>2. k # 0 => g[k - 1] = f[k - 1]
    BY <1>5
  <2> QED
    BY <2>1, <2>2 DEF PutTurn
<1>6. PutLoop(g, x, i, s, N)
  BY <1>5 DEF PutLoop
<1> QED
  BY <1>6

\* What x has become when k of the bytes of s are put, from i on.
IsPut(x, i, s, k, y) ==
  /\ IsBuffer(y) /\ Enlarged(x, y, i + Len(s))
  /\ HasRoom(x, i + Len(s)) =>
       /\ \A j \in 0 .. x.max - 1 : j < i => y.bytes[j] = x.bytes[j]
       /\ \A j \in 1 .. k : i + j - 1 < y.max /\ y.bytes[i + j - 1] = s[j]

LEMMA PutNext ==
  ASSUME LimOK, NEW x, IsBuffer(x), NEW i \in Nat, NEW s \in Seq(Byte),
         NEW k \in 1 .. Len(s), NEW y, IsPut(x, i, s, k - 1, y)
  PROVE  IsPut(x, i, s, k, SetC(y, i + k - 1, s[k]))
<1> DEFINE p == i + k - 1
           e == s[k]
           z == SetC(y, p, e)
           n == i + Len(s)
<1>1. p \in Nat /\ e \in Byte /\ n \in Nat /\ p <= n /\ Len(s) \in Nat
  <2> HIDE DEF Byte
  <2> QED
    OBVIOUS
<1>2. IsBuffer(y) /\ Enlarged(x, y, n)
  BY DEF IsPut
<1> HIDE DEF p, e
<1>3. /\ IsBuffer(z) /\ Enlarged(y, z, p) /\ SameBut(y, z, p, p)
      /\ HasRoom(y, p) => p < z.max /\ z.bytes[p] = e
  BY <1>1, <1>2, SetCWrites
<1>4. Enlarged(x, z, n)
  BY <1>1, <1>2, <1>3 DEF Enlarged, IsBuffer
<1>5. ASSUME HasRoom(x, n)
      PROVE  /\ \A j \in 0 .. x.max - 1 : j < i => z.bytes[j] = x.bytes[j]
             /\ \A j \in 1 .. k : i + j - 1 < z.max /\ z.bytes[i + j - 1] = s[j]
  <2>1. HasRoom(y, n)
    BY <1>1, <1>2, <1>5 DEF Enlarged
  <2>2. HasRoom(y, p)
    BY <1>1, <1>2, <2>1, RoomBelow
  <2>3. /\ \A j \in 0 .. x.max - 1 : j < i => y.bytes[j] = x.bytes[j]
        /\ \A j \in 1 .. k - 1 : i + j - 1 < y.max /\ y.bytes[i + j - 1] = s[j]
    BY <1>5 DEF IsPut
  <2>4. \A j \in 0 .. y.max - 1 : j # p => z.bytes[j] = y.bytes[j]
    BY <1>1, <1>3 DEF SameBut
  <2>5. x.max \in Nat /\ y.max \in Nat /\ z.max \in Nat /\ y.max >= x.max /\ z.max >= y.max
    BY <1>2, <1>3 DEF Enlarged, IsBuffer
  <2> HIDE DEF z
  <2>6. \A j \in 0 .. x.max - 1 : j < i => z.bytes[j] = x.bytes[j]
    <3>1. i <= p
      BY DEF p
    <3>2. ASSUME NEW j \in 0 .. x.max - 1, j < i PROVE z.bytes[j] = x.bytes[j]
      <4>1. j \in 0 .. y.max - 1 /\ j # p
        BY <1>1, <2>5, <3>1, <3>2
      <4> QED
        BY <2>3, <2>4, <3>2, <4>1
    <3> QED
      BY <3>2
  <2>7. ASSUME NEW j \in 1 .. k PROVE i + j - 1 < z.max /\ z.bytes[i + j - 1] = s[j]
    <3>1. CASE j = k
      BY <1>3, <2>2, <3>1 DEF p, e
    <3>2. CASE j # k
      <4>1. j \in 1 .. k - 1 /\ i + j - 1 \in Nat /\ i + j - 1 # p
        BY <1>1, <2>7, <3>2 DEF p
      <4>2. i + j - 1 < y.max /\ y.bytes[i + j - 1] = s[j]
        BY <2>3, <4>1
      <4>3. z.bytes[i + j - 1] = y.bytes[i + j - 1]
        BY <2>4, <2>5, <4>1, <4>2
      <4> QED
        BY <1>1, <2>5, <4>1, <4>2, <4>3
    <3> QED
      BY <3>1, <3>2
  <2> QED
    BY <2>6, <2>7
<1> HIDE DEF z
<1>6. IsPut(x, i, s, k, z)
  BY <1>3, <1>4, <1>5 DEF IsPut
<1> QED
  BY <1>6 DEF z, p, e

(* What utl_buf_sets leaves: the string and its '\0', if there is room for *)
(* them; if not, no storage that would have room.                          *)
LEMMA SetSFacts ==
  ASSUME LimOK, NEW x, IsBuffer(x), NEW i \in Nat, NEW s \in Seq(Byte)
  PROVE  /\ IsPut(x, i, s, Len(s), SetS(x, i, s)) /\ SetS(x, i, s).cnt = i + Len(s)
         /\ HasRoom(x, i + Len(s)) => /\ i + Len(s) < SetS(x, i, s).max
                                      /\ SetS(x, i, s).bytes[i + Len(s)] = Nul
         /\ ~ HasRoom(x, i + Len(s)) => SetS(x, i, s).max <= i + Len(s)
<1> DEFINE put == CHOOSE f : f = [k \in 0 .. Len(s) |-> PutTurn(f, x, i, s, k)]
           n == i + Len(s)
           y == put[Len(s)]
           z == SetC(y, n, Nul)
           w == SetS(x, i, s)
<1>1. Len(s) \in Nat /\ n \in Nat /\ Nul \in Byte
  BY DEF Byte
<1>2. put = [k \in 0 .. Len(s) |-> PutTurn(put, x, i, s, k)]
  <2> DEFINE N == Len(s)
  <2>1. N \in Nat
    BY <1>1
  <2> HIDE DEF N
  <2>2. \E f : PutLoop(f, x, i, s, N)
    BY <2>1, PutExists
  <2> QED
    BY <2>2 DEF N, PutLoop
<1>3. w = [z EXCEPT !.cnt = n]
  BY DEF SetS, PutTurn
<1> HIDE DEF put
<1>4. \A k \in 0 .. Len(s) : put[k] = IF k = 0 THEN x ELSE SetC(put[k - 1], i + k - 1, s[k])
  BY <1>2 DEF PutTurn
<1>5. IsPut(x, i, s, Len(s), y)
  <2> DEFINE T == {k \in 0 .. Len(s) : ~ IsPut(x, i, s, k, put[k])}
  <2>1. SUFFICES T = {}
    BY <1>1
  <2>2. SUFFICES ASSUME T # {} PROVE FALSE
    OBVIOUS
  <2>3. PICK k \in T : \A j \in T : k <= j
    <3>1. T \subseteq Nat
      BY <1>1
    <3> HIDE DEF T
    <3> QED
      BY <2>2, <3>1, LeastNatural
  <2>4. k \in 0 .. Len(s) /\ ~ IsPut(x, i, s, k, put[k])
    OBVIOUS
  <2>5. CASE k = 0
    <3>1. put[k] = x
      BY <1>1, <1>4, <2>5
    <3>2. IsPut(x, i, s, 0, x)
      BY DEF IsPut, Enlarged, IsBuffer
    <3> QED
      BY <2>4, <2>5, <3>1, <3>2
  <2>6. CASE k # 0
    <3>1. k - 1 \in 0 .. Len(s) /\ ~ (k <= k - 1) /\ k \in 1 .. Len(s)
      BY <1>1, <2>4, <2>6
    <3>2. IsPut(x, i, s, k - 1, put[k - 1])
      BY <2>3, <3>1
    <3>3. IsPut(x, i, s, k, SetC(put[k - 1], i + k - 1, s[k]))
      BY <3>1, <3>2, PutNext
    <3>4. put[k] = SetC(put[k - 1], i + k - 1, s[k])
      BY <1>4, <2>4, <2>6
    <3> QED
      BY <2>4, <3>3, <3>4
  <2> QED
    BY <2>5, <2>6
<1> HIDE DEF y
<1>6. IsBuffer(y) /\ Enlarged(x, y, n)
  BY <1>5 DEF IsPut
<1>7. /\ IsBuffer(z) /\ Enlarged(y, z, n) /\ SameBut(y, z, n, n)
      /\ HasRoom(y, n) => n < z.max /\ z.bytes[n] = Nul
      /\ ~ HasRoom(y, n) => z = y
  BY <1>1, <1>6, SetCWrites
<1>8. HasRoom(y, n) <=> HasRoom(x, n)
  BY <1>1, <1>6 DEF Enlarged
<1> HIDE DEF z, w
<1>9. w.cnt = n /\ w.max = z.max /\ w.bytes = z.bytes /\ w = [bytes |-> w.bytes, cnt |-> w.cnt, max |-> w.max]
  BY <1>3, <1>7 DEF IsBuffer
<1>10. IsBuffer(w) /\ Enlarged(x, w, n)
  BY <1>1, <1>6, <1>7, <1>9 DEF IsBuffer, Enlarged, HasRoom
<1>11. ~ HasRoom(x, n) => w.max <= n
  BY <1>1, <1>6, <1>7, <1>8, <1>9 DEF HasRoom, IsBuffer
<1>12. \A j \in 0 .. y.max - 1 : j < n => w.bytes[j] = y.bytes[j]
  BY <1>1, <1>7, <1>9 DEF SameBut
<1>13. ASSUME HasRoom(x, n)
       PROVE  /\ \A j \in 0 .. x.max - 1 : j < i => w.bytes[j] = x.bytes[j]
              /\ \A j \in 1 .. Len(s) : i + j - 1 < w.max /\ w.bytes[i + j - 1] = s[j]
  <2>1. /\ \A j \in 0 .. x.max - 1 : j < i => y.bytes[j] = x.bytes[j]
        /\ \A j \in 1 .. Len(s) : i + j - 1 < y.max /\ y.bytes[i + j - 1] = s[j]
    BY <1>5, <1>13 DEF IsPut
  <2>2. x.max \in Nat /\ y.max \in Nat /\ w.max \in Nat /\ y.max >= x.max /\ w.max >= y.max
    BY <1>6, <1>7, <1>9 DEF Enlarged, IsBuffer
  <2>3. \A j \in 0 .. x.max - 1 : j < i => w.bytes[j] = x.bytes[j]
    BY <1>1, <1>12, <2>1, <2>2
  <2>4. ASSUME NEW j \in 1 .. Len(s)
        PROVE  i + j - 1 < w.max /\ w.bytes[i + j - 1] = s[j]
    <3>1. i + j - 1 < y.max /\ y.bytes[i + j - 1] = s[j] /\ i + j - 1 \in Nat /\ i + j - 1 < n
      BY <1>1, <2>1
    <3> QED
      BY <1>12, <2>2, <3>1
  <2> QED
    BY <2>3, <2>4
<1> HIDE DEF n
<1>14. IsPut(x, i, s, Len(s), w)
  BY <1>10, <1>13 DEF IsPut, n
<1> QED
  BY <1>7, <1>8, <1>9, <1>11, <1>14 DEF w, n

-----------------------------------------------------------------------------
(* Texts *)

\* A part of a sequence, which may be empty.
LEMMA PartIn ==
  ASSUME NEW S, NEW w \in Seq(S), NEW a \in Nat, NEW e \in Int, 1 <= a, a <= e + 1, e <= Len(w)
  PROVE  /\ SubSeq(w, a, e) \in Seq(S) /\ Len(SubSeq(w, a, e)) = e - a + 1
         /\ \A k \in 1 .. e - a + 1 : SubSeq(w, a, e)[k] = w[a + k - 1]
<1>1. \A k \in a .. e : w[k] \in S
  OBVIOUS
<1> DEFINE p == SubSeq(w, a, e)
<1>2. /\ p \in Seq(S)
      /\ Len(p) = IF a <= e THEN e - a + 1 ELSE 0
      /\ \A k \in 1 .. e - a + 1 : p[k] = w[a + k - 1]
  <2> HIDE DEF p
  <2>1. p = SubSeq(w, a, e)
    BY DEF p
  <2> QED
    BY <1>1, <2>1, SubSeqProperties
<1> HIDE DEF p
<1>3. Len(p) = e - a + 1
  BY <1>2
<1> QED
  BY <1>2, <1>3 DEF p

\* What is past the end of a sequence.
LEMMA NothingAfter ==
  ASSUME NEW S, NEW w \in Seq(S), NEW a \in Nat, a > Len(w)
  PROVE  SubSeq(w, a, Len(w)) = <<>>
<1> DEFINE p == SubSeq(w, a, Len(w))
           n == Len(w)
<1>1. n \in Nat
  OBVIOUS
<1>2. /\ p \in Seq(S) /\ Len(p) = IF a <= n THEN n - a + 1 ELSE 0
  <2>1. \A k \in a .. n : w[k] \in S
    BY <1>1
  <2>2. p = SubSeq(w, a, n)
    OBVIOUS
  <2> HIDE DEF p, n
  <2> QED
    BY <1>1, <2>1, <2>2, SubSeqProperties
<1> HIDE DEF p
<1>3. Len(p) = 0
  BY <1>1, <1>2
<1> QED
  BY <1>2, <1>3, EmptySeq DEF p

\* v is u, then w.
IsConcat(v, S, u, w) ==
  /\ v \in Seq(S) /\ Len(v) = Len(u) + Len(w)
  /\ \A k \in 1 .. Len(u) : v[k] = u[k]
  /\ \A k \in Len(u) + 1 .. Len(u) + Len(w) : v[k] = w[k - Len(u)]

LEMMA JoinedIn ==
  ASSUME NEW S, NEW u \in Seq(S), NEW w \in Seq(S)
  PROVE  IsConcat(u \o w, S, u, w)
<1> DEFINE v == u \o w
           n == Len(u)
           m == Len(w)
<1>1. /\ v \in Seq(S) /\ Len(v) = n + m
      /\ \A k \in 1 .. n + m : v[k] = IF k <= n THEN u[k] ELSE w[k - n]
  BY ConcatProperties
<1>2. n \in Nat /\ m \in Nat
  OBVIOUS
<1> HIDE DEF v, n, m
<1>3. \A k \in 1 .. n : v[k] = u[k]
  BY <1>1, <1>2
<1>4. \A k \in n + 1 .. n + m : v[k] = w[k - n]
  BY <1>1, <1>2
<1> QED
  BY <1>1, <1>3, <1>4 DEF v, n, m, IsConcat

\* v is the first i bytes of w, then s.
IsJoined(v, S, w, s, i) ==
  /\ v \in Seq(S) /\ Len(v) = i + Len(s)
  /\ \A k \in 1 .. i : v[k] = w[k]
  /\ \A k \in i + 1 .. i + Len(s) : v[k] = s[k - i]

LEMMA PutText ==
  ASSUME NEW S, NEW w \in Seq(S), NEW s \in Seq(S), NEW i \in 0 .. Len(w)
  PROVE  IsJoined(SubSeq(w, 1, i) \o s, S, w, s, i)
<1> DEFINE u == SubSeq(w, 1, i)
           v == u \o s
<1>1. Len(w) \in Nat /\ i \in Nat /\ i <= Len(w) /\ Len(s) \in Nat
  OBVIOUS
<1>2. u \in Seq(S) /\ Len(u) = i /\ \A k \in 1 .. i : u[k] = w[k]
  <2>1. /\ u \in Seq(S) /\ Len(u) = i - 1 + 1
        /\ \A k \in 1 .. i - 1 + 1 : u[k] = w[1 + k - 1]
    BY <1>1, PartIn
  <2> HIDE DEF u
  <2> QED
    BY <1>1, <2>1
<1> HIDE DEF u
<1>4. /\ v \in Seq(S) /\ Len(v) = Len(u) + Len(s)
      /\ \A k \in 1 .. Len(u) : v[k] = u[k]
      /\ \A k \in Len(u) + 1 .. Len(u) + Len(s) : v[k] = s[k - Len(u)]
  <2>1. IsConcat(v, S, u, s)
    BY <1>2, JoinedIn
  <2> HIDE DEF v
  <2> QED
    BY <2>1 DEF IsConcat
<1> HIDE DEF v
<1>5. IsJoined(v, S, w, s, i)
  BY <1>1, <1>2, <1>4 DEF IsJoined
<1> QED
  BY <1>5 DEF v, u

\* v is the first i bytes of w, then s, then the bytes of w from a on.
Spliced(v, S, w, s, i, a) ==
  /\ v \in Seq(S) /\ Len(v) = i + Len(s) + Len(w) - a + 1
  /\ \A k \in 1 .. i : v[k] = w[k]
  /\ \A k \in i + 1 .. i + Len(s) : v[k] = s[k - i]
  /\ \A k \in i + Len(s) + 1 .. Len(v) : v[k] = w[k - i - Len(s) + a - 1]

LEMMA SpliceText ==
  ASSUME NEW S, NEW w \in Seq(S), NEW s \in Seq(S), NEW i \in 0 .. Len(w),
         NEW a \in 1 .. Len(w) + 1
  PROVE  Spliced(SubSeq(w, 1, i) \o s \o SubSeq(w, a, Len(w)), S, w, s, i, a)
<1> DEFINE u == SubSeq(w, 1, i) \o s
           p == SubSeq(w, a, Len(w))
           v == u \o p
           n == Len(w)
           m == Len(s)
<1>1. n \in Nat /\ m \in Nat /\ i \in Nat /\ i <= n /\ a \in Nat /\ 1 <= a /\ a <= n + 1
  OBVIOUS
<1>2. /\ u \in Seq(S) /\ Len(u) = i + m
      /\ \A k \in 1 .. i : u[k] = w[k]
      /\ \A k \in i + 1 .. i + m : u[k] = s[k - i]
  <2>1. IsJoined(u, S, w, s, i)
    BY PutText
  <2> HIDE DEF u
  <2> QED
    BY <2>1 DEF IsJoined
<1>3. /\ p \in Seq(S) /\ Len(p) = n - a + 1
      /\ \A k \in 1 .. n - a + 1 : p[k] = w[a + k - 1]
  BY <1>1, PartIn
<1> HIDE DEF u, p
<1>5. /\ v \in Seq(S) /\ Len(v) = Len(u) + Len(p)
      /\ \A k \in 1 .. Len(u) : v[k] = u[k]
      /\ \A k \in Len(u) + 1 .. Len(u) + Len(p) : v[k] = p[k - Len(u)]
  <2>1. IsConcat(v, S, u, p)
    BY <1>2, <1>3, JoinedIn
  <2> HIDE DEF v
  <2> QED
    BY <2>1 DEF IsConcat
<1> HIDE DEF n, m, v
<1>6. Len(v) = i + m + n - a + 1
  BY <1>1, <1>2, <1>3, <1>5
<1>7. \A k \in 1 .. i : v[k] = w[k]
  BY <1>1, <1>2, <1>5
<1>8. \A k \in i + 1 .. i + m : v[k] = s[k - i]
  BY <1>1, <1>2, <1>5
<1>9. ASSUME NEW k \in i + m + 1 .. Len(v)
      PROVE  v[k] = w[k - i - m + a - 1]
  <2>1. k \in Len(u) + 1 .. Len(u) + Len(p)
    BY <1>1, <1>2, <1>3, <1>5
  <2>2. v[k] = p[k - (i + m)] /\ k - (i + m) \in 1 .. n - a + 1
    BY <1>1, <1>2, <1>3, <1>5, <2>1
  <2>3. p[k - (i + m)] = w[a + (k - (i + m)) - 1]
    BY <1>3, <2>2
  <2>4. a + (k - (i + m)) - 1 = k - i - m + a - 1
    BY <1>1, <1>6
  <2> QED
    BY <2>2, <2>3, <2>4
<1> QED
  BY <1>5, <1>6, <1>7, <1>8, <1>9 DEF n, m, u, p, v, Spliced

-----------------------------------------------------------------------------
(* The calls of a buffer *)

\* The bytes of x are those of the text w; a '\0' follows them.
HoldsText(x, w) ==
  /\ x.cnt <= x.max /\ Len(w) = x.cnt
  /\ \A k \in 0 .. x.cnt - 1 : w[k + 1] = Junk \/ x.bytes[k] = w[k + 1]

Terminated(x) == x.cnt < x.max /\ x.bytes[x.cnt] = Nul

\* A call leaves y of x; y holds w if there was room for the byte `last'.
Leaves(x, y, w, last) ==
  /\ IsBuffer(y) /\ w \in Seq(Byte)
  /\ HasRoom(x, last) => HoldsText(y, w) /\ Terminated(y)

LEMMA EndedHolds ==
  ASSUME LimOK, NEW x, IsBuffer(x), NEW w, HoldsText(x, w), HasRoom(x, x.cnt)
  PROVE  HoldsText(Ended(x), w) /\ Terminated(Ended(x))
<1> DEFINE y == Ended(x)
<1>1. /\ IsBuffer(y) /\ SameBut(x, y, x.cnt, x.cnt)
      /\ y.cnt = x.cnt /\ x.cnt < y.max /\ y.bytes[x.cnt] = Nul
  BY EndedFacts
<1> HIDE DEF y
<1>2. \A k \in 0 .. x.cnt - 1 : y.bytes[k] = x.bytes[k]
  BY <1>1 DEF SameBut, HoldsText, IsBuffer
<1>3. HoldsText(y, w)
  BY <1>1, <1>2 DEF HoldsText, IsBuffer
<1>4. Terminated(y)
  BY <1>1 DEF Terminated
<1> QED
  BY <1>3, <1>4 DEF y

LEMMA SetSLeaves ==
  ASSUME LimOK, NEW x, IsBuffer(x), NEW w \in Seq(Byte), HoldsText(x, w), NEW i \in 0 .. x.cnt,
         NEW s \in Seq(Byte)
  PROVE  Leaves(x, SetS(x, i, s), SubSeq(w, 1, i) \o s, i + Len(s))
<1> DEFINE y == SetS(x, i, s)
           v == SubSeq(w, 1, i) \o s
           n == Len(s)
<1>1. n \in Nat /\ i \in Nat /\ x.cnt \in Nat /\ x.max \in Nat /\ i <= x.cnt
      /\ x.cnt <= x.max /\ Len(w) = x.cnt
  BY DEF IsBuffer, HoldsText
<1>2. /\ v \in Seq(Byte) /\ Len(v) = i + n
      /\ \A k \in 1 .. i : v[k] = w[k]
      /\ \A k \in i + 1 .. i + n : v[k] = s[k - i]
  <2>1. IsJoined(v, Byte, w, s, i)
    BY <1>1, PutText
  <2> HIDE DEF v
  <2> QED
    BY <2>1 DEF IsJoined
<1>3. /\ IsPut(x, i, s, n, y) /\ y.cnt = i + n
      /\ HasRoom(x, i + n) => i + n < y.max /\ y.bytes[i + n] = Nul
  BY <1>1, SetSFacts
<1>4. IsBuffer(y)
  BY <1>3 DEF IsPut
<1> HIDE DEF v, y
<1>5. ASSUME HasRoom(x, i + n) PROVE HoldsText(y, v) /\ Terminated(y)
  <2>1. /\ \A j \in 0 .. x.max - 1 : j < i => y.bytes[j] = x.bytes[j]
        /\ \A j \in 1 .. n : y.bytes[i + j - 1] = s[j]
    BY <1>3, <1>5 DEF IsPut
  <2> HIDE DEF n
  <2>2. ASSUME NEW k \in 0 .. i + n - 1 PROVE v[k + 1] = Junk \/ y.bytes[k] = v[k + 1]
    <3>1. CASE k < i
      <4>1. k + 1 \in 1 .. i /\ k \in 0 .. x.cnt - 1 /\ k \in 0 .. x.max - 1
        BY <1>1, <3>1
      <4>2. v[k + 1] = w[k + 1] /\ y.bytes[k] = x.bytes[k]
        BY <1>2, <2>1, <3>1, <4>1
      <4> QED
        BY <4>1, <4>2 DEF HoldsText
    <3>2. CASE ~ (k < i)
      <4> DEFINE m == k + 1
                 j == m - i
      <4>1. j \in 1 .. n /\ i + j - 1 = k /\ m \in i + 1 .. i + n
        BY <1>1, <3>2
      <4> HIDE DEF m
      <4>2. v[m] = s[j]
        BY <1>2, <4>1
      <4> HIDE DEF j
      <4>3. y.bytes[k] = v[m]
        BY <2>1, <4>1, <4>2
      <4> QED
        BY <4>3 DEF m
    <3> QED
      BY <3>1, <3>2
  <2>3. i + n < y.max /\ y.bytes[i + n] = Nul /\ y.max \in Nat
    BY <1>3, <1>4, <1>5 DEF IsBuffer
  <2>4. HoldsText(y, v)
    BY <1>1, <1>2, <1>3, <2>2, <2>3 DEF HoldsText
  <2> QED
    BY <1>3, <2>3, <2>4 DEF Terminated
<1>6. Leaves(x, y, v, i + n)
  BY <1>2, <1>4, <1>5 DEF Leaves
<1> QED
  BY <1>6 DEF y, v

LEMMA AddCLeaves ==
  ASSUME LimOK, NEW x, IsBuffer(x), NEW w \in Seq(Byte), HoldsText(x, w), NEW e \in Byte
  PROVE  Leaves(x, Ended(SetC(x, x.cnt, e)), Append(w, e), x.cnt + 1)
<1> DEFINE y == SetC(x, x.cnt, e)
           z == Ended(y)
           v == Append(w, e)
           n == x.cnt
<1>1. n \in Nat /\ x.max \in Nat /\ n <= x.max /\ Len(w) = n
  BY DEF IsBuffer, HoldsText
<1>2. v \in Seq(Byte) /\ Len(v) = n + 1 /\ (\A k \in 1 .. n : v[k] = w[k]) /\ v[n + 1] = e
  BY <1>1, AppendProperties
<1>3. /\ IsBuffer(y) /\ Enlarged(x, y, n) /\ SameBut(x, y, n, n)
      /\ HasRoom(x, n) => y.cnt = Larger(n, n + 1) /\ n < y.max /\ y.bytes[n] = e
  BY <1>1, SetCWrites
<1> HIDE DEF y, v
<1>4. IsBuffer(z)
  BY <1>3, EndedFacts
<1>5. ASSUME HasRoom(x, n + 1) PROVE HoldsText(z, v) /\ Terminated(z)
  <2>1. HasRoom(x, n)
    BY <1>1, <1>5, RoomBelow
  <2>2. y.cnt = n + 1 /\ n < y.max /\ y.bytes[n] = e /\ y.max \in Nat
    BY <1>1, <1>3, <2>1 DEF Larger, IsBuffer
  <2>3. HasRoom(y, y.cnt)
    BY <1>1, <1>3, <1>5, <2>2 DEF Enlarged
  <2>4. \A k \in 0 .. n - 1 : y.bytes[k] = x.bytes[k]
    BY <1>1, <1>3 DEF SameBut
  <2>5. ASSUME NEW k \in 0 .. n PROVE v[k + 1] = Junk \/ y.bytes[k] = v[k + 1]
    <3>1. CASE k = n
      BY <1>2, <2>2, <3>1
    <3>2. CASE k # n
      <4>1. k \in 0 .. n - 1 /\ k + 1 \in 1 .. n
        BY <1>1, <2>5, <3>2
      <4>2. v[k + 1] = w[k + 1] /\ y.bytes[k] = x.bytes[k]
        BY <1>2, <2>4, <4>1
      <4> QED
        BY <4>1, <4>2 DEF HoldsText
    <3> QED
      BY <3>1, <3>2
  <2>6. HoldsText(y, v)
    BY <1>1, <1>2, <2>2, <2>5 DEF HoldsText
  <2> QED
    BY <1>3, <2>3, <2>6, EndedHolds
<1> HIDE DEF z
<1>6. Leaves(x, z, v, n + 1)
  BY <1>2, <1>4, <1>5 DEF Leaves
<1> QED
  BY <1>6 DEF z, y, v

LEMMA InsLeaves ==
  ASSUME LimOK, NEW x, IsBuffer(x), NEW w \in Seq(Byte), HoldsText(x, w), NEW i \in 0 .. x.cnt,
         NEW s \in Seq(Byte), HasRoom(x, x.cnt + Len(s))
  PROVE  /\ Leaves(x, InsS(x, i, s),
                   IF i < x.cnt THEN SubSeq(w, 1, i) \o s \o SubSeq(w, i + 1, Len(w)) ELSE w,
                   x.cnt + Len(s))
         /\ ~ (i < x.cnt) => InsS(x, i, s).cnt = x.cnt
<1> DEFINE n == Len(s)
           m == x.cnt
           r == Roomy(x, m + n)
           gap == IF i >= m THEN r
                  ELSE [r EXCEPT !.cnt = @ + n,
                                 !.bytes = [k \in DOMAIN @ |->
                                    IF k >= i + n /\ k < m + n THEN @[k - n] ELSE @[k]]]
           y == Written(gap, i, s)
           z == Ended(y)
           v == IF i < m THEN SubSeq(w, 1, i) \o s \o SubSeq(w, i + 1, Len(w)) ELSE w
<1>1. n \in Nat /\ m \in Nat /\ i \in Nat /\ i <= m /\ m <= x.max /\ x.max \in Nat /\ Len(w) = m
  BY DEF IsBuffer, HoldsText
<1>2. InsS(x, i, s) = z
  BY DEF InsS
<1>3. /\ IsBuffer(r) /\ r.cnt = m /\ m + n < r.max
      /\ \A k \in 0 .. x.max - 1 : r.bytes[k] = x.bytes[k]
  BY <1>1, RoomyFits
<1>4. /\ i < m => /\ v \in Seq(Byte) /\ Len(v) = m + n
                  /\ \A k \in 1 .. i : v[k] = w[k]
                  /\ \A k \in i + 1 .. i + n : v[k] = s[k - i]
                  /\ \A k \in i + n + 1 .. m + n : v[k] = w[k - n]
      /\ ~ (i < m) => v = w
  <2>1. CASE i < m
    <3> DEFINE u == SubSeq(w, 1, i) \o s \o SubSeq(w, i + 1, Len(w))
    <3>1. i \in 0 .. Len(w) /\ i + 1 \in 1 .. Len(w) + 1
      BY <1>1, <2>1
    <3>2. /\ u \in Seq(Byte) /\ Len(u) = i + n + Len(w) - (i + 1) + 1
          /\ \A k \in 1 .. i : u[k] = w[k]
          /\ \A k \in i + 1 .. i + n : u[k] = s[k - i]
          /\ \A k \in i + n + 1 .. Len(u) : u[k] = w[k - i - n + (i + 1) - 1]
      <4>1. Spliced(u, Byte, w, s, i, i + 1)
        BY <3>1, SpliceText
      <4> HIDE DEF u
      <4> QED
        BY <4>1 DEF Spliced
    <3>3. v = u
      BY <2>1
    <3> HIDE DEF u, v, n, m
    <3>4. Len(u) = m + n
      BY <1>1, <3>2
    <3>5. \A k \in i + n + 1 .. m + n : k - i - n + (i + 1) - 1 = k - n
      BY <1>1
    <3>6. \A k \in i + n + 1 .. m + n : u[k] = w[k - n]
      BY <3>2, <3>4, <3>5
    <3> QED
      BY <2>1, <3>2, <3>3, <3>4, <3>6
  <2>2. CASE ~ (i < m)
    BY <2>2
  <2> QED
    BY <2>1, <2>2
<1>5. /\ IsBuffer(gap) /\ gap.max = r.max
      /\ gap.cnt = IF i < m THEN m + n ELSE m
      /\ \A k \in 0 .. i - 1 : gap.bytes[k] = x.bytes[k]
      /\ i < m => \A k \in i + n .. m + n - 1 : gap.bytes[k] = x.bytes[k - n]
  <2>1. CASE i >= m
    <3>1. gap = r
      BY <2>1
    <3> HIDE DEF gap, r
    <3> QED
      BY <1>1, <1>3, <2>1, <3>1
  <2>2. CASE ~ (i >= m)
    <3>1. gap = [r EXCEPT !.cnt = @ + n,
                          !.bytes = [k \in DOMAIN @ |->
                             IF k >= i + n /\ k < m + n THEN @[k - n] ELSE @[k]]]
      BY <2>2
    <3> HIDE DEF gap, r
    <3>2. /\ gap = [bytes |-> gap.bytes, cnt |-> gap.cnt, max |-> gap.max]
          /\ gap.cnt = m + n /\ gap.max = r.max
          /\ gap.bytes = [k \in 0 .. r.max - 1 |->
                            IF k >= i + n /\ k < m + n THEN r.bytes[k - n] ELSE r.bytes[k]]
      BY <1>3, <3>1 DEF IsBuffer
    <3>3. \A k \in 0 .. r.max - 1 : r.bytes[k] \in Byte
      BY <1>3 DEF IsBuffer
    <3>4. r.max \in Nat \ {0}
      BY <1>3 DEF IsBuffer
    <3> HIDE DEF m, n
    <3>5. \A k \in 0 .. r.max - 1 : k >= i + n /\ k < m + n => k - n \in 0 .. r.max - 1
      BY <1>1, <3>4
    <3>6. gap.bytes \in [0 .. r.max - 1 -> Byte]
      BY <3>2, <3>3, <3>5
    <3>7. IsBuffer(gap)
      BY <1>1, <3>2, <3>4, <3>6 DEF IsBuffer
    <3>8. \A k \in 0 .. i - 1 : gap.bytes[k] = x.bytes[k]
      BY <1>1, <1>3, <2>2, <3>2, <3>4
    <3>9. ASSUME NEW k \in i + n .. m + n - 1 PROVE gap.bytes[k] = x.bytes[k - n]
      <4>1. k \in 0 .. r.max - 1 /\ k >= i + n /\ k < m + n /\ k - n \in 0 .. x.max - 1
        BY <1>1, <1>3, <3>4
      <4> QED
        BY <1>3, <3>2, <4>1
    <3>10. i < m
      BY <1>1, <2>2
    <3> QED
      BY <3>2, <3>7, <3>8, <3>9, <3>10
  <2> QED
    BY <2>1, <2>2
<1> HIDE DEF r, gap, v
<1>55. IsBuffer(gap) /\ i \in Nat
  BY <1>1, <1>5
<1>6. /\ IsBuffer(y) /\ y.max = r.max /\ y.cnt = gap.cnt
      /\ SameBut(gap, y, i, i + n - 1)
      /\ \A k \in 0 .. gap.max - 1 : k \in i .. i + n - 1 => y.bytes[k] = s[k - i + 1]
  <2>1. IsWritten(gap, i, s, y)
    BY <1>55, WrittenFacts
  <2> HIDE DEF y
  <2> QED
    BY <1>5, <2>1 DEF IsWritten
<1> HIDE DEF y
<1>7. IsBuffer(z)
  BY <1>6, EndedFacts
<1> HIDE DEF n, m
<1>8. r.max \in Nat /\ y.cnt \in Nat /\ y.cnt < r.max
  BY <1>1, <1>3, <1>5, <1>6 DEF IsBuffer
<1>9. \A k \in 0 .. i - 1 : y.bytes[k] = x.bytes[k]
  <2>1. \A k \in 0 .. i - 1 : k \in 0 .. gap.max - 1 /\ k \notin i .. i + n - 1
    BY <1>1, <1>3, <1>5, <1>8
  <2> QED
    BY <1>5, <1>6, <2>1 DEF SameBut
<1>10. CASE i < m
  <2>1. \A k \in i .. i + n - 1 : y.bytes[k] = s[k - i + 1]
    BY <1>1, <1>3, <1>5, <1>6, <1>8
  <2>2. ASSUME NEW k \in i + n .. m + n - 1 PROVE y.bytes[k] = x.bytes[k - n]
    <3>1. k \in 0 .. gap.max - 1 /\ k \notin i .. i + n - 1
      BY <1>1, <1>3, <1>5, <1>8
    <3>2. y.bytes[k] = gap.bytes[k]
      BY <1>6, <3>1 DEF SameBut
    <3> QED
      BY <1>5, <1>10, <3>2
  <2>3. ASSUME NEW k \in 0 .. m + n - 1 PROVE v[k + 1] = Junk \/ y.bytes[k] = v[k + 1]
    <3> DEFINE q == k + 1
    <3>1. CASE k < i
      <4>1. q \in 1 .. i /\ k \in 0 .. i - 1 /\ k \in 0 .. m - 1
        BY <1>1, <3>1
      <4> HIDE DEF q
      <4>2. v[q] = w[q] /\ y.bytes[k] = x.bytes[k]
        BY <1>4, <1>9, <1>10, <4>1
      <4>3. w[q] = Junk \/ x.bytes[k] = w[q]
        BY <4>1 DEF HoldsText, q, m
      <4> QED
        BY <4>2, <4>3 DEF q
    <3>2. CASE k >= i /\ k < i + n
      <4>1. q \in i + 1 .. i + n /\ k \in i .. i + n - 1 /\ q - i = k - i + 1
        BY <1>1, <3>2
      <4> HIDE DEF q
      <4>2. v[q] = s[q - i] /\ y.bytes[k] = s[k - i + 1]
        BY <1>4, <1>10, <2>1, <4>1
      <4> QED
        BY <4>1, <4>2 DEF q
    <3>3. CASE k >= i + n
      <4>1. /\ q \in i + n + 1 .. m + n /\ k \in i + n .. m + n - 1
            /\ q - n = (k - n) + 1 /\ k - n \in 0 .. m - 1
        <5>1. k \in Nat /\ k <= m + n - 1
          BY <1>1, <2>3
        <5>2. q \in i + n + 1 .. m + n
          BY <1>1, <3>3, <5>1
        <5>3. k \in i + n .. m + n - 1 /\ k - n \in 0 .. m - 1
          BY <1>1, <3>3, <5>1
        <5> QED
          BY <1>1, <5>1, <5>2, <5>3
      <4> HIDE DEF q
      <4>2. v[q] = w[q - n] /\ y.bytes[k] = x.bytes[k - n]
        BY <1>4, <1>10, <2>2, <4>1
      <4>3. w[(k - n) + 1] = Junk \/ x.bytes[k - n] = w[(k - n) + 1]
        BY <4>1 DEF HoldsText, m
      <4> QED
        BY <4>1, <4>2, <4>3 DEF q
    <3> QED
      BY <1>1, <3>1, <3>2, <3>3
  <2>4. HoldsText(y, v)
    BY <1>1, <1>4, <1>5, <1>6, <1>8, <1>10, <2>3 DEF HoldsText
  <2>5. HasRoom(y, y.cnt)
    BY <1>6, <1>8 DEF HasRoom
  <2>6. HoldsText(z, v) /\ Terminated(z)
    BY <1>6, <2>4, <2>5, EndedHolds
  <2> HIDE DEF z
  <2> QED
    BY <1>2, <1>4, <1>7, <1>10, <2>6 DEF Leaves, v, n, m
<1>11. CASE ~ (i < m)
  <2>1. i = m /\ y.cnt = m
    BY <1>1, <1>5, <1>6, <1>11
  <2>2. \A k \in 0 .. m - 1 : w[k + 1] = Junk \/ x.bytes[k] = w[k + 1]
    BY DEF HoldsText, m
  <2>3. HoldsText(y, w)
    BY <1>1, <1>6, <1>8, <1>9, <2>1, <2>2 DEF HoldsText
  <2>4. HasRoom(y, y.cnt)
    BY <1>6, <1>8 DEF HasRoom
  <2>5. HoldsText(z, w) /\ Terminated(z)
    BY <1>6, <2>3, <2>4, EndedHolds
  <2> HIDE DEF z
  <2>6. z.cnt = m
    BY <1>1, <2>5 DEF HoldsText
  <2> QED
    BY <1>2, <1>4, <1>7, <1>11, <2>5, <2>6 DEF Leaves, v, n, m
<1> QED
  BY <1>10, <1>11

\* The first bytes of a text, where they are.
LEMMA FirstBytes ==
  ASSUME NEW x, IsBuffer(x), NEW w, HoldsText(x, w), NEW i \in 0 .. x.cnt, NEW v,
         \A k \in 1 .. i : v[k] = w[k]
  PROVE  \A k \in 0 .. i - 1 : v[k + 1] = Junk \/ x.bytes[k] = v[k + 1]
<1> SUFFICES ASSUME NEW k \in 0 .. i - 1
             PROVE  v[k + 1] = Junk \/ x.bytes[k] = v[k + 1]
  OBVIOUS
<1>1. k + 1 \in 1 .. i /\ k \in 0 .. x.cnt - 1
  BY DEF IsBuffer
<1>2. v[k + 1] = w[k + 1]
  BY <1>1
<1> QED
  BY <1>1, <1>2 DEF HoldsText

LEMMA CutLeaves ==
  ASSUME LimOK, NEW x, IsBuffer(x), NEW w \in Seq(Byte), HoldsText(x, w), NEW i \in 0 .. x.cnt,
         NEW j \in 0 .. x.cnt, i <= j
  PROVE  Leaves(x, Cut(x, i, j), SubSeq(w, 1, i) \o SubSeq(w, j + 2, Len(w)),
                IF i >= x.cnt THEN x.cnt ELSE i)
<1> DEFINE m == x.cnt
           d == j - i + 1
           last == IF i >= m THEN m ELSE i
           y == IF i >= m THEN x
                ELSE IF j + 1 >= m THEN [x EXCEPT !.cnt = i]
                ELSE [x EXCEPT !.cnt = @ - d,
                               !.bytes = [k \in DOMAIN @ |->
                                 IF k >= i /\ k < m - d THEN @[k + d] ELSE @[k]]]
           z == Ended(y)
           tail == SubSeq(w, j + 2, Len(w))
           v == SubSeq(w, 1, i) \o tail
<1>1. /\ m \in Nat /\ i \in Nat /\ j \in Nat /\ i <= j /\ j <= m /\ m <= x.max /\ x.max \in Nat \ {0}
      /\ Len(w) = m /\ d \in Nat
  BY DEF IsBuffer, HoldsText
<1>2. Cut(x, i, j) = z
  BY DEF Cut
<1>3. tail \in Seq(Byte) /\ Len(tail) = (IF j + 1 >= m THEN 0 ELSE m - j - 1)
      /\ \A k \in 1 .. Len(tail) : tail[k] = w[j + 1 + k]
  <2>1. CASE j + 1 >= m
    <3>1. tail = <<>>
      BY <1>1, <2>1, NothingAfter
    <3> HIDE DEF tail
    <3> QED
      BY <2>1, <3>1
  <2>2. CASE ~ (j + 1 >= m)
    <3> DEFINE a == j + 2
               e == Len(w)
    <3>1. a \in Nat /\ e \in Int /\ 1 <= a /\ a <= e + 1 /\ e <= Len(w) /\ e = m
      BY <1>1, <2>2
    <3>2. tail = SubSeq(w, a, e)
      OBVIOUS
    <3> HIDE DEF a, e
    <3> HIDE DEF tail
    <3>3. /\ tail \in Seq(Byte) /\ Len(tail) = e - a + 1
          /\ \A k \in 1 .. e - a + 1 : tail[k] = w[a + k - 1]
      <4>1. /\ SubSeq(w, a, e) \in Seq(Byte) /\ Len(SubSeq(w, a, e)) = e - a + 1
            /\ \A k \in 1 .. e - a + 1 : SubSeq(w, a, e)[k] = w[a + k - 1]
        BY <3>1, PartIn
      <4> QED
        BY <3>2, <4>1
    <3>4. e - a + 1 = m - j - 1 /\ \A k \in 1 .. m - j - 1 : a + k - 1 = j + 1 + k
      BY <1>1, <3>1 DEF a
    <3> HIDE DEF m
    <3>5. Len(tail) = m - j - 1
      BY <3>3, <3>4
    <3>6. \A k \in 1 .. Len(tail) : tail[k] = w[j + 1 + k]
      BY <3>3, <3>4, <3>5
    <3> QED
      BY <2>2, <3>3, <3>5, <3>6
  <2> QED
    BY <2>1, <2>2
<1> HIDE DEF tail
<1>4. /\ v \in Seq(Byte) /\ Len(v) = i + Len(tail)
      /\ \A k \in 1 .. i : v[k] = w[k]
      /\ \A k \in i + 1 .. i + Len(tail) : v[k] = tail[k - i]
  <2>1. IsJoined(v, Byte, w, tail, i)
    BY <1>1, <1>3, PutText
  <2> HIDE DEF v
  <2> QED
    BY <2>1 DEF IsJoined
<1> HIDE DEF v
<1>5. IsBuffer(y) /\ (HasRoom(x, last) => HoldsText(y, v) /\ HasRoom(y, y.cnt))
  <2>1. CASE i >= m
    <3>1. y = x /\ i = m /\ last = m
      BY <1>1, <2>1
    <3>2. Len(tail) = 0 /\ Len(v) = m
      BY <1>1, <1>3, <1>4, <3>1
    <3> HIDE DEF y, last
    <3>3. i \in 0 .. x.cnt
      OBVIOUS
    <3>4. \A k \in 0 .. i - 1 : v[k + 1] = Junk \/ x.bytes[k] = v[k + 1]
      BY <1>4, <3>3, FirstBytes
    <3>5. x.cnt <= x.max /\ Len(v) = x.cnt /\ i = x.cnt
      BY <1>1, <3>1, <3>2
    <3>6. HoldsText(x, v)
      <4> HIDE DEF m
      <4> QED
        BY <3>4, <3>5 DEF HoldsText
    <3> QED
      BY <3>1, <3>6
  <2>2. CASE i < m /\ j + 1 >= m
    <3>1. y = [x EXCEPT !.cnt = i]
      BY <1>1, <2>2
    <3> HIDE DEF y, last
    <3>2. y.cnt = i /\ y.max = x.max /\ y.bytes = x.bytes /\ IsBuffer(y)
      BY <1>1, <3>1 DEF IsBuffer
    <3>3. Len(v) = i
      BY <1>1, <1>3, <1>4, <2>2
    <3>4. \A k \in 0 .. i - 1 : v[k + 1] = Junk \/ x.bytes[k] = v[k + 1]
      <4>1. \A k \in 1 .. i : v[k] = w[k]
        BY <1>4
      <4> QED
        BY <4>1, FirstBytes
    <3>45. HoldsText(y, v)
      BY <1>1, <2>2, <3>2, <3>3, <3>4 DEF HoldsText
    <3>5. HasRoom(y, y.cnt)
      BY <1>1, <2>2, <3>2 DEF HasRoom
    <3> QED
      BY <3>2, <3>45, <3>5
  <2>3. CASE ~ (j + 1 >= m)
    <3>1. y = [x EXCEPT !.cnt = @ - d,
                        !.bytes = [k \in DOMAIN @ |->
                          IF k >= i /\ k < m - d THEN @[k + d] ELSE @[k]]]
      BY <1>1, <2>3
    <3>2. m - d \in Nat /\ m - d < m /\ i <= m - d /\ m - d = i + (m - j - 1)
      BY <1>1, <2>3
    <3> HIDE DEF y, last
    <3>3. /\ y = [bytes |-> y.bytes, cnt |-> y.cnt, max |-> y.max]
          /\ y.cnt = m - d /\ y.max = x.max
          /\ y.bytes = [k \in 0 .. x.max - 1 |->
                          IF k >= i /\ k < m - d THEN x.bytes[k + d] ELSE x.bytes[k]]
      BY <3>1 DEF IsBuffer
    <3>4. \A k \in 0 .. x.max - 1 : x.bytes[k] \in Byte
      BY DEF IsBuffer
    <3>5. \A k \in 0 .. x.max - 1 : k < m - d => k + d \in 0 .. x.max - 1
      BY <1>1
    <3>6. y.bytes \in [0 .. x.max - 1 -> Byte]
      BY <3>3, <3>4, <3>5
    <3>7. IsBuffer(y)
      BY <1>1, <3>2, <3>3, <3>6 DEF IsBuffer
    <3>8. Len(v) = m - d
      BY <1>1, <1>3, <1>4, <2>3
    <3>9. d = j - i + 1
      OBVIOUS
    <3> HIDE DEF d, m
    <3>10. ASSUME NEW k \in 0 .. m - d - 1 PROVE v[k + 1] = Junk \/ y.bytes[k] = v[k + 1]
      <4> DEFINE q == k + 1
      <4>1. k \in 0 .. x.max - 1 /\ q \in Nat
        BY <1>1, <3>2
      <4>2. CASE k < i
        <5>1. q \in 1 .. i /\ k \in 0 .. m - 1
          BY <1>1, <3>2, <4>2
        <5>2. w[k + 1] = Junk \/ x.bytes[k] = w[k + 1]
          BY <5>1 DEF HoldsText, m
        <5> HIDE DEF q
        <5>3. v[q] = w[q] /\ y.bytes[k] = x.bytes[k]
          BY <1>1, <1>4, <3>3, <4>1, <4>2, <5>1
        <5> QED
          BY <5>2, <5>3 DEF q
      <4>3. CASE k >= i
        <5>1. k \in Nat /\ k + d \in 0 .. m - 1
          BY <1>1, <3>2, <3>10
        <5>2. q \in i + 1 .. i + Len(tail)
          BY <1>1, <1>4, <3>2, <3>8, <3>10, <4>3
        <5>3. q - i \in 1 .. Len(tail)
          BY <1>1, <1>4, <3>8, <5>2
        <5>4. j + 1 + (q - i) = (k + d) + 1
          BY <1>1, <3>9, <5>1
        <5> HIDE DEF q
        <5>5. v[q] = w[j + 1 + (q - i)]
          BY <1>3, <1>4, <5>2, <5>3
        <5>6. y.bytes[k] = x.bytes[k + d]
          BY <3>2, <3>3, <3>10, <4>1, <4>3
        <5>7. w[(k + d) + 1] = Junk \/ x.bytes[k + d] = w[(k + d) + 1]
          BY <5>1 DEF HoldsText, m
        <5> QED
          BY <5>4, <5>5, <5>6, <5>7 DEF q
      <4> QED
        BY <1>1, <3>2, <4>2, <4>3
    <3>105. y.cnt = m - d /\ y.cnt <= y.max /\ Len(v) = y.cnt
      BY <1>1, <3>2, <3>3, <3>8
    <3>11. HoldsText(y, v)
      BY <3>10, <3>105 DEF HoldsText
    <3>12. HasRoom(y, y.cnt)
      BY <1>1, <3>2, <3>3 DEF HasRoom
    <3> QED
      BY <3>7, <3>11, <3>12
  <2> QED
    BY <1>1, <2>1, <2>2, <2>3
<1> HIDE DEF y, last
<1>6. IsBuffer(z)
  BY <1>5, EndedFacts
<1>7. HasRoom(x, last) => HoldsText(z, v) /\ Terminated(z)
  BY <1>5, EndedHolds
<1> HIDE DEF z
<1>8. Leaves(x, z, v, last)
  BY <1>4, <1>6, <1>7 DEF Leaves
<1> QED
  BY <1>2, <1>8 DEF v, tail, last

LEMMA CountSet ==
  ASSUME NEW y, IsBuffer(y), NEW n \in Nat
  PROVE  /\ IsBuffer([y EXCEPT !.cnt = n]) /\ [y EXCEPT !.cnt = n].cnt = n
         /\ [y EXCEPT !.cnt = n].max = y.max /\ [y EXCEPT !.cnt = n].bytes = y.bytes
BY DEF IsBuffer

LEMMA FmtLeaves ==
  ASSUME LimOK, NEW x, IsBuffer(x), NEW w \in Seq(Byte), HoldsText(x, w), NEW i \in 0 .. x.cnt,
         NEW s \in Seq(Byte), s # <<>>
  PROVE  Leaves(x, Fmt(x, i, s), SubSeq(w, 1, i) \o s, i + Len(s) + 1)
<1> DEFINE n == Len(s)
           last == i + n + 1
           u == Append(s, Nul)
           y == SetC(x, last, Nul)
           g == Written(y, i, u)
           z == [g EXCEPT !.cnt = i + n]
           v == SubSeq(w, 1, i) \o s
<1>1. /\ n \in Nat /\ i \in Nat /\ last \in Nat /\ i + n \in Nat /\ x.cnt \in Nat /\ x.max \in Nat
      /\ i <= x.cnt /\ x.cnt <= x.max /\ Len(w) = x.cnt
  BY DEF IsBuffer, HoldsText
<1>2. Fmt(x, i, s) = z
  BY DEF Fmt
<1>3. Nul \in Byte
  BY DEF Byte
<1>4. /\ u \in Seq(Byte) /\ Len(u) = n + 1 /\ u[n + 1] = Nul
      /\ \A k \in 1 .. n : u[k] = s[k]
  BY <1>3, AppendProperties
<1>5. /\ v \in Seq(Byte) /\ Len(v) = i + n
      /\ \A k \in 1 .. i : v[k] = w[k]
      /\ \A k \in i + 1 .. i + n : v[k] = s[k - i]
  <2>1. IsJoined(v, Byte, w, s, i)
    BY <1>1, PutText
  <2> HIDE DEF v
  <2> QED
    BY <2>1 DEF IsJoined
<1>6. /\ IsBuffer(y) /\ Enlarged(x, y, last) /\ SameBut(x, y, last, last)
      /\ HasRoom(x, last) => last < y.max
  BY <1>1, <1>3, SetCWrites
<1> HIDE DEF u, v, y
<1>7. IsWritten(y, i, u, g)
  BY <1>1, <1>4, <1>6, WrittenFacts
<1>8. IsBuffer(g)
  BY <1>7 DEF IsWritten
<1> HIDE DEF g
<1>9. IsBuffer(z) /\ z.cnt = i + n /\ z.max = g.max /\ z.bytes = g.bytes
  <2> DEFINE c == i + n
  <2>1. c \in Nat
    BY <1>1
  <2> HIDE DEF c
  <2>2. LET r == [g EXCEPT !.cnt = c] IN
        IsBuffer(r) /\ r.cnt = c /\ r.max = g.max /\ r.bytes = g.bytes
    BY <1>8, <2>1, CountSet
  <2> QED
    BY <2>2 DEF c
<1> HIDE DEF z, n
<1>10. ASSUME HasRoom(x, last) PROVE HoldsText(z, v) /\ Terminated(z)
  <2>1. last < y.max /\ y.max \in Nat /\ y.max >= x.max /\ z.max = y.max
    BY <1>6, <1>7, <1>9, <1>10 DEF IsBuffer, Enlarged, IsWritten
  <2>2. \A k \in i .. i + n : z.bytes[k] = u[k - i + 1]
    <3> SUFFICES ASSUME NEW k \in i .. i + n PROVE z.bytes[k] = u[k - i + 1]
      OBVIOUS
    <3>1. k \in 0 .. y.max - 1 /\ k \in i .. i + Len(u) - 1
      BY <1>1, <1>4, <2>1
    <3> QED
      BY <1>7, <1>9, <3>1 DEF IsWritten
  <2>3. ASSUME NEW k \in 0 .. i - 1 PROVE z.bytes[k] = x.bytes[k]
    <3>1. /\ k \in 0 .. x.max - 1 /\ k \in 0 .. y.max - 1 /\ k \notin last .. last
          /\ k \notin i .. i + Len(u) - 1
      BY <1>1, <1>4, <2>1, <2>3
    <3> QED
      BY <1>6, <1>7, <1>9, <3>1 DEF SameBut, IsWritten
  <2> DEFINE e == i + n
  <2>4. ASSUME NEW k \in 0 .. e - 1 PROVE v[k + 1] = Junk \/ z.bytes[k] = v[k + 1]
    <3> DEFINE q == k + 1
    <3>1. CASE k < i
      <4>1. \A j \in 1 .. i : v[j] = w[j]
        BY <1>5
      <4>2. v[k + 1] = Junk \/ x.bytes[k] = v[k + 1]
        BY <1>1, <3>1, <4>1, FirstBytes
      <4> QED
        BY <1>1, <2>3, <3>1, <4>2
    <3>2. CASE k >= i
      <4>0. k \in Nat /\ k <= i + n - 1
        BY <1>1
      <4>1. q \in i + 1 .. i + n /\ k \in i .. i + n /\ q - i \in 1 .. n /\ k - i + 1 = q - i
        BY <1>1, <3>2, <4>0
      <4> HIDE DEF q
      <4>2. v[q] = s[q - i] /\ u[q - i] = s[q - i]
        BY <1>4, <1>5, <4>1
      <4>3. z.bytes[k] = u[k - i + 1]
        BY <2>2, <4>1
      <4> QED
        BY <4>1, <4>2, <4>3 DEF q
    <3> QED
      BY <1>1, <3>1, <3>2
  <2>5. z.cnt = e /\ z.cnt <= z.max /\ Len(v) = z.cnt /\ i \in Nat /\ e \in i .. e /\ e - i = n
    BY <1>1, <1>5, <1>9, <2>1
  <2>6. \A k \in i .. e : z.bytes[k] = u[k - i + 1]
    BY <2>2
  <2> HIDE DEF e
  <2>7. HoldsText(z, v)
    BY <2>5, <2>4 DEF HoldsText
  <2>8. z.bytes[e] = u[e - i + 1]
    BY <2>5, <2>6
  <2>9. z.cnt < z.max
    BY <1>1, <1>9, <2>1
  <2> QED
    BY <1>4, <2>5, <2>7, <2>8, <2>9 DEF Terminated
<1>11. Leaves(x, z, v, last)
  BY <1>5, <1>9, <1>10 DEF Leaves
<1> QED
  BY <1>2, <1>11 DEF v, n, last

LEMMA ReadLeaves ==
  ASSUME LimOK, NEW x, IsBuffer(x), NEW w \in Seq(Byte), HoldsText(x, w), NEW i \in 0 .. x.cnt,
         NEW s \in Seq(Byte), NEW n \in Nat, Len(s) <= n
  PROVE  Leaves(x, Read(x, i, n, s), SubSeq(w, 1, i) \o (s \o [k \in 1 .. n - Len(s) |-> Junk]),
                i + n + 1)
<1> DEFINE m == Len(s)
           last == i + n + 1
           c == i + n
           junk == [k \in 1 .. n - Len(s) |-> Junk]
           u == s \o junk
           r == Roomy(x, last)
           got == IF HasRoom(x, last) THEN Written(r, i, s) ELSE x
           y == SetC(got, c, Nul)
           z == [y EXCEPT !.cnt = c]
           v == SubSeq(w, 1, i) \o u
<1>1. /\ m \in Nat /\ i \in Nat /\ last \in Nat /\ c \in Nat /\ c = i + n /\ last = c + 1
      /\ x.cnt \in Nat /\ x.max \in Nat /\ m <= n
      /\ i <= x.cnt /\ x.cnt <= x.max /\ Len(w) = x.cnt
  BY DEF IsBuffer, HoldsText
<1>2. Read(x, i, n, s) = z
  BY DEF Read
<1>3. Nul \in Byte /\ Junk \in Byte
  BY DEF Byte
<1>4. junk \in Seq(Byte) /\ Len(junk) = n - m /\ \A k \in 1 .. n - m : junk[k] = Junk
  <2> DEFINE d == n - Len(s)
             t == [k \in 1 .. d |-> Junk]
  <2>1. d \in Nat
    BY <1>1
  <2> HIDE DEF d
  <2>2. t \in Seq(Byte) /\ Len(t) = d /\ \A k \in 1 .. d : t[k] = Junk
    BY <1>3, <2>1
  <2> QED
    BY <2>2 DEF d
<1> HIDE DEF junk
<1>5. /\ u \in Seq(Byte) /\ Len(u) = n
      /\ \A k \in 1 .. m : u[k] = s[k]
      /\ \A k \in m + 1 .. n : u[k] = Junk
  <2>1. /\ u \in Seq(Byte) /\ Len(u) = Len(s) + Len(junk)
        /\ \A k \in 1 .. Len(s) : u[k] = s[k]
        /\ \A k \in Len(s) + 1 .. Len(s) + Len(junk) : u[k] = junk[k - Len(s)]
    <3>1. IsConcat(u, Byte, s, junk)
      BY <1>4, JoinedIn
    <3> HIDE DEF u
    <3> QED
      BY <3>1 DEF IsConcat
  <2> HIDE DEF u, m
  <2>2. m = Len(s)
    BY DEF m
  <2>3. Len(s) + Len(junk) = n
    BY <1>1, <1>4, <2>2
  <2>4. ASSUME NEW k \in m + 1 .. n PROVE u[k] = Junk
    <3> DEFINE j == k - m
    <3>1. k \in Len(s) + 1 .. Len(s) + Len(junk) /\ j \in 1 .. Len(junk)
      BY <1>1, <1>4, <2>2, <2>3
    <3>2. u[k] = junk[j]
      BY <2>1, <2>2, <3>1
    <3> HIDE DEF j
    <3> QED
      BY <1>4, <3>1, <3>2
  <2>5. \A k \in 1 .. m : u[k] = s[k]
    BY <2>1, <2>2
  <2> QED
    BY <2>1, <2>3, <2>4, <2>5
<1> HIDE DEF u
<1>6. /\ v \in Seq(Byte) /\ Len(v) = c
      /\ \A k \in 1 .. i : v[k] = w[k]
      /\ \A k \in i + 1 .. c : v[k] = u[k - i]
  <2>1. IsJoined(v, Byte, w, u, i)
    BY <1>1, <1>5, PutText
  <2> HIDE DEF v
  <2> QED
    BY <1>5, <2>1 DEF IsJoined
<1> HIDE DEF v
<1>7. HasRoom(x, last) => /\ IsBuffer(r) /\ last < r.max
                          /\ \A k \in 0 .. x.max - 1 : r.bytes[k] = x.bytes[k]
  BY <1>1, RoomyFits
<1>8. HasRoom(x, last) => IsWritten(r, i, s, got)
  <2>1. HasRoom(x, last) => IsWritten(r, i, s, Written(r, i, s))
    <3> HIDE DEF r
    <3> QED
      BY <1>1, <1>7, WrittenFacts
  <2> HIDE DEF r
  <2> QED
    BY <2>1
<1>9. IsBuffer(got)
  BY <1>8 DEF IsWritten
<1> HIDE DEF got, r, c
<1>10. /\ IsBuffer(y) /\ Enlarged(got, y, c) /\ SameBut(got, y, c, c)
       /\ HasRoom(got, c) => c < y.max /\ y.bytes[c] = Nul
  <2>1. c \in Nat
    BY <1>1
  <2> QED
    BY <1>3, <1>9, <2>1, SetCWrites
<1> HIDE DEF y
<1>11. IsBuffer(z) /\ z.cnt = c /\ z.max = y.max /\ z.bytes = y.bytes
  BY <1>1, <1>10, CountSet
<1> HIDE DEF z, m, last
<1>12. ASSUME HasRoom(x, last) PROVE HoldsText(z, v) /\ Terminated(z)
  <2>1. /\ IsBuffer(got) /\ got.max = r.max /\ SameBut(r, got, i, i + Len(s) - 1)
        /\ \A k \in 0 .. r.max - 1 : k \in i .. i + Len(s) - 1 => got.bytes[k] = s[k - i + 1]
    BY <1>8, <1>12 DEF IsWritten
  <2>2. last < r.max /\ r.max \in Nat
    BY <1>7, <1>12 DEF IsBuffer
  <2>3. HasRoom(got, c)
    BY <1>1, <2>1, <2>2 DEF HasRoom
  <2>4. c < z.max /\ z.bytes[c] = Nul /\ z.max \in Nat
    BY <1>10, <1>11, <2>3 DEF IsBuffer
  <2>5. \A k \in 0 .. c - 1 : z.bytes[k] = got.bytes[k]
    <3> SUFFICES ASSUME NEW k \in 0 .. c - 1 PROVE z.bytes[k] = got.bytes[k]
      OBVIOUS
    <3>1. c \in Nat /\ got.max \in Nat /\ c < got.max
      BY <1>1, <2>1, <2>2
    <3>2. k \in 0 .. got.max - 1 /\ k \notin c .. c
      BY <3>1
    <3> QED
      BY <1>10, <1>11, <3>2 DEF SameBut
  <2>6. m = Len(s)
    BY DEF m
  <2>7. ASSUME NEW k \in 0 .. i - 1 PROVE z.bytes[k] = x.bytes[k]
    <3>1. k \in 0 .. x.max - 1 /\ k \in 0 .. r.max - 1 /\ k \notin i .. i + Len(s) - 1 /\ k \in 0 .. c - 1
      BY <1>1, <2>2, <2>6
    <3> QED
      BY <1>7, <1>12, <2>1, <2>5, <3>1 DEF SameBut
  <2>8. ASSUME NEW k \in 0 .. c - 1 PROVE v[k + 1] = Junk \/ z.bytes[k] = v[k + 1]
    <3> DEFINE q == k + 1
    <3>1. CASE k < i
      <4>1. \A j \in 1 .. i : v[j] = w[j]
        BY <1>6
      <4>2. v[k + 1] = Junk \/ x.bytes[k] = v[k + 1]
        BY <1>1, <3>1, <4>1, FirstBytes
      <4> QED
        BY <1>1, <2>7, <3>1, <4>2
    <3>2. CASE k >= i /\ k < i + m
      <4>1. /\ q \in i + 1 .. c /\ k \in i .. i + Len(s) - 1 /\ q - i \in 1 .. m /\ k - i + 1 = q - i
            /\ k \in 0 .. r.max - 1
        BY <1>1, <2>2, <2>6, <3>2
      <4> HIDE DEF q
      <4>2. v[q] = u[q - i] /\ u[q - i] = s[q - i]
        BY <1>5, <1>6, <4>1
      <4>3. z.bytes[k] = s[k - i + 1]
        BY <2>1, <2>5, <4>1
      <4> QED
        BY <4>1, <4>2, <4>3 DEF q
    <3>3. CASE k >= i + m
      <4>1. q \in i + 1 .. c /\ q - i \in m + 1 .. n
        BY <1>1, <3>3
      <4> HIDE DEF q
      <4>2. v[q] = u[q - i] /\ u[q - i] = Junk
        BY <1>5, <1>6, <4>1
      <4> QED
        BY <4>2 DEF q
    <3> QED
      BY <1>1, <3>1, <3>2, <3>3
  <2>9. z.cnt <= z.max /\ Len(v) = z.cnt
    BY <1>1, <1>6, <1>11, <2>4
  <2>10. HoldsText(z, v)
    BY <1>11, <2>8, <2>9 DEF HoldsText
  <2> QED
    BY <1>11, <2>4, <2>10 DEF Terminated
<1>13. Leaves(x, z, v, last)
  BY <1>6, <1>11, <1>12 DEF Leaves
<1> QED
  BY <1>2, <1>13 DEF v, u, junk, last

\* The text w of x after bufsetc.
SetText(x, w, i, e) ==
  IF ~ HasRoom(x, i) THEN w
  ELSE IF i < x.cnt THEN [w EXCEPT ![i + 1] = e]
  ELSE w \o [k \in 1 .. i - x.cnt |-> Junk] \o << e >>

LEMMA SetCKeeps ==
  ASSUME LimOK, NEW x, IsBuffer(x), NEW w \in Seq(Byte), HoldsText(x, w), NEW i \in Nat,
         NEW e \in Byte, NEW v, v = SetText(x, w, i, e)
  PROVE  /\ IsBuffer(SetC(x, i, e)) /\ v \in Seq(Byte) /\ HoldsText(SetC(x, i, e), v)
         /\ i < x.cnt /\ Terminated(x) => Terminated(SetC(x, i, e))
<1> DEFINE y == SetC(x, i, e)
           m == x.cnt
<1>1. m \in Nat /\ x.max \in Nat /\ m <= x.max /\ Len(w) = m
      /\ \A k \in 0 .. m - 1 : w[k + 1] = Junk \/ x.bytes[k] = w[k + 1]
  BY DEF IsBuffer, HoldsText
<1>2. /\ IsBuffer(y) /\ Enlarged(x, y, i) /\ SameBut(x, y, i, i)
      /\ HasRoom(x, i) => /\ y.cnt = Larger(m, i + 1) /\ i < y.max /\ y.bytes[i] = e
      /\ ~ HasRoom(x, i) => y = x
  BY SetCWrites
<1> HIDE DEF y
<1>3. CASE ~ HasRoom(x, i)
  BY <1>2, <1>3 DEF y, SetText
<1>4. CASE HasRoom(x, i) /\ i < m
  <2>1. v = [w EXCEPT ![i + 1] = e]
    BY <1>4 DEF SetText
  <2>2. i + 1 \in 1 .. Len(w)
    BY <1>1, <1>4
  <2>3. /\ v \in Seq(Byte) /\ Len(v) = Len(w) /\ v[i + 1] = e
        /\ \A k \in 1 .. Len(w) : k # i + 1 => v[k] = w[k]
    <3> DEFINE j == i + 1
               r == [w EXCEPT ![j] = e]
    <3>1. j \in 1 .. Len(w)
      BY <2>2
    <3> HIDE DEF j
    <3>2. r \in Seq(Byte) /\ Len(r) = Len(w)
      BY <3>1, ExceptSeq
    <3>3. \A k \in 1 .. Len(w) : r[k] = IF k = j THEN e ELSE w[k]
      BY <3>1, ExceptSeq
    <3>4. v = r
      BY <2>1 DEF j
    <3> HIDE DEF r
    <3> QED
      BY <2>2, <3>2, <3>3, <3>4 DEF j
  <2>4. y.cnt = m /\ y.max \in Nat /\ y.max >= x.max
    BY <1>1, <1>2, <1>4 DEF Larger, Enlarged, IsBuffer
  <2>5. \A k \in 0 .. x.max - 1 : k # i => y.bytes[k] = x.bytes[k]
    BY <1>2 DEF SameBut
  <2> HIDE DEF m
  <2>6. ASSUME NEW k \in 0 .. m - 1 PROVE v[k + 1] = Junk \/ y.bytes[k] = v[k + 1]
    <3>1. CASE k = i
      BY <1>2, <1>4, <2>3, <3>1
    <3>2. CASE k # i
      <4>1. k + 1 \in 1 .. Len(w) /\ k + 1 # i + 1 /\ k \in 0 .. x.max - 1
        BY <1>1, <3>2
      <4>2. v[k + 1] = w[k + 1] /\ y.bytes[k] = x.bytes[k]
        BY <2>3, <2>5, <3>2, <4>1
      <4> QED
        BY <1>1, <4>2
    <3> QED
      BY <3>1, <3>2
  <2>7. y.cnt <= y.max /\ Len(v) = y.cnt
    <3>1. Len(v) = y.cnt
      BY <1>1, <2>3, <2>4
    <3>2. m <= x.max /\ x.max \in Nat /\ m \in Nat
      BY <1>1
    <3>3. y.cnt <= y.max
      BY <2>4, <3>2
    <3> QED
      BY <3>1, <3>3
  <2>8. HoldsText(y, v)
    BY <2>4, <2>6, <2>7 DEF HoldsText
  <2>9. ASSUME Terminated(x) PROVE Terminated(y)
    <3>1. m < x.max /\ x.bytes[m] = Nul
      BY <2>9 DEF Terminated, m
    <3>2. y.bytes[m] = Nul
      BY <1>1, <1>4, <2>5, <3>1
    <3> QED
      BY <1>1, <2>4, <3>1, <3>2 DEF Terminated
  <2> QED
    BY <1>2, <2>3, <2>8, <2>9 DEF y
<1>5. CASE HasRoom(x, i) /\ ~ (i < m)
  <2> DEFINE d == i - m
             junk == [k \in 1 .. d |-> Junk]
             u == w \o junk
             t == << e >>
  <2>1. d \in Nat /\ Junk \in Byte /\ m + d = i
    BY <1>1, <1>5 DEF Byte
  <2>2. v = u \o t
    BY <1>5 DEF SetText
  <2> HIDE DEF d
  <2>3. junk \in Seq(Byte) /\ Len(junk) = d /\ \A k \in 1 .. d : junk[k] = Junk
    BY <2>1
  <2> HIDE DEF junk
  <2>4. /\ u \in Seq(Byte) /\ Len(u) = i
        /\ \A k \in 1 .. m : u[k] = w[k]
        /\ \A k \in m + 1 .. i : u[k] = Junk
    <3>1. IsConcat(u, Byte, w, junk)
      BY <2>3, JoinedIn
    <3> HIDE DEF u, m
    <3>2. Len(w) = m /\ Len(junk) = d /\ m + d = i
      BY <1>1, <2>1, <2>3
    <3>3. /\ u \in Seq(Byte) /\ Len(u) = m + d
          /\ \A k \in 1 .. m : u[k] = w[k]
          /\ \A k \in m + 1 .. m + d : u[k] = junk[k - m]
      BY <3>1, <3>2 DEF IsConcat
    <3>4. \A k \in m + 1 .. i : k - m \in 1 .. d
      BY <1>1, <2>1
    <3> QED
      BY <2>3, <3>2, <3>3, <3>4
  <2> HIDE DEF u
  <2>5. t \in Seq(Byte) /\ Len(t) = 1 /\ t[1] = e
    <3> HIDE DEF Byte
    <3> QED
      OBVIOUS
  <2> HIDE DEF t
  <2>6. /\ v \in Seq(Byte) /\ Len(v) = i + 1 /\ v[i + 1] = e
        /\ \A k \in 1 .. i : v[k] = u[k]
    <3>1. IsConcat(u \o t, Byte, u, t)
      BY <2>4, <2>5, JoinedIn
    <3>2. IsConcat(v, Byte, u, t)
      BY <2>2, <3>1
    <3> DEFINE a == i + 1
    <3>3. a \in Nat /\ a - i = 1
      OBVIOUS
    <3>4. /\ v \in Seq(Byte) /\ Len(v) = i + 1 /\ \A k \in 1 .. i : v[k] = u[k]
          /\ \A k \in a .. a : v[k] = t[k - i]
      BY <2>4, <2>5, <3>2 DEF IsConcat
    <3> HIDE DEF a
    <3>5. v[a] = t[1]
      <4>1. v[a] = t[a - i]
        BY <3>3, <3>4
      <4> QED
        BY <3>3, <4>1
    <3> QED
      BY <2>5, <3>4, <3>5 DEF a
  <2>7. y.cnt = i + 1 /\ y.max \in Nat /\ i < y.max /\ y.bytes[i] = e
    BY <1>1, <1>2, <1>5 DEF Larger, IsBuffer
  <2> HIDE DEF m
  <2>8. ASSUME NEW k \in 0 .. m - 1 PROVE y.bytes[k] = x.bytes[k]
    <3>1. k \in 0 .. x.max - 1 /\ k \notin i .. i
      BY <1>1, <1>5
    <3> QED
      BY <1>2, <3>1 DEF SameBut
  <2>9. ASSUME NEW k \in 0 .. i PROVE v[k + 1] = Junk \/ y.bytes[k] = v[k + 1]
    <3> DEFINE q == k + 1
    <3>1. CASE k = i
      BY <2>6, <2>7, <3>1
    <3>2. CASE k < m
      <4>1. q \in 1 .. i /\ q \in 1 .. m /\ k \in 0 .. m - 1
        BY <1>1, <1>5, <3>2
      <4>2. w[q] = Junk \/ x.bytes[k] = w[q]
        BY <1>1, <4>1
      <4> HIDE DEF q
      <4>3. v[q] = w[q] /\ y.bytes[k] = x.bytes[k]
        BY <2>4, <2>6, <2>8, <4>1
      <4> QED
        BY <4>2, <4>3 DEF q
    <3>3. CASE k # i /\ ~ (k < m)
      <4>1. q \in 1 .. i /\ q \in m + 1 .. i
        BY <1>1, <3>3
      <4> HIDE DEF q
      <4>2. v[q] = Junk
        BY <2>4, <2>6, <4>1
      <4> QED
        BY <4>2 DEF q
    <3> QED
      BY <3>1, <3>2, <3>3
  <2>10. y.cnt <= y.max /\ Len(v) = y.cnt /\ y.cnt - 1 = i
    <3>1. Len(v) = y.cnt
      BY <2>6, <2>7
    <3>2. y.cnt <= y.max
      BY <2>7
    <3>3. y.cnt - 1 = i
      BY <2>7
    <3> QED
      BY <3>1, <3>2, <3>3
  <2>11. HoldsText(y, v)
    BY <2>9, <2>10 DEF HoldsText
  <2> QED
    BY <1>2, <1>5, <2>6, <2>11 DEF y, m
<1> QED
  BY <1>3, <1>4, <1>5

-----------------------------------------------------------------------------
(* The buffer holds its text *)

BufInv ==
  use = "buf" /\ ~ wild =>
    /\ IsBuffer(buf) /\ text \in Seq(Byte) /\ HoldsText(buf, text)
    /\ ~ raw => Terminated(buf)

LEMMA BufWriteKeeps ==
  ASSUME NEW x, NEW w, NEW last, NEW end \in Nat, Leaves(buf, x, w, last),
         x.cnt <= end, BufWrite(x, w, last, end)
  PROVE  BufInv'
<1>1. buf' = x /\ wild' = (end > x.max) /\ raw' = ~ HasRoom(buf, last)
      /\ text' = IF raw' THEN [k \in 1 .. x.cnt |-> Junk] ELSE w
  BY DEF BufWrite
<1>2. IsBuffer(x) /\ w \in Seq(Byte)
  BY DEF Leaves
<1>3. CASE HasRoom(buf, last)
  <2>1. raw' = FALSE /\ text' = w /\ HoldsText(x, w) /\ Terminated(x)
    BY <1>1, <1>3 DEF Leaves
  <2> QED
    BY <1>1, <1>2, <2>1 DEF BufInv, HoldsText, Terminated, IsBuffer
<1>4. CASE ~ HasRoom(buf, last)
  <2> DEFINE n == x.cnt
             v == [k \in 1 .. n |-> Junk]
  <2>1. raw' = TRUE /\ text' = v
    BY <1>1, <1>4
  <2>2. n \in Nat /\ Junk \in Byte /\ x.max \in Nat
    BY <1>2 DEF IsBuffer, Byte
  <2> HIDE DEF n
  <2>3. v \in Seq(Byte) /\ Len(v) = n /\ \A k \in 0 .. n - 1 : v[k + 1] = Junk
    BY <2>2
  <2> HIDE DEF v
  <2>4. ~ wild' => x.cnt <= x.max
    <3>1. ~ wild' => ~ (end > x.max)
      BY <1>1
    <3>2. ~ (end > x.max) => x.cnt <= x.max
      BY <2>2 DEF n
    <3> QED
      BY <3>1, <3>2
  <2>5. ~ wild' => HoldsText(x, v)
    BY <2>3, <2>4 DEF HoldsText, n
  <2> QED
    BY <1>1, <1>2, <2>1, <2>3, <2>5 DEF BufInv, HoldsText, IsBuffer
<1> QED
  BY <1>3, <1>4

LEMMA WiderSeq ==
  ASSUME NEW S, NEW T, S \subseteq T, NEW s \in Seq(S)
  PROVE  s \in Seq(T)
OBVIOUS

LEMMA TextBytes ==
  ASSUME NEW s \in Texts
  PROVE  s \in Seq(Byte) /\ Append(s, Newline) \in Seq(Byte) /\ Len(Append(s, Newline)) = Len(s) + 1
         /\ Len(s) \in Nat
<1>1. s \in Seq(Chars)
  BY StringsAssumption
<1>2. s \in Seq(Byte)
  <2>1. Chars \subseteq Byte
    BY DEF Byte
  <2> QED
    BY <1>1, <2>1, WiderSeq
<1>3. Newline \in Byte
  BY DEF Byte
<1> QED
  BY <1>2, <1>3, AppendProperties

\* The state of a buffer that a call finds.
BufReady == LimOK /\ use = "buf" /\ IsBuffer(buf) /\ text \in Seq(Byte) /\ HoldsText(buf, text)

LEMMA Unchanged ==
  ASSUME BufInv, UNCHANGED strvars
  PROVE  BufInv'
BY DEF BufInv, strvars, HoldsText, Terminated, IsBuffer

LEMMA BufSetCKeeps ==
  ASSUME BufReady, ~ raw => Terminated(buf), NEW i \in Nat, NEW e \in Letters, BufSetC(i, e)
  PROVE  BufInv'
<1> DEFINE y == SetC(buf, i, e)
           v == SetText(buf, text, i, e)
<1>1. e \in Byte
  BY DEF Byte
<1>2. /\ IsBuffer(y) /\ v \in Seq(Byte) /\ HoldsText(y, v)
      /\ i < buf.cnt /\ Terminated(buf) => Terminated(y)
  BY <1>1, SetCKeeps DEF BufReady
<1>3. buf' = y /\ text' = v /\ raw' = (raw \/ i >= buf.cnt)
  BY DEF BufSetC, SetText
<1> HIDE DEF y, v
<1>4. ~ raw' => Terminated(y)
  <2>1. ~ raw' => ~ raw /\ ~ (i >= buf.cnt)
    BY <1>3
  <2>2. ~ (i >= buf.cnt) => i < buf.cnt
    BY DEF BufReady, IsBuffer
  <2> QED
    BY <1>2, <2>1, <2>2
<1>5. IsBuffer(buf)' /\ HoldsText(buf, text)' /\ (Terminated(y) => Terminated(buf)')
  BY <1>2, <1>3 DEF IsBuffer, HoldsText, Terminated
<1>6. (text \in Seq(Byte))'
  BY <1>2, <1>3
<1> QED
  BY <1>4, <1>5, <1>6 DEF BufInv

LEMMA BufCallKeeps ==
  ASSUME NEW x, NEW w, NEW last, Leaves(buf, x, w, last), BufCall(x, w, last)
  PROVE  BufInv'
<1>1. x.cnt \in Nat /\ x.cnt <= x.cnt
  BY DEF Leaves, IsBuffer
<1> QED
  BY <1>1, BufWriteKeeps DEF BufCall

LEMMA BufStep ==
  ASSUME LimOK, use = "buf", BufInv, BufNext
  PROVE  BufInv'
<1>1. CASE wild
  <2>1. UNCHANGED strvars
    BY <1>1 DEF BufNext, BufSetC, BufAddC, BufSetS, BufReadLn, BufIns, BufDel, BufFmt, BufRead,
                BufCall, BufWrite
  <2> QED
    BY <2>1, Unchanged
<1>2. CASE ~ wild
  <2>1. BufReady /\ (~ raw => Terminated(buf))
    BY <1>2 DEF BufInv, BufReady
  <2>2. buf.cnt \in Nat
    BY <2>1 DEF BufReady, IsBuffer
  <2>3. ASSUME NEW i \in 0 .. buf.cnt + 1, NEW e \in Letters, BufSetC(i, e) PROVE BufInv'
    BY <2>1, <2>2, <2>3, BufSetCKeeps
  <2>4. ASSUME NEW e \in Letters, BufAddC(e) PROVE BufInv'
    <3>1. e \in Byte
      BY DEF Byte
    <3>2. Leaves(buf, Ended(SetC(buf, buf.cnt, e)), Append(text, e), buf.cnt + 1)
      BY <2>1, <3>1, AddCLeaves DEF BufReady
    <3> QED
      BY <2>4, <3>2, BufCallKeeps DEF BufAddC
  <2>5. ASSUME NEW i \in Positions, NEW s \in Texts, BufSetS(i, s) PROVE BufInv'
    <3>1. Leaves(buf, SetS(buf, i, s), Put(i, s), i + Len(s))
      BY <2>1, SetSLeaves, TextBytes DEF BufReady, Positions, Put
    <3> QED
      BY <2>5, <3>1, BufCallKeeps DEF BufSetS
  <2>6. ASSUME NEW i \in Positions, NEW s \in Texts, BufReadLn(i, s) PROVE BufInv'
    <3> DEFINE u == Append(s, Newline)
    <3>1. u \in Seq(Byte) /\ Len(u) = Len(s) + 1 /\ Len(s) \in Nat
      BY TextBytes
    <3>2. i + Len(u) = i + Len(s) + 1
      BY <2>2, <3>1 DEF Positions
    <3>3. BufCall(SetS(buf, i, u), Put(i, u), i + Len(s) + 1)
      BY <2>6 DEF BufReadLn
    <3> HIDE DEF u
    <3>4. Leaves(buf, SetS(buf, i, u), Put(i, u), i + Len(u))
      BY <2>1, <3>1, SetSLeaves DEF BufReady, Positions, Put
    <3> QED
      BY <3>2, <3>3, <3>4, BufCallKeeps
  <2>7. ASSUME NEW i \in Positions, NEW s \in Texts, BufFmt(i, s) PROVE BufInv'
    <3>1. CASE s = <<>>
      BY <2>7, <3>1, Unchanged DEF BufFmt
    <3>2. CASE s # <<>>
      <4> DEFINE x == Fmt(buf, i, s)
                 last == i + Len(s) + 1
      <4>1. s \in Seq(Byte) /\ last \in Nat /\ i + Len(s) <= last
        BY <2>2, TextBytes DEF Positions
      <4>2. Leaves(buf, x, Put(i, s), last)
        BY <2>1, <3>2, <4>1, FmtLeaves DEF BufReady, Positions, Put
      <4>3. BufWrite(x, Put(i, s), last, last)
        BY <2>7, <3>2 DEF BufFmt
      <4>4. x.cnt = i + Len(s)
        <5> DEFINE g == Written(SetC(buf, last, Nul), i, Append(s, Nul))
        <5>1. x = [g EXCEPT !.cnt = i + Len(s)]
          BY <3>2 DEF Fmt
        <5>2. IsBuffer(g)
          <6>1. Nul \in Byte
            BY DEF Byte
          <6>2. Append(s, Nul) \in Seq(Byte)
            BY <4>1, <6>1, AppendProperties
          <6>3. IsBuffer(SetC(buf, last, Nul))
            BY <2>1, <4>1, <6>1, SetCWrites DEF BufReady
          <6>4. i \in Nat
            BY <2>2 DEF Positions
          <6> QED
            BY <6>2, <6>3, <6>4, WrittenFacts DEF IsWritten
        <5> HIDE DEF g, x
        <5> QED
          BY <5>1, <5>2 DEF IsBuffer
      <4> HIDE DEF x, last
      <4> QED
        BY <4>1, <4>2, <4>3, <4>4, BufWriteKeeps
    <3> QED
      BY <3>1, <3>2
  <2>8. ASSUME NEW i \in Positions, NEW s \in Texts, BufIns(i, s) PROVE BufInv'
    <3>1. CASE ~ HasRoom(buf, buf.cnt + Len(s))
      BY <2>8, <3>1, Unchanged DEF BufIns
    <3>2. CASE HasRoom(buf, buf.cnt + Len(s))
      <4> DEFINE w == IF i < buf.cnt THEN SubSeq(text, 1, i) \o s \o SubSeq(text, i + 1, Len(text))
                      ELSE text
                 x == InsS(buf, i, s)
      <4>1. Leaves(buf, x, w, buf.cnt + Len(s)) /\ (~ (i < buf.cnt) => x.cnt = buf.cnt)
        BY <2>1, <3>2, TextBytes, InsLeaves DEF BufReady, Positions
      <4>2. BufCall(x, Inserted(i, s, x), buf.cnt + Len(s))
        BY <2>8, <3>2 DEF BufIns
      <4> HIDE DEF x
      <4>3. Inserted(i, s, x) = w
        <5>1. CASE i < buf.cnt
          BY <5>1 DEF Inserted
        <5>2. CASE ~ (i < buf.cnt)
          <6> DEFINE e == [k \in 1 .. x.cnt - buf.cnt |-> Junk]
          <6>1. x.cnt - buf.cnt = 0
            BY <2>2, <4>1, <5>2
          <6>2. e = << >>
            BY <6>1
          <6>3. Inserted(i, s, x) = text \o e /\ w = text
            BY <5>2 DEF Inserted
          <6> HIDE DEF e, w
          <6>4. text \in Seq(Byte)
            BY <2>1 DEF BufReady
          <6> QED
            BY <6>2, <6>3, <6>4
        <5> QED
          BY <5>1, <5>2
      <4> HIDE DEF w
      <4> QED
        BY <4>1, <4>2, <4>3, BufCallKeeps
    <3> QED
      BY <3>1, <3>2
  <2>9. ASSUME NEW i \in Positions, NEW j \in Positions, i <= j, BufDel(i, j) PROVE BufInv'
    <3>1. Leaves(buf, Cut(buf, i, j), SubSeq(text, 1, i) \o SubSeq(text, j + 2, Len(text)),
                 IF i >= buf.cnt THEN buf.cnt ELSE i)
      BY <2>1, <2>9, CutLeaves DEF BufReady, Positions
    <3> QED
      BY <2>9, <3>1, BufCallKeeps DEF BufDel
  <2>10. ASSUME NEW i \in Positions, NEW n \in 1 .. 2, NEW s \in Texts, Len(s) <= n, BufRead(i, n, s)
         PROVE  BufInv'
    <3>1. Leaves(buf, Read(buf, i, n, s), Put(i, s \o [k \in 1 .. n - Len(s) |-> Junk]), i + n + 1)
      BY <2>1, <2>10, TextBytes, ReadLeaves DEF BufReady, Positions, Put
    <3> QED
      BY <2>10, <3>1, BufCallKeeps DEF BufRead
  <2> QED
    BY <2>3, <2>4, <2>5, <2>6, <2>7, <2>8, <2>9, <2>10 DEF BufNext
<1> QED
  BY <1>1, <1>2

-----------------------------------------------------------------------------
(* A symbol table keeps its names *)

Symbol == [name : Names, data : Words \cup {Nul}]

\* How far the string at an id goes: a deleted one is empty.
Ext(g) == IF g = None THEN 0 ELSE Len(g.name)

\* At id are the name and data of the symbol g, and a '\0'.
Stands(x, id, g) ==
  /\ x.bytes[id + Ext(g)] = Nul
  /\ g # None => /\ \A k \in 1 .. Len(g.name) : x.bytes[id + k - 1] = g.name[k]
                 /\ \A k \in id - 4 .. id - 1 : x.bytes[k] = g.data

\* An id, of which h tells the symbol, with its data before and its '\0' after it.
Placed(x, h, id) ==
  /\ id \in Nat /\ id % 4 = 0 /\ id >= 4 /\ h[id] \in {None} \cup Symbol
  /\ id + Ext(h[id]) + 1 <= x.cnt /\ Stands(x, id, h[id])

\* No two symbols share a byte.
Apart(h, id, jd) == id < jd => id + Ext(h[id]) + 5 <= jd

IsTable(x, h) ==
  /\ IsBuffer(x) /\ x.cnt % 4 = 0 /\ x.cnt <= x.max
  /\ h = [id \in DOMAIN h |-> h[id]]
  /\ \A id \in DOMAIN h : Placed(x, h, id)
  /\ \A id, jd \in DOMAIN h : Apart(h, id, jd)

\* The hash table holds live symbols, and until one is deleted, those added last.
IsIndex ==
  /\ table \subseteq DOMAIN given /\ missed \subseteq DOMAIN given
  /\ \A id \in table : given[id] # None
  /\ ~ Erased => table = Newest(given, DOMAIN given \ missed)

SymInv == use = "sym" /\ ~ wild => IsTable(buf, given) /\ IsIndex

LEMMA NameBytes ==
  ASSUME NEW s \in Names
  PROVE  s \in Seq(Byte) /\ s \in Seq(Chars \ {Nul}) /\ Len(s) \in Nat
<1>1. s \in Seq(Chars \ {Nul})
  BY StringsAssumption
<1>2. s \in Seq(Byte)
  <2>1. Chars \ {Nul} \subseteq Byte
    BY DEF Byte
  <2> QED
    BY <1>1, <2>1, WiderSeq
<1> QED
  BY <1>1, <1>2

LEMMA ExtIsNat ==
  ASSUME NEW g \in {None} \cup Symbol
  PROVE  Ext(g) \in Nat /\ (g = None => Ext(g) = 0) /\ (g # None => g.name \in Names /\ Ext(g) = Len(g.name))
<1>1. CASE g = None
  BY <1>1 DEF Ext
<1>2. CASE g # None
  <2>1. g \in Symbol
    BY <1>2
  <2>2. g.name \in Names
    BY <2>1 DEF Symbol
  <2>3. Len(g.name) \in Nat
    BY <2>2, NameBytes
  <2> QED
    BY <1>2, <2>2, <2>3 DEF Ext
<1> QED
  BY <1>1, <1>2

\* A symbol stands where the bytes that are its own are kept.
LEMMA StandsStill ==
  ASSUME NEW x, NEW y, NEW id \in Nat, NEW g \in {None} \cup Symbol, Stands(x, id, g),
         \A k \in id - 4 .. id + Ext(g) : y.bytes[k] = x.bytes[k]
  PROVE  Stands(y, id, g)
<1>1. Ext(g) \in Nat /\ (g # None => Ext(g) = Len(g.name))
  BY ExtIsNat
<1>2. y.bytes[id + Ext(g)] = Nul
  <2> DEFINE k == id + Ext(g)
  <2>1. k \in id - 4 .. id + Ext(g)
    BY <1>1
  <2> HIDE DEF k
  <2>2. y.bytes[k] = x.bytes[k]
    BY <2>1
  <2> QED
    BY <2>2 DEF k, Stands
<1>3. ASSUME g # None
      PROVE  /\ \A k \in 1 .. Len(g.name) : y.bytes[id + k - 1] = g.name[k]
             /\ \A k \in id - 4 .. id - 1 : y.bytes[k] = g.data
  <2>1. ASSUME NEW k \in 1 .. Len(g.name) PROVE y.bytes[id + k - 1] = g.name[k]
    <3> DEFINE j == id + k - 1
    <3>1. j \in id - 4 .. id + Ext(g)
      BY <1>1, <1>3
    <3>2. x.bytes[j] = g.name[k]
      BY <1>3 DEF Stands
    <3> HIDE DEF j
    <3>3. y.bytes[j] = g.name[k]
      BY <3>1, <3>2
    <3> QED
      BY <3>3 DEF j
  <2>2. ASSUME NEW k \in id - 4 .. id - 1 PROVE y.bytes[k] = g.data
    <3>1. k \in id - 4 .. id + Ext(g)
      BY <1>1
    <3>2. x.bytes[k] = g.data
      BY <1>3 DEF Stands
    <3> QED
      BY <3>1, <3>2
  <2> QED
    BY <2>1, <2>2
<1> QED
  BY <1>2, <1>3 DEF Stands

\* utl_sym_get gives the string at an id.
LEMMA StringIsThere ==
  ASSUME NEW x, IsBuffer(x), NEW id \in Nat, NEW s \in Names, id + Len(s) < x.max,
         x.bytes[id + Len(s)] = Nul, \A k \in 1 .. Len(s) : x.bytes[id + k - 1] = s[k]
  PROVE  StringAt(x, id) = s
<1> DEFINE n == Len(s)
           stop == id + n
           ends == {k \in id .. x.max : k = x.max \/ x.bytes[k] = Nul}
           end == CHOOSE e \in ends : \A f \in ends : e <= f
<1>1. n \in Nat /\ x.max \in Nat /\ s \in Seq(Chars \ {Nul}) /\ stop \in Nat /\ stop < x.max
  BY NameBytes DEF IsBuffer
<1>2. stop \in ends
  BY <1>1
<1>3. ASSUME NEW k \in ends PROVE stop <= k
  <2>1. k \in id .. x.max /\ (k = x.max \/ x.bytes[k] = Nul)
    OBVIOUS
  <2>2. CASE k = x.max
    BY <1>1, <2>2
  <2>3. CASE k # x.max /\ k < stop
    <3> DEFINE j == k - id + 1
    <3>1. j \in 1 .. n /\ id + j - 1 = k
      BY <1>1, <2>1, <2>3
    <3>2. s[j] \in Chars \ {Nul}
      BY <1>1, <3>1
    <3> HIDE DEF j
    <3>3. x.bytes[k] = s[j]
      BY <3>1
    <3> QED
      BY <2>1, <2>3, <3>2, <3>3
  <2>4. CASE ~ (k < stop)
    BY <1>1, <2>1, <2>4
  <2> QED
    BY <2>2, <2>3, <2>4
<1>4. ends \subseteq Nat
  BY <1>1
<1>5. end = stop
  <2> HIDE DEF ends, stop
  <2>1. end \in ends /\ \A f \in ends : end <= f
    BY <1>2, <1>3
  <2> HIDE DEF end
  <2>2. end <= stop /\ stop <= end /\ end \in Nat /\ stop \in Nat
    BY <1>2, <1>3, <1>4, <2>1
  <2> QED
    BY <2>2
<1>6. StringAt(x, id) = [k \in 1 .. end - id |-> x.bytes[id + k - 1]]
  BY DEF StringAt
<1> HIDE DEF end
<1>7. end - id = n
  BY <1>1, <1>5
<1>8. StringAt(x, id) = [k \in 1 .. n |-> x.bytes[id + k - 1]]
  BY <1>6, <1>7
<1>9. s = [k \in 1 .. n |-> s[k]]
  BY <1>1
<1>10. [k \in 1 .. n |-> x.bytes[id + k - 1]] = [k \in 1 .. n |-> s[k]]
  OBVIOUS
<1> QED
  BY <1>8, <1>9, <1>10

\* The count that aligns the next id.
LEMMA PaddedFacts ==
  ASSUME NEW n \in Nat
  PROVE  Padded(n) \in Nat /\ n < Padded(n) /\ Padded(n) % 4 = 0
  BY DEF Padded

\* What utl_sym_store leaves of x, if its bytes are in the storage.
IsStored(x, s, y) ==
  /\ IsBuffer(y) /\ y.cnt % 4 = 0 /\ x.cnt + 4 + Len(s) < y.cnt
  /\ y.cnt <= y.max => /\ \A k \in 0 .. x.cnt - 1 : y.bytes[k] = x.bytes[k]
                       /\ Stands(y, x.cnt + 4, [name |-> s, data |-> Nul])

LEMMA StoredFacts ==
  ASSUME LimOK, NEW x, IsBuffer(x), x.cnt <= x.max, NEW s \in Names,
         None \notin Symbol
  PROVE  IsStored(x, s, Stored(x, s))
<1> DEFINE m == x.cnt
           id == m + 4
           n == id + Len(s)
           a == SetS(x, id, s)
           z4 == [k \in 1 .. 4 |-> Nul]
           b == Written(a, m, z4)
           end == Padded(b.cnt)
           zs == [k \in 1 .. end - b.cnt |-> Nul]
           c == Written(b, b.cnt, zs)
           y == [c EXCEPT !.cnt = end]
           g == [name |-> s, data |-> Nul]
<1>1. /\ m \in Nat /\ id \in Nat /\ n \in Nat /\ Len(s) \in Nat /\ x.max \in Nat /\ m <= x.max
      /\ Nul \in Byte /\ s \in Seq(Byte)
  BY NameBytes DEF IsBuffer, Byte
<1>2. Stored(x, s) = y
  BY DEF Stored
<1>3. /\ IsPut(x, id, s, Len(s), a) /\ a.cnt = n
      /\ HasRoom(x, n) => n < a.max /\ a.bytes[n] = Nul
      /\ ~ HasRoom(x, n) => a.max <= n
  <2> HIDE DEF m
  <2> QED
    BY <1>1, SetSFacts
<1> HIDE DEF a
<1>4. IsBuffer(a) /\ a.max \in Nat /\ a.max >= x.max
  BY <1>3 DEF IsPut, Enlarged, IsBuffer
<1>5. IsWritten(a, m, z4, b) /\ Len(z4) = 4
  <2>1. z4 \in Seq(Byte) /\ Len(z4) = 4
    BY <1>1
  <2> HIDE DEF z4, m
  <2> QED
    BY <1>1, <1>4, <2>1, WrittenFacts
<1> HIDE DEF b
<1>6. IsBuffer(b) /\ b.max = a.max /\ b.cnt = n
  BY <1>3, <1>5 DEF IsWritten
<1>7. end \in Nat /\ n < end /\ end % 4 = 0
  BY <1>1, <1>6, PaddedFacts
<1> HIDE DEF end
<1>8. IsWritten(b, n, zs, c) /\ Len(zs) = end - n
  <2>1. zs \in Seq(Byte) /\ Len(zs) = end - n
    <3> DEFINE p == end - n
    <3>1. p \in Nat /\ Nul \in Byte
      BY <1>1, <1>7
    <3>2. zs = [k \in 1 .. p |-> Nul]
      BY <1>6
    <3> HIDE DEF p, zs
    <3>3. zs \in Seq(Byte) /\ Len(zs) = p
      BY <3>1, <3>2
    <3> QED
      BY <3>3 DEF p
  <2>2. c = Written(b, n, zs)
    BY <1>6
  <2> HIDE DEF zs, n, c
  <2> QED
    BY <1>1, <1>6, <2>1, <2>2, WrittenFacts
<1>9. \A k \in 1 .. end - n : zs[k] = Nul
  BY <1>6
<1> HIDE DEF zs, c
<1>10. IsBuffer(y) /\ y.cnt = end /\ y.max = a.max /\ y.bytes = c.bytes
  <2>1. IsBuffer(c) /\ c.max = a.max
    BY <1>6, <1>8 DEF IsWritten
  <2> QED
    BY <1>7, <2>1 DEF IsBuffer
<1> HIDE DEF y
<1>11. ASSUME end <= a.max
       PROVE  /\ \A k \in 0 .. m - 1 : y.bytes[k] = x.bytes[k]
              /\ Stands(y, id, g)
  <2>1. HasRoom(x, n) /\ n < a.max
    BY <1>1, <1>3, <1>4, <1>7, <1>11
  <2>2. ASSUME NEW k \in 0 .. n - 1 PROVE c.bytes[k] = b.bytes[k]
    <3>1. n \in Nat /\ n < a.max /\ a.max \in Nat /\ b.max = a.max
      BY <1>1, <1>4, <1>6, <2>1
    <3> HIDE DEF n
    <3>2. k \in 0 .. b.max - 1 /\ k \notin n .. n + Len(zs) - 1
      BY <3>1
    <3> QED
      BY <1>8, <3>2 DEF IsWritten, SameBut
  <2>3. ASSUME NEW k \in 0 .. n - 1, k \notin m .. m + 3 PROVE b.bytes[k] = a.bytes[k]
    <3>1. k \in 0 .. a.max - 1 /\ k \notin m .. m + Len(z4) - 1
      BY <1>1, <1>4, <1>5, <2>1, <2>3
    <3> QED
      BY <1>5, <3>1 DEF IsWritten, SameBut
  <2>4. ASSUME NEW k \in 0 .. m - 1 PROVE y.bytes[k] = x.bytes[k]
    <3>1. k \in 0 .. n - 1 /\ k \notin m .. m + 3 /\ k \in 0 .. x.max - 1 /\ k < id
      BY <1>1
    <3>2. a.bytes[k] = x.bytes[k]
      <4>1. \A j \in 0 .. x.max - 1 : j < id => a.bytes[j] = x.bytes[j]
        BY <1>3, <2>1 DEF IsPut
      <4> HIDE DEF id, m, n
      <4> QED
        BY <3>1, <4>1
    <3> HIDE DEF n, id, m
    <3> QED
      BY <1>10, <2>2, <2>3, <3>1, <3>2
  <2>5. c.bytes[n] = Nul
    <3> HIDE DEF n
    <3>1. n \in 0 .. b.max - 1 /\ n \in n .. n + Len(zs) - 1 /\ n - n + 1 = 1 /\ 1 \in 1 .. end - n
      <4>1. Len(zs) = end - n /\ b.max = a.max /\ n < a.max
        BY <1>6, <1>8, <2>1
      <4> QED
        BY <1>1, <1>4, <1>7, <4>1
    <3>2. c.bytes[n] = zs[n - n + 1]
      BY <1>8, <3>1 DEF IsWritten
    <3> QED
      BY <1>9, <3>1, <3>2
  <2>6. ASSUME NEW k \in 1 .. Len(s) PROVE y.bytes[id + k - 1] = s[k]
    <3> DEFINE j == id + k - 1
    <3>1. j \in 0 .. n - 1 /\ j \notin m .. m + 3
      <4>1. m \in Nat /\ Len(s) \in Nat
        BY <1>1
      <4> HIDE DEF m
      <4> QED
        BY <4>1
    <3>2. a.bytes[j] = s[k]
      <4>1. \A i \in 1 .. Len(s) : a.bytes[id + i - 1] = s[i]
        BY <1>3, <2>1 DEF IsPut
      <4> QED
        BY <4>1
    <3> HIDE DEF j, n, m
    <3>3. y.bytes[j] = s[k]
      BY <1>10, <2>2, <2>3, <3>1, <3>2
    <3> QED
      BY <3>3 DEF j
  <2>7. ASSUME NEW k \in id - 4 .. id - 1 PROVE y.bytes[k] = Nul
    <3> DEFINE j == k - m + 1
    <3>1. k \in 0 .. n - 1 /\ k \in m .. m + 3 /\ j \in 1 .. 4
      <4>1. m \in Nat /\ Len(s) \in Nat
        BY <1>1
      <4> HIDE DEF m
      <4> QED
        BY <4>1
    <3>2. k \in 0 .. a.max - 1
      <4> HIDE DEF n
      <4> QED
        BY <1>1, <1>4, <2>1, <3>1
    <3>3. m + Len(z4) - 1 = m + 3
      BY <1>1, <1>5
    <3>4. z4[j] = Nul
      BY <3>1
    <3> HIDE DEF n, m, z4
    <3>5. b.bytes[k] = z4[j]
      BY <1>5, <3>1, <3>2, <3>3 DEF IsWritten, j
    <3> QED
      BY <1>10, <2>2, <3>1, <3>4, <3>5
  <2>8. Ext(g) = Len(s) /\ g.name = s /\ g.data = Nul
    <3>1. g \in Symbol /\ g # None
      BY DEF Symbol
    <3> QED
      BY <3>1 DEF Ext
  <2>9. y.bytes[id + Ext(g)] = Nul
    BY <1>10, <2>5, <2>8
  <2> HIDE DEF g, id
  <2>10. Stands(y, id, g)
    BY <2>6, <2>7, <2>8, <2>9 DEF Stands
  <2> QED
    BY <2>4, <2>10
<1>12. m + 4 + Len(s) < end
  BY <1>1, <1>7
<1> HIDE DEF n, end
<1> QED
  BY <1>2, <1>7, <1>10, <1>11, <1>12 DEF IsStored

\* A byte that is below the count.
LEMMA WithinCount ==
  ASSUME NEW x, NEW h, IsTable(x, h), NEW id \in DOMAIN h
  PROVE  /\ id \in Nat /\ id % 4 = 0 /\ id >= 4 /\ h[id] \in {None} \cup Symbol /\ Ext(h[id]) \in Nat
         /\ id + Ext(h[id]) + 1 <= x.cnt /\ Stands(x, id, h[id]) /\ x.cnt \in Nat /\ x.max \in Nat
         /\ x.cnt <= x.max
<1>1. Placed(x, h, id)
  BY DEF IsTable
<1>2. h[id] \in {None} \cup Symbol
  BY <1>1 DEF Placed
<1>3. Ext(h[id]) \in Nat
  BY <1>2, ExtIsNat
<1> QED
  BY <1>1, <1>3 DEF Placed, IsTable, IsBuffer

\* A new symbol, behind all others.
LEMMA StoreKeeps ==
  ASSUME LimOK, None \notin Symbol, NEW x, NEW h, IsTable(x, h), NEW s \in Names,
         NEW y, IsStored(x, s, y), y.cnt <= y.max, NEW new, new = x.cnt + 4,
         NEW g, g = [name |-> s, data |-> Nul],
         NEW f, f = [id \in DOMAIN h \cup {new} |-> IF id = new THEN g ELSE h[id]]
  PROVE  IsTable(y, f) /\ new \notin DOMAIN h
<1>1. /\ x.cnt \in Nat /\ x.cnt % 4 = 0 /\ IsBuffer(y) /\ y.cnt \in Nat /\ y.cnt % 4 = 0
      /\ x.cnt + 4 + Len(s) < y.cnt /\ Len(s) \in Nat /\ new \in Nat
      /\ \A k \in 0 .. x.cnt - 1 : y.bytes[k] = x.bytes[k]
  BY NameBytes DEF IsTable, IsBuffer, IsStored
<1>2. Stands(y, new, g)
  BY DEF IsStored
<1>3. g \in Symbol /\ Ext(g) = Len(s)
  <2>1. g \in Symbol
    BY DEF Symbol
  <2> QED
    BY <2>1 DEF Ext
<1>4. DOMAIN f = DOMAIN h \cup {new} /\ f[new] = g /\ \A id \in DOMAIN h : id # new => f[id] = h[id]
  OBVIOUS
<1>5. f = [id \in DOMAIN f |-> f[id]]
  OBVIOUS
<1>6. \A id \in DOMAIN h : id \in Nat /\ Ext(h[id]) \in Nat /\ id + Ext(h[id]) + 5 <= new
  BY WithinCount
<1>7. new \notin DOMAIN h
  BY <1>1, <1>6
<1>8. ASSUME NEW id \in DOMAIN f PROVE Placed(y, f, id)
  <2>1. CASE id = new
    <3>1. new % 4 = 0 /\ new >= 4
      <4>1. x.cnt \in Nat /\ x.cnt % 4 = 0
        BY <1>1
      <4> QED
        BY <4>1
    <3>2. new + Ext(g) + 1 <= y.cnt
      <4>1. Ext(g) = Len(s) /\ x.cnt + 4 + Len(s) < y.cnt /\ Len(s) \in Nat /\ x.cnt \in Nat /\ y.cnt \in Nat
        BY <1>1, <1>3
      <4> QED
        BY <4>1
    <3> QED
      BY <1>1, <1>2, <1>3, <1>4, <2>1, <3>1, <3>2 DEF Placed
  <2>2. CASE id # new
    <3>1. id \in DOMAIN h /\ f[id] = h[id]
      BY <1>4, <2>2
    <3> DEFINE u == h[id]
               e == Ext(u)
    <3>2. /\ id \in Nat /\ id % 4 = 0 /\ id >= 4 /\ u \in {None} \cup Symbol /\ e \in Nat
          /\ id + e + 1 <= x.cnt /\ Stands(x, id, u)
      BY <3>1, WithinCount
    <3> HIDE DEF u
    <3>3. \A k \in id - 4 .. id + e : y.bytes[k] = x.bytes[k]
      <4> HIDE DEF e
      <4> SUFFICES ASSUME NEW k \in id - 4 .. id + e PROVE y.bytes[k] = x.bytes[k]
        OBVIOUS
      <4>1. k \in 0 .. x.cnt - 1
        <5>1. id \in Nat /\ id >= 4 /\ e \in Nat /\ id + e + 1 <= x.cnt /\ x.cnt \in Nat
          BY <1>1, <3>2
        <5> QED
          BY <5>1
      <4> QED
        BY <1>1, <4>1
    <3>4. Stands(y, id, u)
      BY <3>2, <3>3, StandsStill
    <3>5. id + e + 1 <= y.cnt
      <4> HIDE DEF e
      <4>1. id \in Nat /\ e \in Nat /\ id + e + 1 <= x.cnt
        BY <3>2
      <4>2. x.cnt \in Nat /\ x.cnt + 4 + Len(s) < y.cnt /\ Len(s) \in Nat /\ y.cnt \in Nat
        BY <1>1
      <4> QED
        BY <4>1, <4>2
    <3> QED
      BY <3>1, <3>2, <3>4, <3>5 DEF Placed, u
  <2> QED
    BY <2>1, <2>2
<1>9. ASSUME NEW id \in DOMAIN f, NEW jd \in DOMAIN f PROVE Apart(f, id, jd)
  <2>1. CASE id = new
    <3>1. ~ (id < jd)
      BY <1>1, <1>4, <1>6, <2>1
    <3> QED
      BY <3>1 DEF Apart
  <2>2. CASE id # new /\ jd = new
    <3>1. id \in DOMAIN h /\ f[id] = h[id]
      BY <1>4, <2>2
    <3> QED
      BY <1>6, <2>2, <3>1 DEF Apart
  <2>3. CASE id # new /\ jd # new
    <3>1. id \in DOMAIN h /\ f[id] = h[id] /\ jd \in DOMAIN h
      BY <1>4, <2>3
    <3>2. Apart(h, id, jd)
      BY <3>1 DEF IsTable
    <3> QED
      BY <3>1, <3>2 DEF Apart
  <2> QED
    BY <2>1, <2>2, <2>3
<1> QED
  BY <1>1, <1>5, <1>7, <1>8, <1>9 DEF IsTable

\* The bytes of one symbol, and those of another.
LEMMA OutOfReach ==
  ASSUME NEW id \in Nat, NEW jd \in Nat, NEW d \in Nat, NEW e \in Nat, id # jd,
         jd < id => jd + e + 5 <= id, id < jd => id + d + 5 <= jd, NEW k \in jd - 4 .. jd + e
  PROVE  k \notin id - 4 .. id + d - 1
<1>1. CASE jd < id
  BY <1>1
<1>2. CASE id < jd
  BY <1>2
<1> QED
  BY <1>1, <1>2

\* Bytes written where a symbol is, which stands there as g then.
LEMMA ChangeKeeps ==
  ASSUME None \notin Symbol, NEW x, NEW h, IsTable(x, h), NEW id \in DOMAIN h,
         NEW s \in Seq(Byte), Len(s) <= 4 + Ext(h[id]), NEW y, IsWritten(x, id - 4, s, y),
         NEW g \in {None} \cup Symbol, Ext(g) <= Ext(h[id]), Stands(y, id, g),
         NEW f, f = [h EXCEPT ![id] = g]
  PROVE  IsTable(y, f)
<1> DEFINE d == Ext(h[id])
<1>1. /\ id \in Nat /\ id >= 4 /\ id % 4 = 0 /\ d \in Nat /\ id + d + 1 <= x.cnt
      /\ x.cnt \in Nat /\ x.max \in Nat /\ x.cnt <= x.max /\ Len(s) \in Nat /\ Len(s) <= 4 + d
  BY WithinCount
<1>2. Ext(g) \in Nat /\ Ext(g) <= d
  BY ExtIsNat
<1>3. /\ IsBuffer(y) /\ y.cnt = x.cnt /\ y.max = x.max
      /\ \A k \in 0 .. x.max - 1 : k \notin id - 4 .. id + d - 1 => y.bytes[k] = x.bytes[k]
  <2> HIDE DEF d
  <2> SUFFICES ASSUME NEW k \in 0 .. x.max - 1, k \notin id - 4 .. id + d - 1
               PROVE  y.bytes[k] = x.bytes[k]
    BY DEF IsWritten
  <2> DEFINE a == id - 4
             e == a + Len(s) - 1
  <2>1. k \notin a .. e
    BY <1>1
  <2> HIDE DEF e
  <2>2. SameBut(x, y, a, e)
    BY DEF IsWritten, e
  <2> HIDE DEF a
  <2> QED
    BY <2>1, <2>2 DEF SameBut
<1>4. h = [jd \in DOMAIN h |-> h[jd]]
  BY DEF IsTable
<1>5. /\ DOMAIN f = DOMAIN h /\ f[id] = g /\ \A jd \in DOMAIN h : jd # id => f[jd] = h[jd]
      /\ f = [jd \in DOMAIN f |-> f[jd]]
  OBVIOUS
<1> HIDE DEF d
<1>6. ASSUME NEW jd \in DOMAIN f PROVE Placed(y, f, jd)
  <2>1. CASE jd = id
    <3>1. id + Ext(g) + 1 <= y.cnt
      BY <1>1, <1>2, <1>3
    <3> QED
      BY <1>1, <1>5, <2>1, <3>1 DEF Placed
  <2>2. CASE jd # id
    <3>1. jd \in DOMAIN h /\ f[jd] = h[jd]
      BY <1>5, <2>2
    <3> DEFINE u == h[jd]
               e == Ext(u)
    <3>2. /\ jd \in Nat /\ jd % 4 = 0 /\ jd >= 4 /\ u \in {None} \cup Symbol /\ e \in Nat
          /\ jd + e + 1 <= x.cnt /\ Stands(x, jd, u)
      BY <3>1, WithinCount
    <3>3. jd < id => jd + e + 5 <= id
      BY <3>1 DEF IsTable, Apart
    <3>4. id < jd => id + d + 5 <= jd
      BY <3>1 DEF IsTable, Apart, d
    <3> HIDE DEF u
    <3>5. \A k \in jd - 4 .. jd + e : y.bytes[k] = x.bytes[k]
      <4> HIDE DEF e
      <4> SUFFICES ASSUME NEW k \in jd - 4 .. jd + e PROVE y.bytes[k] = x.bytes[k]
        OBVIOUS
      <4>1. k \in 0 .. x.max - 1
        <5>1. jd \in Nat /\ jd >= 4 /\ e \in Nat /\ jd + e + 1 <= x.cnt
          BY <3>2
        <5>2. x.cnt \in Nat /\ x.max \in Nat /\ x.cnt <= x.max
          BY <1>1
        <5> QED
          BY <5>1, <5>2
      <4>2. k \notin id - 4 .. id + d - 1
        BY <1>1, <2>2, <3>2, <3>3, <3>4, OutOfReach
      <4> QED
        BY <1>3, <4>1, <4>2
    <3>6. Stands(y, jd, u)
      BY <3>2, <3>5, StandsStill
    <3> QED
      BY <1>3, <3>1, <3>2, <3>6 DEF Placed, u
  <2> QED
    BY <2>1, <2>2
<1>7. ASSUME NEW jd \in DOMAIN f, NEW kd \in DOMAIN f PROVE Apart(f, jd, kd)
  <2>1. Apart(h, jd, kd) /\ jd \in Nat /\ kd \in Nat /\ Ext(h[jd]) \in Nat
    BY <1>5, WithinCount DEF IsTable
  <2>2. CASE jd = id
    BY <1>1, <1>2, <1>5, <2>1, <2>2 DEF Apart, d
  <2>3. CASE jd # id
    <3>1. f[jd] = h[jd]
      BY <1>5, <2>3
    <3> QED
      BY <2>1, <3>1 DEF Apart
  <2> QED
    BY <2>2, <2>3
<1>8. y.cnt % 4 = 0 /\ y.cnt <= y.max
  BY <1>1, <1>3 DEF IsTable
<1> QED
  BY <1>3, <1>5, <1>6, <1>7, <1>8 DEF IsTable

LEMMA LiveName ==
  ASSUME NEW x, NEW h, IsTable(x, h), NEW id \in DOMAIN h, h[id] # None
  PROVE  /\ h[id] \in Symbol /\ h[id].name \in Names /\ Ext(h[id]) = Len(h[id].name)
         /\ StringAt(x, id) = h[id].name
<1> DEFINE g == h[id]
           s == g.name
<1>1. /\ id \in Nat /\ g \in {None} \cup Symbol /\ Stands(x, id, g) /\ id + Ext(g) + 1 <= x.cnt
      /\ x.cnt \in Nat /\ x.max \in Nat /\ x.cnt <= x.max /\ Ext(g) \in Nat /\ IsBuffer(x)
  BY WithinCount DEF IsTable
<1>2. g \in Symbol /\ s \in Names /\ Ext(g) = Len(s)
  BY <1>1, ExtIsNat
<1>3. id + Len(s) < x.max
  BY <1>1, <1>2
<1>4. x.bytes[id + Len(s)] = Nul /\ \A k \in 1 .. Len(s) : x.bytes[id + k - 1] = s[k]
  BY <1>1, <1>2 DEF Stands
<1>5. StringAt(x, id) = s
  <2> HIDE DEF s
  <2> QED
    BY <1>1, <1>2, <1>3, <1>4, StringIsThere
<1> QED
  BY <1>2, <1>5

SymReady == LimOK /\ IsTable(buf, given) /\ IsIndex

\* The id `at' comes after ids, of which f tells what h does.
AllBefore(h, f, ids, at) ==
  at \in Nat /\ \A id \in ids : id \in Nat /\ id < at /\ f[id] = h[id]

\* One more symbol, given after all others.
LEMMA NewestGrows ==
  ASSUME NEW ids, NEW h, NEW f, NEW at, AllBefore(h, f, ids, at)
  PROVE  \A id : id \in Newest(f, ids \cup {at})
                    <=> id = at \/ (id \in Newest(h, ids) /\ h[id].name # f[at].name)
<1> USE DEF AllBefore
<1> DEFINE all == ids \cup {at}
<1>1. ASSUME NEW id \in ids
      PROVE  id \in Newest(f, all) <=> id \in Newest(h, ids) /\ h[id].name # f[at].name
  <2>1. id < at /\ id \in Nat /\ f[id] = h[id] /\ ~ (at <= id)
    BY <1>1
  <2>2. id \in Newest(f, all) <=> \A jd \in all : f[jd].name = f[id].name => jd <= id
    BY DEF Newest
  <2>3. id \in Newest(h, ids) <=> \A jd \in ids : h[jd].name = h[id].name => jd <= id
    BY DEF Newest
  <2> QED
    BY <2>1, <2>2, <2>3
<1>2. at \in Newest(f, all)
  <2>1. \A jd \in all : jd <= at
    OBVIOUS
  <2> QED
    BY <2>1 DEF Newest
<1>3. Newest(f, all) \subseteq all /\ Newest(h, ids) \subseteq ids
  BY DEF Newest
<1> HIDE DEF all
<1>4. \A id : id \in all <=> id \in ids \/ id = at
  BY DEF all
<1>5. at \notin ids
  OBVIOUS
<1>6. \A id : id \in Newest(f, all) <=> id = at \/ (id \in Newest(h, ids) /\ h[id].name # f[at].name)
  BY <1>1, <1>2, <1>3, <1>4, <1>5
<1> QED
  BY <1>6 DEF all

\* Other data, the same names.
LEMMA NewestStays ==
  ASSUME NEW ids, NEW h, NEW f, \A id \in ids : f[id].name = h[id].name
  PROVE  Newest(f, ids) = Newest(h, ids)
BY DEF Newest

\* One id for each name.
LEMMA NewestIsOne ==
  ASSUME NEW h, NEW ids, ids \subseteq Nat, NEW id \in Newest(h, ids), NEW jd \in Newest(h, ids),
         h[id].name = h[jd].name
  PROVE  id = jd
<1>1. id \in Nat /\ jd \in Nat /\ id <= jd /\ jd <= id
  BY DEF Newest
<1> QED
  BY <1>1

\* What a search finds in the hash table has the name.
LEMMA NamesInTable ==
  ASSUME SymReady, NEW s
  PROVE  /\ IdsOf(s) = {id \in table : given[id].name = s}
         /\ \A id \in table : StringAt(buf, id) = given[id].name
<1>1. \A id \in table : id \in DOMAIN given /\ given[id] # None
  BY DEF SymReady, IsIndex
<1>2. ASSUME NEW id \in table PROVE StringAt(buf, id) = given[id].name
  BY <1>1, LiveName DEF SymReady
<1> QED
  BY <1>2 DEF IdsOf

\* vecadd of a new id.
LEMMA IndexedKeeps ==
  ASSUME SymReady, NEW s, NEW new, NEW at \in Nat, Indexed(s, at, new),
         \A id \in DOMAIN given : id \in Nat /\ id < at, NEW g, g # None, g.name = s,
         DOMAIN given' = DOMAIN given \cup {at}, given'[at] = g,
         \A id \in DOMAIN given : given'[id] = given[id]
  PROVE  IsIndex'
<1> DEFINE D == DOMAIN given
           I == IdsOf(s)
<1>1. /\ table \subseteq D /\ missed \subseteq D /\ at \notin D
      /\ \A id \in table : given[id] # None
      /\ ~ Erased => table = Newest(given, D \ missed)
  BY DEF SymReady, IsIndex
<1>2. /\ I = {id \in table : given[id].name = s}
      /\ \A id \in table : StringAt(buf, id) = given[id].name
  BY NamesInTable
<1>3. Erased' <=> Erased
  BY DEF Erased
<1>4. ~ Erased => \A id, jd \in table : given[id].name = given[jd].name => id = jd
  <2> SUFFICES ASSUME ~ Erased, NEW id \in table, NEW jd \in table, given[id].name = given[jd].name
               PROVE  id = jd
    OBVIOUS
  <2>1. D \ missed \subseteq Nat /\ table = Newest(given, D \ missed)
    BY <1>1
  <2> HIDE DEF D
  <2> QED
    BY <2>1, NewestIsOne
<1>5. \A ids \in OneEach : ids \subseteq table /\ (~ Erased => ids = table)
  <2> SUFFICES ASSUME NEW ids \in OneEach PROVE ids \subseteq table /\ (~ Erased => ids = table)
    OBVIOUS
  <2>1. /\ ids \subseteq table
        /\ \A id \in table : \E jd \in ids : \A kd \in ids :
             StringAt(buf, kd) = StringAt(buf, id) <=> kd = jd
    BY DEF OneEach
  <2>2. ASSUME ~ Erased, NEW id \in table PROVE id \in ids
    <3>1. PICK jd \in ids : StringAt(buf, jd) = StringAt(buf, id)
      BY <2>1
    <3>2. jd \in table /\ given[jd].name = given[id].name
      BY <1>2, <2>1, <3>1
    <3> QED
      BY <1>4, <2>2, <3>1, <3>2
  <2> QED
    BY <2>1, <2>2
<1> HIDE DEF I
<1>6. CASE table' = table /\ missed' = missed \cup {at}
  <2>1. D' \ missed' = D \ missed
    BY <1>1, <1>6
  <2>2. \A id \in D \ missed : given'[id].name = given[id].name
    OBVIOUS
  <2>3. Newest(given', D' \ missed') = Newest(given, D \ missed)
    <3> HIDE DEF D
    <3> QED
      BY <2>1, <2>2, NewestStays
  <2>4. table' \subseteq D' /\ missed' \subseteq D' /\ \A id \in table' : given'[id] # None
    BY <1>1, <1>6
  <2> QED
    BY <1>1, <1>3, <1>6, <2>3, <2>4 DEF IsIndex
<1>7. ASSUME missed' = missed, table' \subseteq table \cup {at},
             ~ Erased => table' = (table \ I) \cup {at}
      PROVE  IsIndex'
  <2>1. table' \subseteq D' /\ missed' \subseteq D' /\ \A id \in table' : given'[id] # None
    BY <1>1, <1>7
  <2>2. ASSUME ~ Erased PROVE table' = Newest(given', D' \ missed')
    <3> DEFINE ids == D \ missed
    <3>1. ids \subseteq Nat /\ \A id \in ids : id < at /\ given'[id] = given[id]
      OBVIOUS
    <3>2. D' \ missed' = ids \cup {at}
      BY <1>1, <1>7
    <3>3. table = Newest(given, ids)
      BY <1>1, <2>2
    <3> HIDE DEF ids
    <3>4. \A id : id \in Newest(given', ids \cup {at})
                    <=> id = at \/ (id \in Newest(given, ids) /\ given[id].name # s)
      <4>1. \A id : id \in Newest(given', ids \cup {at})
                      <=> id = at \/ (id \in Newest(given, ids) /\ given[id].name # given'[at].name)
        <5>1. AllBefore(given, given', ids, at)
          BY <3>1 DEF AllBefore
        <5> QED
          BY <5>1, NewestGrows
      <4>2. given'[at].name = s
        OBVIOUS
      <4> QED
        BY <4>1, <4>2
    <3>5. \A id : id \in table' <=> id = at \/ (id \in table /\ given[id].name # s)
      BY <1>2, <1>7, <2>2
    <3>6. \A id : id \in table' <=> id \in Newest(given', ids \cup {at})
      BY <3>3, <3>4, <3>5
    <3> QED
      BY <3>2, <3>6
  <2> QED
    BY <1>3, <2>1, <2>2 DEF IsIndex
<1>8. CASE missed' = missed /\ \E jd \in I : new /\ table' = (table \ {jd}) \cup {at}
  <2>1. PICK jd \in I : table' = (table \ {jd}) \cup {at}
    BY <1>8
  <2>2. ~ Erased => I = {jd}
    BY <1>2, <1>4, <2>1
  <2> QED
    BY <1>7, <1>8, <2>1, <2>2
<1>9. CASE missed' = missed /\ Misses(s) /\ table' = table \cup {at}
  <2>1. ~ Erased => I = {}
    BY <1>9 DEF Misses, I
  <2> QED
    BY <1>7, <1>9, <2>1
<1>10. CASE missed' = missed /\ \E ids \in OneEach : table' = (ids \ I) \cup {at}
  BY <1>5, <1>7, <1>10
<1> QED
  BY <1>6, <1>8, <1>9, <1>10 DEF Indexed, I

\* symadd, symaddnew and symadduniq.
LEMMA SymStoreKeeps ==
  ASSUME SymReady, None \notin Symbol, NEW s \in Names, NEW new, SymStore(s, new)
  PROVE  SymInv'
<1> SUFFICES ASSUME ~ wild' PROVE IsTable(buf', given') /\ IsIndex'
  BY DEF SymInv
<1> DEFINE at == buf.cnt + 4
           g == [name |-> s, data |-> Nul]
<1>1. /\ buf' = Stored(buf, s) /\ wild' = (buf'.cnt > buf'.max)
      /\ Indexed(s, at, new)
      /\ given' = [id \in DOMAIN given \cup {at} |-> IF id = at THEN g ELSE given[id]]
  BY DEF SymStore
<1>2. LimOK /\ IsTable(buf, given) /\ IsBuffer(buf) /\ buf.cnt <= buf.max /\ buf.cnt \in Nat
  BY DEF SymReady, IsTable, IsBuffer
<1>3. IsStored(buf, s, buf')
  BY <1>1, <1>2, StoredFacts
<1>4. buf'.cnt <= buf'.max
  <2>1. buf'.cnt \in Nat /\ buf'.max \in Nat
    BY <1>3 DEF IsStored, IsBuffer
  <2>2. ~ (buf'.cnt > buf'.max)
    BY <1>1
  <2> QED
    BY <2>1, <2>2
<1>5. g \in Symbol /\ g # None /\ g.name = s
  BY DEF Symbol
<1>6. at = buf.cnt + 4 /\ g = [name |-> s, data |-> Nul] /\ at \in Nat
  BY <1>2
<1> HIDE DEF at, g
<1>7. IsTable(buf', given') /\ at \notin DOMAIN given
  BY <1>1, <1>2, <1>3, <1>4, <1>6, StoreKeeps
<1>8. /\ DOMAIN given' = DOMAIN given \cup {at} /\ given'[at] = g
      /\ \A id \in DOMAIN given : given'[id] = given[id]
  BY <1>1, <1>7
<1>9. ASSUME NEW id \in DOMAIN given PROVE id \in Nat /\ id < at
  <2>1. id \in Nat /\ Ext(given[id]) \in Nat /\ id + Ext(given[id]) + 1 <= buf.cnt
    BY <1>2, WithinCount
  <2> HIDE DEF Ext
  <2> QED
    BY <1>2, <1>6, <2>1
<1>10. IsIndex'
  BY <1>1, <1>5, <1>6, <1>8, <1>9, IndexedKeeps
<1> QED
  BY <1>7, <1>10

\* utl_sym_del.
LEMMA SymDelKeeps ==
  ASSUME SymReady, None \notin Symbol, NEW s \in Names, SymDel(s)
  PROVE  SymInv'
<1>1. PICK id \in IdsOf(s) : /\ table' = table \ {id}
                             /\ buf' = Written(buf, id - 4, [k \in 1 .. 4 + Len(s) |-> Nul])
                             /\ given' = [given EXCEPT ![id] = None] /\ missed' = missed
  BY DEF SymDel
<1>2. IsTable(buf, given) /\ IsIndex /\ IsBuffer(buf)
  BY DEF SymReady, IsTable
<1>3. id \in table /\ StringAt(buf, id) = s
  BY DEF IdsOf
<1>4. id \in DOMAIN given /\ given[id] # None
  BY <1>2, <1>3 DEF IsIndex
<1>5. given[id] \in Symbol /\ given[id].name = s /\ Ext(given[id]) = Len(s)
  BY <1>2, <1>3, <1>4, LiveName
<1>6. /\ id \in Nat /\ id >= 4 /\ Stands(buf, id, given[id]) /\ id + Len(s) + 1 <= buf.cnt
      /\ buf.cnt <= buf.max /\ buf.cnt \in Nat /\ buf.max \in Nat /\ Len(s) \in Nat
  BY <1>2, <1>4, <1>5, NameBytes, WithinCount
<1> DEFINE n == 4 + Len(s)
           z == [k \in 1 .. n |-> Nul]
           a == id - 4
<1>7. z \in Seq(Byte) /\ Len(z) = n /\ \A k \in 1 .. n : z[k] = Nul
  <2>1. n \in Nat /\ Nul \in Byte
    BY <1>6 DEF Byte
  <2> HIDE DEF n
  <2> QED
    BY <2>1
<1>8. buf' = Written(buf, a, z)
  BY <1>1
<1>9. a \in Nat
  BY <1>6
<1> HIDE DEF z
<1>10. IsWritten(buf, a, z, buf')
  <2> HIDE DEF a
  <2> QED
    BY <1>2, <1>7, <1>8, <1>9, WrittenFacts
<1>11. buf'.bytes[id] = Nul
  <2> DEFINE j == id - a + 1
  <2>1. Len(s) # 0
    BY StringsAssumption
  <2>2. id \in 0 .. buf.max - 1 /\ id \in a .. a + Len(z) - 1 /\ j \in 1 .. n
    BY <1>6, <1>7, <2>1
  <2>3. buf'.bytes[id] = z[j]
    BY <1>10, <2>2 DEF IsWritten
  <2> HIDE DEF j, n
  <2> QED
    BY <1>7, <2>2, <2>3
<1>12. Ext(None) = 0
  BY DEF Ext
<1>13. Stands(buf', id, None)
  BY <1>6, <1>11, <1>12 DEF Stands
<1>14. IsTable(buf', given')
  <2>1. Len(z) <= 4 + Ext(given[id]) /\ Ext(None) <= Ext(given[id])
    BY <1>5, <1>6, <1>7, <1>12
  <2>2. None \in {None} \cup Symbol /\ given' = [given EXCEPT ![id] = None]
    BY <1>1
  <2> QED
    BY <1>2, <1>4, <1>7, <1>10, <1>13, <2>1, <2>2, ChangeKeeps DEF a
<1>15. IsIndex'
  <2>1. table \subseteq DOMAIN given /\ missed \subseteq DOMAIN given /\ \A jd \in table : given[jd] # None
    BY <1>2 DEF IsIndex
  <2>2. DOMAIN given' = DOMAIN given /\ given'[id] = None
    BY <1>1, <1>4
  <2>3. \A jd \in table' : jd \in table /\ given'[jd] = given[jd]
    BY <1>1, <2>1
  <2>4. Erased'
    BY <1>4, <2>2 DEF Erased
  <2> QED
    BY <1>1, <2>1, <2>2, <2>3, <2>4 DEF IsIndex
<1> QED
  BY <1>14, <1>15 DEF SymInv

\* utl_sym_setdata: an id with a byte at it is that of a live symbol.
LEMMA SymSetDataKeeps ==
  ASSUME SymReady, None \notin Symbol, NEW id \in DOMAIN given, NEW v \in Words, SymSetData(id, v)
  PROVE  SymInv'
<1> DEFINE u == given[id]
           g == [u EXCEPT !.data = v]
           z == [k \in 1 .. 4 |-> v]
           a == id - 4
<1>1. /\ buf.bytes[id] # Nul /\ buf' = Written(buf, a, z) /\ table' = table /\ missed' = missed
      /\ given' = [given EXCEPT ![id].data = v]
  BY DEF SymSetData
<1>2. IsTable(buf, given) /\ IsIndex /\ IsBuffer(buf)
  BY DEF SymReady, IsTable
<1>3. /\ id \in Nat /\ id >= 4 /\ Stands(buf, id, u) /\ Ext(u) \in Nat /\ id + Ext(u) + 1 <= buf.cnt
      /\ buf.cnt <= buf.max /\ buf.cnt \in Nat /\ buf.max \in Nat
  BY <1>2, WithinCount
<1>4. u # None
  <2>1. ASSUME u = None PROVE FALSE
    <3>1. Ext(u) = 0
      BY <2>1 DEF Ext
    <3>2. id + Ext(u) = id
      BY <1>3, <3>1
    <3> HIDE DEF u
    <3> QED
      BY <1>1, <1>3, <3>2 DEF Stands
  <2> QED
    BY <2>1
<1>5. u \in Symbol /\ Ext(u) = Len(u.name)
  BY <1>2, <1>4, LiveName
<1>6. given' = [given EXCEPT ![id] = g]
  BY <1>1
<1>7. g \in Symbol /\ g.name = u.name /\ g.data = v /\ g # None
  <2> HIDE DEF u
  <2> QED
    BY <1>5 DEF Symbol
<1> HIDE DEF g, u
<1>8. Ext(g) = Ext(u)
  BY <1>4, <1>7 DEF Ext
<1>9. z \in Seq(Byte) /\ Len(z) = 4 /\ \A k \in 1 .. 4 : z[k] = v
  <2>1. v \in Byte
    BY DEF Byte
  <2> QED
    BY <2>1
<1> HIDE DEF z
<1>10. IsWritten(buf, a, z, buf')
  <2>1. a \in Nat
    BY <1>3
  <2> HIDE DEF a
  <2> QED
    BY <1>1, <1>2, <1>9, <2>1, WrittenFacts
<1>11. ASSUME NEW k \in id - 4 .. id + Ext(u), k \notin id - 4 .. id - 1
       PROVE  buf'.bytes[k] = buf.bytes[k]
  <2>1. k \in 0 .. buf.max - 1
    BY <1>3
  <2>2. k \notin a .. a + Len(z) - 1
    BY <1>3, <1>9, <1>11
  <2> QED
    BY <1>10, <2>1, <2>2 DEF IsWritten, SameBut
<1>12. ASSUME NEW k \in id - 4 .. id - 1 PROVE buf'.bytes[k] = g.data
  <2> DEFINE j == k - a + 1
  <2>1. k \in 0 .. buf.max - 1 /\ j \in 1 .. 4
    BY <1>3
  <2>2. k \in a .. a + Len(z) - 1
    BY <1>3, <1>9
  <2>3. buf'.bytes[k] = z[j]
    BY <1>10, <2>1, <2>2 DEF IsWritten
  <2> HIDE DEF j
  <2> QED
    BY <1>7, <1>9, <2>1, <2>3
<1>13. Stands(buf', id, g)
  <2> DEFINE n == id + Ext(u)
  <2>1. n \in id - 4 .. id + Ext(u) /\ n \notin id - 4 .. id - 1
    BY <1>3
  <2> HIDE DEF n
  <2>2. buf'.bytes[n] = buf.bytes[n]
    BY <1>11, <2>1
  <2>3. buf'.bytes[id + Ext(g)] = Nul
    BY <1>3, <1>8, <2>2 DEF Stands, n
  <2>4. ASSUME NEW k \in 1 .. Len(g.name) PROVE buf'.bytes[id + k - 1] = g.name[k]
    <3> DEFINE j == id + k - 1
    <3>1. j \in id - 4 .. id + Ext(u) /\ j \notin id - 4 .. id - 1
      BY <1>3, <1>5, <1>7
    <3>2. buf.bytes[j] = u.name[k]
      BY <1>3, <1>4, <1>7 DEF Stands
    <3> HIDE DEF j
    <3>3. buf'.bytes[j] = g.name[k]
      BY <1>7, <1>11, <3>1, <3>2
    <3> QED
      BY <3>3 DEF j
  <2> QED
    BY <1>12, <2>3, <2>4 DEF Stands
<1>14. IsTable(buf', given')
  <2>1. Len(z) <= 4 + Ext(given[id]) /\ Ext(g) <= Ext(given[id]) /\ g \in {None} \cup Symbol
    BY <1>3, <1>7, <1>8, <1>9 DEF u
  <2> QED
    BY <1>2, <1>6, <1>9, <1>10, <1>13, <2>1, ChangeKeeps DEF a
<1>15. IsIndex'
  <2>1. table \subseteq DOMAIN given /\ \A jd \in table : given[jd] # None
    BY <1>2 DEF IsIndex
  <2>2. DOMAIN given' = DOMAIN given
    BY <1>6
  <2>3. \A jd \in DOMAIN given : given'[jd] = IF jd = id THEN g ELSE given[jd]
    BY <1>6
  <2>4. \A jd \in DOMAIN given :
          given'[jd].name = given[jd].name /\ (given'[jd] = None <=> given[jd] = None)
    BY <1>4, <1>7, <2>3 DEF u
  <2>5. Erased' <=> Erased
    BY <2>2, <2>4 DEF Erased
  <2>6. Newest(given', DOMAIN given' \ missed') = Newest(given, DOMAIN given \ missed)
    <3>1. DOMAIN given' \ missed' = DOMAIN given \ missed
      BY <1>1, <2>2
    <3>2. \A jd \in DOMAIN given \ missed : given'[jd].name = given[jd].name
      BY <2>4
    <3> QED
      BY <3>1, <3>2, NewestStays
  <2> QED
    BY <1>1, <1>2, <2>1, <2>2, <2>4, <2>5, <2>6 DEF IsIndex
<1> QED
  BY <1>14, <1>15 DEF SymInv

-----------------------------------------------------------------------------
(* What is built on vectors keeps its strings *)

StrInv ==
  /\ use \in {"vec", "buf", "sym"} /\ (use # "vec" => LimOK)
  /\ BufInv /\ SymInv

\* No name and data make a record that stands for a deleted symbol.
LEMMA NoneIsNoSymbol == None \notin Symbol
  BY StringsAssumption DEF Symbol

LEMMA StrInitInv == StrInit => StrInv
<1> SUFFICES ASSUME StrInit PROVE StrInv
  OBVIOUS
<1> DEFINE m == StrMin[use]
<1>1. /\ use \in {"vec", "buf", "sym"} /\ lim \in StrLimits[use] /\ text = <<>> /\ raw = TRUE
      /\ table = {} /\ given = <<>> /\ missed = {}
      /\ buf = [bytes |-> [i \in 0 .. m - 1 |-> Junk], cnt |-> 0, max |-> m]
  BY DEF StrInit
<1>2. ASSUME use # "vec" PROVE m \in Nat \ {0} /\ LimOK
  <2>1. use \in {"buf", "sym"}
    BY <1>1, <1>2
  <2>2. StrMin[use] \in Nat \ {0} /\ StrLimits[use] \subseteq Nat
    BY <2>1, StringsAssumption
  <2> QED
    BY <1>1, <2>2 DEF LimOK
<1> HIDE DEF m
<1>3. ASSUME use # "vec" PROVE IsBuffer(buf) /\ buf.cnt = 0 /\ buf.max = m
  <2>1. Junk \in Byte
    BY DEF Byte
  <2>2. buf.bytes = [i \in 0 .. m - 1 |-> Junk] /\ buf.cnt = 0 /\ buf.max = m
    BY <1>1
  <2>3. buf.bytes \in [0 .. buf.max - 1 -> Byte]
    BY <2>1, <2>2
  <2> QED
    BY <1>1, <1>2, <1>3, <2>2, <2>3 DEF IsBuffer
<1>4. BufInv
  <2> SUFFICES ASSUME use = "buf" PROVE IsBuffer(buf) /\ text \in Seq(Byte) /\ HoldsText(buf, text)
    BY <1>1 DEF BufInv
  <2>1. m \in Nat /\ buf.cnt = 0 /\ buf.max = m /\ Len(text) = 0
    BY <1>1, <1>2, <1>3
  <2>2. HoldsText(buf, text)
    BY <2>1 DEF HoldsText
  <2> QED
    BY <1>1, <1>3, <2>2
<1>5. SymInv
  <2> SUFFICES ASSUME use = "sym" PROVE IsTable(buf, given) /\ IsIndex
    BY DEF SymInv
  <2>1. m \in Nat /\ IsBuffer(buf) /\ buf.cnt = 0 /\ buf.max = m
    BY <1>2, <1>3
  <2>2. DOMAIN given = {} /\ given = [id \in DOMAIN given |-> given[id]]
    BY <1>1
  <2>3. IsTable(buf, given)
    BY <2>1, <2>2 DEF IsTable
  <2>4. Newest(given, DOMAIN given \ missed) = {}
    BY <2>2 DEF Newest
  <2> QED
    BY <1>1, <2>3, <2>4 DEF IsIndex
<1> QED
  BY <1>1, <1>2, <1>4, <1>5 DEF StrInv

LEMMA BufNextKeeps == BufNext => use = "buf" /\ UNCHANGED << use, lim >>
  BY DEF BufNext, BufSetC, BufAddC, BufSetS, BufReadLn, BufIns, BufDel, BufFmt, BufRead, BufCall,
         BufWrite, strvars

LEMMA SymNextKeeps == SymNext => use = "sym" /\ ~ wild /\ UNCHANGED << use, lim >>
  BY DEF SymNext, SymStore, SymDel, SymSetData, SymCall

LEMMA StrStep ==
  ASSUME StrInv, [AllNext]_<< vars, strvars >>
  PROVE  StrInv'
<1>1. CASE UNCHANGED strvars
  BY <1>1 DEF StrInv, LimOK, BufInv, SymInv, strvars, symhist, IsBuffer, HoldsText, Terminated, IsTable,
              IsIndex, Erased, Newest, Placed, Stands, Apart
<1>2. CASE use # "vec" /\ BufNext
  <2>1. use = "buf" /\ use' = use /\ lim' = lim
    BY <1>2, BufNextKeeps
  <2>2. LimOK /\ LimOK'
    BY <1>2, <2>1 DEF StrInv, LimOK
  <2>3. BufInv'
    BY <1>2, <2>1, <2>2, BufStep DEF StrInv
  <2> QED
    BY <2>1, <2>2, <2>3 DEF StrInv, SymInv
<1>3. CASE use # "vec" /\ SymNext
  <2>1. use = "sym" /\ ~ wild /\ use' = use /\ lim' = lim
    BY <1>3, SymNextKeeps
  <2>2. LimOK /\ LimOK'
    BY <1>3, <2>1 DEF StrInv, LimOK
  <2>3. SymReady
    BY <2>1, <2>2 DEF StrInv, SymInv, SymReady
  <2>4. SymInv'
    BY <1>3, <2>3, NoneIsNoSymbol, SymStoreKeeps, SymDelKeeps, SymSetDataKeeps DEF SymNext
  <2> QED
    BY <2>1, <2>2, <2>4 DEF StrInv, BufInv
<1> QED
  BY <1>1, <1>2, <1>3 DEF AllNext, Undefined

LEMMA StrInvKeepsStrings == StrInv => StringsAreKept
<1> SUFFICES ASSUME StrInv PROVE StringsAreKept
  OBVIOUS
<1>1. BufferIsText
  <2> SUFFICES ASSUME use = "buf", ~ wild
               PROVE  /\ buf.cnt <= buf.max /\ Len(text) = buf.cnt
                      /\ \A i \in 0 .. buf.cnt - 1 : text[i + 1] = Junk \/ buf.bytes[i] = text[i + 1]
                      /\ ~ raw => buf.cnt < buf.max /\ buf.bytes[buf.cnt] = Nul
    BY DEF BufferIsText
  <2> QED
    BY DEF StrInv, BufInv, HoldsText, Terminated
<1>2. SymbolsKeepTheirNames
  <2> SUFFICES ASSUME use = "sym", ~ wild
               PROVE  /\ \A id \in DOMAIN given : given[id] # None =>
                           /\ id % 4 = 0 /\ id < buf.cnt
                           /\ StringAt(buf, id) = given[id].name
                           /\ \A k \in id - 4 .. id - 1 : buf.bytes[k] = given[id].data
                      /\ \A id \in table : id \in DOMAIN given /\ given[id] # None
                      /\ ~ Erased => table = Newest(given, DOMAIN given \ missed)
    BY DEF SymbolsKeepTheirNames
  <2>1. IsTable(buf, given) /\ IsIndex
    BY DEF StrInv, SymInv
  <2>2. ASSUME NEW id \in DOMAIN given, given[id] # None
        PROVE  /\ id % 4 = 0 /\ id < buf.cnt
               /\ StringAt(buf, id) = given[id].name
               /\ \A k \in id - 4 .. id - 1 : buf.bytes[k] = given[id].data
    <3>1. StringAt(buf, id) = given[id].name
      BY <2>1, <2>2, LiveName
    <3>2. /\ id \in Nat /\ id % 4 = 0 /\ Ext(given[id]) \in Nat /\ buf.cnt \in Nat
          /\ id + Ext(given[id]) + 1 <= buf.cnt /\ Stands(buf, id, given[id])
      BY <2>1, WithinCount
    <3>3. \A k \in id - 4 .. id - 1 : buf.bytes[k] = given[id].data
      BY <2>2, <3>2 DEF Stands
    <3> QED
      BY <3>1, <3>2, <3>3
  <2> QED
    BY <2>1, <2>2 DEF IsIndex
<1> QED
  BY <1>1, <1>2 DEF StringsAreKept

\* A buffer holds the text its calls have put together, terminated inside the
\* storage, and a symbol table keeps the name and data of each id it gave, and
\* finds the id given last for a name until one is deleted, for texts and names
\* of any length and storages of any size, whenever memory runs out
\* (utl_vec.c:861-992, 1101-1208).
THEOREM StringsKept == AllSpec => []StringsAreKept
<1>1. AllInit => StrInv
  BY StrInitInv DEF AllInit
<1>2. StrInv /\ [AllNext]_<< vars, strvars >> => StrInv'
  BY StrStep
<1> QED
  BY <1>1, <1>2, StrInvKeepsStrings, PTL DEF AllSpec

\* The vector of a program that may also use buffers and symbol tables is the
\* vector of Spec: what is proved of Spec holds of AllSpec.
THEOREM VectorPart == AllSpec => Spec
<1>1. AllInit => Init
  BY DEF AllInit
<1>2. [AllNext]_<< vars, strvars >> => [Next]_vars
  BY DEF AllNext
<1> QED
  BY <1>1, <1>2, PTL DEF AllSpec, Spec
=============================================================================
