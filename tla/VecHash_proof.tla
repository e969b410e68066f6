--------------------------- MODULE VecHash_proof ----------------------------
(***************************************************************************)
(* A table keeps its types, its count covers its elements and stays below  *)
(* its size, and so every probe ends: for every hash function, set of keys *)
(* and size whose hundredfold fits in a word.  As long as no element is    *)
(* stored before its home slot, past the end of the table, every element   *)
(* is found, the homes are in order and the table implements the set.      *)
(***************************************************************************)
EXTENDS VecHash, FiniteSetTheorems, NatLemmas, TLAPS

-----------------------------------------------------------------------------
(* Slots go around the table. *)

(* The remainder is the only slot that differs by whole tables.            *)
LEMMA Remainder ==
  ASSUME NEW m \in Nat \ {0}, NEW x \in Int, NEW k \in Int, NEW r \in 0 .. m - 1, x = k * m + r
  PROVE  x % m = r
<1> DEFINE y == x % m
           j == x \div m
<1>1. y \in 0 .. m - 1 /\ j \in Int /\ x = j * m + y
  OBVIOUS
<1> HIDE DEF y, j
<1>2. (k - j) * m = y - r
  BY <1>1
<1>3. CASE k - j >= 1
  <2>1. (k - j) * m >= m
    BY <1>1, <1>3
  <2> QED
    BY <1>1, <1>2, <2>1
<1>4. CASE k - j <= -1
  <2>1. (k - j) * m <= -m
    BY <1>1, <1>4
  <2> QED
    BY <1>1, <1>2, <2>1
<1>5. CASE k - j = 0
  BY <1>1, <1>2, <1>5 DEF y
<1> QED
  BY <1>1, <1>3, <1>4, <1>5

(* A position modulo the size is a slot.                                   *)
LEMMA Slot ==
  ASSUME NEW m \in Nat \ {0}, NEW x \in Int
  PROVE  x % m \in 0 .. m - 1
OBVIOUS

(* Going back from where a probe is undoes the last steps of the probe.    *)
LEMMA BackOnProbe ==
  ASSUME NEW m \in Nat \ {0}, NEW h \in Nat, NEW d \in 0 .. m - 1, NEW i \in 0 .. d
  PROVE  (((h + d) % m) + m - i) % m = (h + (d - i)) % m
<1> DEFINE r == (h + d) % m
           k == (h + d) \div m
<1>1. r \in 0 .. m - 1 /\ k \in Int /\ h + d = k * m + r
  OBVIOUS
<1> HIDE DEF r, k
<1>2. CASE i <= r
  <2>1. r - i \in 0 .. m - 1 /\ r + m - i = 1 * m + (r - i) /\ h + (d - i) = k * m + (r - i)
    BY <1>1, <1>2
  <2>2. (r + m - i) % m = r - i
    BY <1>1, <2>1, Remainder
  <2>3. (h + (d - i)) % m = r - i
    <3> DEFINE x == h + (d - i)
    <3>1. x \in Int /\ x = k * m + (r - i)
      BY <2>1
    <3> HIDE DEF x
    <3>2. x % m = r - i
      BY <1>1, <2>1, <3>1, Remainder
    <3> QED
      BY <3>2 DEF x
  <2> QED
    BY <2>2, <2>3 DEF r
<1>3. CASE r < i
  <2>1. r + m - i \in 0 .. m - 1 /\ r + m - i = 0 * m + (r + m - i)
    BY <1>1, <1>3
  <2>2. h + (d - i) = (k - 1) * m + (r + m - i)
    BY <1>1
  <2>3. (r + m - i) % m = r + m - i
    BY <1>1, <2>1, Remainder
  <2>4. (h + (d - i)) % m = r + m - i
    <3> DEFINE x == h + (d - i)
               l == k - 1
    <3>1. x \in Int /\ l \in Int /\ x = l * m + (r + m - i)
      BY <1>1, <2>2
    <3> HIDE DEF x, l
    <3>2. x % m = r + m - i
      BY <2>1, <3>1, Remainder
    <3> QED
      BY <3>2 DEF x
  <2> QED
    BY <2>3, <2>4 DEF r
<1> QED
  BY <1>1, <1>2, <1>3

(* A walk of m slots meets every slot.                                     *)
LEMMA WalkMeets ==
  ASSUME NEW m \in Nat \ {0}, NEW h \in Nat, NEW q \in 0 .. m - 1
  PROVE  \E d \in 0 .. m - 1 : (h + d) % m = q
<1> DEFINE r == h % m
           k == h \div m
<1>1. r \in 0 .. m - 1 /\ k \in Int /\ h = k * m + r
  OBVIOUS
<1> HIDE DEF r, k
<1>2. CASE r <= q
  <2>1. q - r \in 0 .. m - 1 /\ h + (q - r) = k * m + q
    BY <1>1, <1>2
  <2>2. (h + (q - r)) % m = q
    BY <1>1, <2>1, Remainder
  <2> QED
    BY <2>1, <2>2
<1>3. CASE q < r
  <2>1. q - r + m \in 0 .. m - 1
    BY <1>1, <1>3
  <2>2. h + (q - r + m) = (k + 1) * m + q
    BY <1>1
  <2>3. (h + (q - r + m)) % m = q
    BY <1>1, <2>1, <2>2, Remainder
  <2> QED
    BY <2>1, <2>3
<1> QED
  BY <1>1, <1>2, <1>3

-----------------------------------------------------------------------------
(* Tables, and how many of their slots hold an element.                    *)

IsTab(t, m) == t \in [0 .. m - 1 -> Elems \cup {Empty}]
Occ(t, m) == {p \in 0 .. m - 1 : t[p] # Empty}
Holds(t, m) == Cardinality(Occ(t, m))

(* The occupied slots of a table can be counted.                           *)
LEMMA HoldsType ==
  ASSUME NEW m \in Nat, NEW t
  PROVE  IsFiniteSet(Occ(t, m)) /\ Holds(t, m) \in Nat
<1>1. IsFiniteSet(0 .. m - 1)
  BY FS_Interval
<1>2. Occ(t, m) \in SUBSET (0 .. m - 1)
  BY DEF Occ
<1>3. IsFiniteSet(Occ(t, m))
  BY <1>1, <1>2, FS_Subset
<1> QED
  BY <1>3, FS_CardinalityType DEF Holds

(* With fewer elements than slots some slot is empty, and a probe ends.    *)
LEMMA RoomLeft ==
  ASSUME NEW m \in Nat \ {0}, NEW t, Holds(t, m) < m
  PROVE  \E p \in 0 .. m - 1 : t[p] = Empty
<1>1. SUFFICES ASSUME Occ(t, m) = 0 .. m - 1 PROVE FALSE
  BY DEF Occ
<1>2. Holds(t, m) = m
  BY <1>1, FS_Interval DEF Holds
<1>3. Holds(t, m) \in Nat
  BY HoldsType
<1> QED
  BY <1>2, <1>3

(* With fewer elements than slots every probe ends.                        *)
LEMMA ProbesEnd ==
  ASSUME NEW m \in Nat \ {0}, NEW t, NEW k \in Keys, Holds(t, m) < m
  PROVE  ProbeEnds(t, k, m)
<1>1. PICK p \in 0 .. m - 1 : t[p] = Empty
  BY RoomLeft
<1>2. Hash[k] \in Nat
  BY HashAssumption
<1>3. PICK d \in 0 .. m - 1 : (Hash[k] + d) % m = p
  BY <1>2, WalkMeets
<1>4. Stops(t, k, d, m)
  BY <1>1, <1>3 DEF Stops, Probe
<1> QED
  BY <1>4 DEF ProbeEnds

(* A probe that ends stops at the first slot it may stop at.               *)
LEMMA FirstStop ==
  ASSUME NEW m \in Nat \ {0}, NEW t, NEW k \in Keys, ProbeEnds(t, k, m)
  PROVE  /\ Distance(t, k, m) \in 0 .. m - 1
         /\ Stops(t, k, Distance(t, k, m), m)
         /\ \A c \in 0 .. Distance(t, k, m) - 1 : ~ Stops(t, k, c, m)
<1> DEFINE S == {d \in 0 .. m - 1 : Stops(t, k, d, m)}
<1>1. S \subseteq Nat /\ S # {}
  BY DEF ProbeEnds
<1>2. PICK d \in S : \A c \in S : d <= c
  <2> HIDE DEF S
  <2> QED
    BY <1>1, LeastNatural
<1>3. \A c \in 0 .. d - 1 : ~ Stops(t, k, c, m)
  <2>1. SUFFICES ASSUME NEW c \in 0 .. d - 1, Stops(t, k, c, m) PROVE FALSE
    OBVIOUS
  <2>2. c \in 0 .. m - 1 /\ ~ (d <= c)
    OBVIOUS
  <2> QED
    BY <1>2, <2>1, <2>2
<1>4. d \in 0 .. m - 1 /\ Stops(t, k, d, m)
  OBVIOUS
<1> QED
  BY <1>3, <1>4 DEF Distance

(* A probe looks at slots of the table.                                    *)
LEMMA ProbeInTab ==
  ASSUME NEW m \in Nat \ {0}, NEW k \in Keys, NEW d \in Nat
  PROVE  Probe(k, d, m) \in 0 .. m - 1
<1>1. Hash[k] \in Nat
  BY HashAssumption
<1> DEFINE x == Hash[k] + d
<1>2. x \in Int
  BY <1>1
<1> HIDE DEF x
<1>3. x % m \in 0 .. m - 1
  BY <1>2, Slot
<1> QED
  BY <1>3 DEF x, Probe

(* The slots a probe has passed hold elements.                             *)
LEMMA PassedHold ==
  ASSUME NEW m \in Nat \ {0}, NEW t, NEW k \in Keys, ProbeEnds(t, k, m),
         NEW i \in 1 .. Distance(t, k, m)
  PROVE  t[Back(Probe(k, Distance(t, k, m), m), i, m)] # Empty
<1> DEFINE d == Distance(t, k, m)
<1>1. d \in 0 .. m - 1 /\ \A c \in 0 .. d - 1 : ~ Stops(t, k, c, m)
  BY FirstStop
<1> HIDE DEF d
<1>2. i \in 1 .. d
  BY DEF d
<1>3. Hash[k] \in Nat
  BY HashAssumption
<1>4. d - i \in 0 .. d - 1 /\ i \in 0 .. d
  BY <1>1, <1>2
<1>5. Back(Probe(k, d, m), i, m) = Probe(k, d - i, m)
  BY <1>1, <1>3, <1>4, BackOnProbe DEF Back, Probe
<1>6. ~ Stops(t, k, d - i, m)
  BY <1>1, <1>4
<1> QED
  BY <1>5, <1>6 DEF Stops, d

SwapsRight(t, p, d, m, s) ==
  /\ \A i \in 1 .. s : NearerThan(t, Back(p, i, m), d - i, m)
  /\ s < d => ~NearerThan(t, Back(p, s + 1, m), d - (s + 1), m)

(* The new element goes back as long as the one before is not nearer.      *)
LEMMA SwapsFit ==
  ASSUME NEW m \in Nat \ {0}, NEW t, NEW p, NEW d \in Nat
  PROVE  Swaps(t, p, d, m) \in 0 .. d /\ SwapsRight(t, p, d, m, Swaps(t, p, d, m))
<1> DEFINE T == {i \in 1 .. d : ~ NearerThan(t, Back(p, i, m), d - i, m)}
<1>1. \E s \in 0 .. d : SwapsRight(t, p, d, m, s)
  <2>1. CASE T = {}
    <3>1. SwapsRight(t, p, d, m, d)
      BY <2>1 DEF SwapsRight
    <3> QED
      BY <3>1
  <2>2. CASE T # {}
    <3>1. PICK n \in T : \A i \in T : n <= i
      <4>1. T \subseteq Nat
        OBVIOUS
      <4> HIDE DEF T
      <4> QED
        BY <2>2, <4>1, LeastNatural
    <3>2. n \in 1 .. d /\ ~ NearerThan(t, Back(p, n, m), d - n, m)
      OBVIOUS
    <3>3. \A i \in 1 .. n - 1 : NearerThan(t, Back(p, i, m), d - i, m)
      <4>1. SUFFICES ASSUME NEW i \in 1 .. n - 1, i \in T PROVE FALSE
        BY <3>2
      <4> QED
        BY <3>1, <3>2, <4>1
    <3>4. (n - 1) + 1 = n /\ n - 1 \in 0 .. d
      BY <3>2
    <3> HIDE DEF T
    <3>5. SwapsRight(t, p, d, m, n - 1)
      BY <3>2, <3>3, <3>4 DEF SwapsRight
    <3> QED
      BY <3>4, <3>5
  <2> QED
    BY <2>1, <2>2
<1> QED
  BY <1>1 DEF Swaps, SwapsRight

(* utl_vec_hsh_set fills at most one slot that was empty.                  *)
LEMMA InsertTab ==
  ASSUME NEW m \in Nat \ {0}, NEW t, IsTab(t, m), NEW e \in Elems, ProbeEnds(t, e.key, m)
  PROVE  /\ IsTab(Insert(t, e, m), m)
         /\ Holds(Insert(t, e, m), m) <= Holds(t, m) + 1
<1> DEFINE d == Distance(t, e.key, m)
           p == Probe(e.key, d, m)
           s == Swaps(t, p, d, m)
           u == Insert(t, e, m)
<1>1. e.key \in Keys
  BY DEF Elems
<1>2. d \in 0 .. m - 1
  BY <1>1, FirstStop
<1>3. p \in 0 .. m - 1
  BY <1>1, <1>2, ProbeInTab
<1>4. \A i \in 1 .. d : t[Back(p, i, m)] # Empty
  BY <1>1, PassedHold
<1>5. s \in 0 .. d
  BY <1>2, SwapsFit
<1>6. u = [q \in 0 .. m - 1 |->
             IF q = Back(p, s, m) THEN e
             ELSE IF \E i \in 0 .. s - 1 : q = Back(p, i, m) THEN t[Back(q, 1, m)]
             ELSE t[q]]
  BY DEF Insert
<1> HIDE DEF d, p, s, u
<1>7. \A q \in 0 .. m - 1 : Back(q, 1, m) \in 0 .. m - 1
  <2> TAKE q \in 0 .. m - 1
  <2> DEFINE x == q + m - 1
  <2>1. x \in Int
    OBVIOUS
  <2> HIDE DEF x
  <2>2. x % m \in 0 .. m - 1
    BY <2>1, Slot
  <2> QED
    BY <2>2 DEF x, Back
<1>8. IsTab(u, m)
  BY <1>6, <1>7 DEF IsTab
<1>9. Back(p, 0, m) = p
  <2>1. p + m - 0 = 1 * m + p /\ p + m - 0 \in Int /\ 1 \in Int
    BY <1>3
  <2> QED
    BY <1>3, <2>1, Remainder DEF Back
<1>10. Occ(u, m) \subseteq Occ(t, m) \cup {p}
  <2>1. SUFFICES ASSUME NEW q \in 0 .. m - 1, u[q] # Empty, q # p PROVE t[q] # Empty
    BY DEF Occ
  <2>2. CASE \E i \in 0 .. s : q = Back(p, i, m)
    <3>1. PICK i \in 0 .. s : q = Back(p, i, m)
      BY <2>2
    <3>2. i # 0
      BY <1>9, <2>1, <3>1
    <3>3. i \in 1 .. d
      BY <1>2, <1>5, <3>2
    <3> QED
      BY <1>4, <3>1, <3>3
  <2>3. CASE ~ \E i \in 0 .. s : q = Back(p, i, m)
    <3>1. s \in 0 .. s /\ \A i \in 0 .. s - 1 : i \in 0 .. s
      BY <1>2, <1>5
    <3>2. u[q] = t[q]
      BY <1>6, <2>3, <3>1
    <3> QED
      BY <2>1, <3>2
  <2> QED
    BY <2>2, <2>3
<1>11. Holds(u, m) <= Holds(t, m) + 1
  <2>1. IsFiniteSet(Occ(t, m)) /\ Holds(t, m) \in Nat /\ Holds(u, m) \in Nat
    BY HoldsType
  <2>2. /\ IsFiniteSet(Occ(t, m) \cup {p})
        /\ Cardinality(Occ(t, m) \cup {p}) = Holds(t, m)
           \/ Cardinality(Occ(t, m) \cup {p}) = Holds(t, m) + 1
    BY <2>1, FS_AddElement DEF Holds
  <2>3. Holds(u, m) <= Cardinality(Occ(t, m) \cup {p})
    BY <1>10, <2>2, FS_Subset DEF Holds
  <2> QED
    BY <2>1, <2>2, <2>3
<1> QED
  BY <1>8, <1>11 DEF u

-----------------------------------------------------------------------------
(* Growing. *)

IntoAfter(f, t, m, p) ==
  IF p = 0 THEN NewTab(2 * m)
  ELSE IF t[p - 1] = Empty THEN f[p - 1] ELSE Insert(f[p - 1], t[p - 1], 2 * m)

(* The recursion of Rehash defines a function, up to any slot.             *)
LEMMA IntoExists ==
  ASSUME NEW t, NEW m, NEW N \in Nat
  PROVE  \E f : f = [p \in 0 .. N |-> IntoAfter(f, t, m, p)]
<1> DEFINE Ok(f, n) == f = [p \in 0 .. n |-> IntoAfter(f, t, m, p)]
           Bad == {n \in Nat : ~ \E f : Ok(f, n)}
<1>1. SUFFICES ASSUME Bad # {} PROVE FALSE
  OBVIOUS
<1>2. PICK n \in Bad : \A l \in Bad : n <= l
  BY <1>1, LeastNatural
<1>3. n # 0
  <2>1. Ok([p \in 0 .. 0 |-> NewTab(2 * m)], 0)
    BY DEF IntoAfter
  <2> QED
    BY <2>1, <1>2
<1>4. n \in Nat /\ n - 1 \in Nat /\ ~ (n <= n - 1)
  BY <1>3
<1>5. PICK f : Ok(f, n - 1)
  BY <1>2, <1>4
<1>6. PICK g : g = [p \in 0 .. n |-> IF p = n THEN IntoAfter(f, t, m, n) ELSE f[p]]
  OBVIOUS
<1>7. Ok(g, n)
  <2>1. g[n] = IntoAfter(f, t, m, n) /\ \A p \in 0 .. n - 1 : g[p] = f[p]
    BY <1>4, <1>6
  <2>2. \A p \in 0 .. n - 1 : f[p] = IntoAfter(f, t, m, p)
    BY <1>5
  <2>3. \A p \in 0 .. n - 1 : p = 0 \/ p - 1 \in 0 .. n - 1
    BY <1>4
  <2>4. \A p \in 0 .. n - 1 : g[p] = IntoAfter(g, t, m, p)
    BY <2>1, <2>2, <2>3 DEF IntoAfter
  <2>5. n - 1 \in 0 .. n - 1
    BY <1>4
  <2>6. g[n] = IntoAfter(g, t, m, n)
    BY <2>1, <2>5, <1>3 DEF IntoAfter
  <2>7. \A p \in 0 .. n : p = n \/ p \in 0 .. n - 1
    BY <1>4
  <2> QED
    BY <2>4, <2>6, <2>7, <1>6
<1> QED
  BY <1>2, <1>7

(* The elements in the first n + 1 slots are those in the first n and, if   *)
(* there is one, the last.                                                 *)
LEMMA HoldsNext ==
  ASSUME NEW t, NEW n \in Nat
  PROVE  Holds(t, n + 1) = IF t[n] = Empty THEN Holds(t, n) ELSE Holds(t, n) + 1
<1>1. IsFiniteSet(Occ(t, n)) /\ n \notin Occ(t, n)
  BY HoldsType DEF Occ
<1>2. \A p : p \in 0 .. n + 1 - 1 <=> p = n \/ p \in 0 .. n - 1
  OBVIOUS
<1>3. CASE t[n] = Empty
  <2>1. Occ(t, n + 1) = Occ(t, n)
    BY <1>2, <1>3 DEF Occ
  <2> QED
    BY <1>3, <2>1 DEF Holds
<1>4. CASE t[n] # Empty
  <2>1. Occ(t, n + 1) = Occ(t, n) \cup {n}
    BY <1>2, <1>4 DEF Occ
  <2> QED
    BY <1>1, <1>4, <2>1, FS_AddElement DEF Holds
<1> QED
  BY <1>3, <1>4

(* A table holds no more elements than it has slots.                       *)
LEMMA HoldsAtMost ==
  ASSUME NEW t, NEW n \in Nat
  PROVE  Holds(t, n) <= n
<1>1. IsFiniteSet(0 .. n - 1) /\ Cardinality(0 .. n - 1) = n
  BY FS_Interval
<1>2. Occ(t, n) \in SUBSET (0 .. n - 1)
  BY DEF Occ
<1> QED
  BY <1>1, <1>2, FS_Subset DEF Holds

(* A new table is a table and holds nothing.                               *)
LEMMA HoldsNone ==
  ASSUME NEW m \in Nat \ {0}
  PROVE  IsTab(NewTab(m), m) /\ Holds(NewTab(m), m) = 0
<1>1. Occ(NewTab(m), m) = {}
  BY DEF Occ, NewTab
<1> QED
  BY <1>1, FS_EmptySet DEF Holds, IsTab, NewTab

\* k[n] is the larger table after the first n slots.
Fills(k, t, m) == \A n \in 0 .. m : k[n] = IntoAfter(k, t, m, n)

(* utl_reash takes the slots one after the other.                          *)
LEMMA RehashFills ==
  ASSUME NEW m \in Nat \ {0}, NEW t
  PROVE  \E k : Fills(k, t, m) /\ Rehash(t, m) = k[m]
<1> DEFINE K == CHOOSE f : f = [p \in 0 .. m |-> IntoAfter(f, t, m, p)]
<1>1. K = [p \in 0 .. m |-> IntoAfter(K, t, m, p)]
  BY IntoExists
<1>2. Rehash(t, m) = K[m]
  BY DEF Rehash, IntoAfter
<1> HIDE DEF K
<1>3. Fills(K, t, m)
  BY <1>1 DEF Fills
<1> QED
  BY <1>2, <1>3

FilledTo(k, t, m, n) == IsTab(k[n], 2 * m) /\ Holds(k[n], 2 * m) <= Holds(t, n)

(* The larger table after some slots holds no more elements than they do.  *)
LEMMA FilledTab ==
  ASSUME NEW m \in Nat \ {0}, NEW t, IsTab(t, m), NEW K, Fills(K, t, m)
  PROVE  \A n \in 0 .. m : FilledTo(K, t, m, n)
<1> DEFINE Good1(n) == FilledTo(K, t, m, n)
           Bad == {n \in 0 .. m : ~ Good1(n)}
<1>3. \A p \in 0 .. m : K[p] = IntoAfter(K, t, m, p)
  BY DEF Fills
<1>4. 2 * m \in Nat \ {0}
  OBVIOUS
<1>5. Bad = {}
  <2>1. SUFFICES ASSUME Bad # {} PROVE FALSE
    OBVIOUS
  <2>2. PICK n \in Bad : \A l \in Bad : n <= l
    <3>1. Bad \subseteq Nat
      OBVIOUS
    <3> HIDE DEF Bad
    <3> QED
      BY <2>1, <3>1, LeastNatural
  <2>3. n # 0
    <3>1. K[0] = NewTab(2 * m)
      BY <1>3 DEF IntoAfter
    <3>2. Holds(t, 0) \in Nat
      BY HoldsType
    <3>3. Good1(0)
      BY <1>4, <3>1, <3>2, HoldsNone DEF FilledTo
    <3> QED
      BY <2>2, <3>3
  <2>4. n \in 1 .. m /\ n - 1 \in Nat /\ n - 1 \in 0 .. m /\ ~ (n <= n - 1) /\ (n - 1) + 1 = n
    BY <2>3
  <2>5. Good1(n - 1)
    BY <2>2, <2>4
  <2> DEFINE u == K[n - 1]
             e == t[n - 1]
  <2>6. K[n] = IF e = Empty THEN u ELSE Insert(u, e, 2 * m)
    BY <1>3, <2>4 DEF IntoAfter
  <2>7. Holds(t, n) = IF e = Empty THEN Holds(t, n - 1) ELSE Holds(t, n - 1) + 1
    BY <2>4, HoldsNext
  <2>8. Holds(u, 2 * m) \in Nat /\ Holds(t, n - 1) \in Nat /\ Holds(t, n - 1) <= n - 1
    BY <1>4, <2>4, HoldsType, HoldsAtMost
  <2>9. CASE e = Empty
    BY <2>2, <2>5, <2>6, <2>7, <2>9 DEF FilledTo
  <2>10. CASE e # Empty
    <3>1. e \in Elems
      BY <2>4, <2>10 DEF IsTab
    <3>2. Holds(u, 2 * m) < 2 * m
      BY <2>4, <2>5, <2>8 DEF FilledTo
    <3>3. ProbeEnds(u, e.key, 2 * m)
      BY <1>4, <3>1, <3>2, ProbesEnd DEF Elems
    <3>4. /\ IsTab(Insert(u, e, 2 * m), 2 * m)
          /\ Holds(Insert(u, e, 2 * m), 2 * m) <= Holds(u, 2 * m) + 1
      BY <1>4, <2>5, <3>1, <3>3, InsertTab DEF FilledTo
    <3>5. Holds(Insert(u, e, 2 * m), 2 * m) \in Nat
      BY <1>4, HoldsType
    <3> HIDE DEF u, e
    <3>6. Holds(Insert(u, e, 2 * m), 2 * m) <= Holds(t, n - 1) + 1
      BY <2>5, <2>8, <3>4, <3>5 DEF u, FilledTo
    <3>7. Good1(n)
      BY <2>6, <2>7, <2>10, <3>4, <3>6 DEF FilledTo
    <3> QED
      BY <2>2, <3>7
  <2> QED
    BY <2>9, <2>10
<1> QED
  BY <1>5

(* The larger table holds no more elements than the old one.               *)
LEMMA RehashTab ==
  ASSUME NEW m \in Nat \ {0}, NEW t, IsTab(t, m)
  PROVE  IsTab(Rehash(t, m), 2 * m) /\ Holds(Rehash(t, m), 2 * m) <= Holds(t, m)
<1>1. PICK k : Fills(k, t, m) /\ Rehash(t, m) = k[m]
  BY RehashFills
<1>2. m \in 0 .. m
  OBVIOUS
<1>3. FilledTo(k, t, m, m)
  BY <1>1, <1>2, FilledTab
<1> QED
  BY <1>1, <1>3 DEF FilledTo

-----------------------------------------------------------------------------
(* Removing. *)

(* With an empty slot somewhere the backward shift ends.                   *)
LEMMA ShiftEnds ==
  ASSUME NEW m \in Nat \ {0}, NEW t, Holds(t, m) < m, NEW p \in 0 .. m - 1
  PROVE  /\ Shifted(t, p, m) \in 0 .. m - 1
         /\ EndsShift(t, Fwd(p, Shifted(t, p, m) + 1, m), m)
         /\ \A i \in 1 .. Shifted(t, p, m) : ~ EndsShift(t, Fwd(p, i, m), m)
<1> DEFINE S == {r \in 0 .. m - 1 : EndsShift(t, Fwd(p, r + 1, m), m)}
<1>1. S # {}
  <2>1. PICK q \in 0 .. m - 1 : t[q] = Empty
    BY RoomLeft
  <2>2. PICK d \in 0 .. m - 1 : (p + 1 + d) % m = q
    <3>1. p + 1 \in Nat
      OBVIOUS
    <3> QED
      BY <3>1, WalkMeets
  <2>3. p + (d + 1) = p + 1 + d
    OBVIOUS
  <2>4. EndsShift(t, Fwd(p, d + 1, m), m)
    BY <2>1, <2>2, <2>3 DEF EndsShift, Fwd
  <2> QED
    BY <2>4
<1>2. PICK r \in S : \A l \in S : r <= l
  <2>1. S \subseteq Nat
    OBVIOUS
  <2> HIDE DEF S
  <2> QED
    BY <1>1, <2>1, LeastNatural
<1>3. r \in 0 .. m - 1 /\ EndsShift(t, Fwd(p, r + 1, m), m)
  OBVIOUS
<1>4. ASSUME NEW i \in 1 .. r PROVE ~ EndsShift(t, Fwd(p, i, m), m)
  <2>1. i - 1 \in 0 .. m - 1 /\ ~ (r <= i - 1) /\ (i - 1) + 1 = i
    BY <1>3
  <2> QED
    BY <1>2, <2>1
<1> HIDE DEF S
<1> QED
  BY <1>3, <1>4 DEF Shifted

(* utl_remove_hashed empties one slot that held an element and fills none. *)
LEMMA DeleteTab ==
  ASSUME NEW m \in Nat \ {0}, NEW t, IsTab(t, m), Holds(t, m) < m,
         NEW p \in 0 .. m - 1, t[p] # Empty
  PROVE  IsTab(Delete(t, p, m), m) /\ Holds(Delete(t, p, m), m) <= Holds(t, m) - 1
<1> DEFINE r == Shifted(t, p, m)
           u == Delete(t, p, m)
           f == Fwd(p, r, m)
<1>1. r \in 0 .. m - 1 /\ \A i \in 1 .. r : ~ EndsShift(t, Fwd(p, i, m), m)
  BY ShiftEnds
<1>2. u = [q \in 0 .. m - 1 |->
             IF q = f THEN Empty
             ELSE IF \E i \in 0 .. r - 1 : q = Fwd(p, i, m) THEN t[Fwd(q, 1, m)]
             ELSE t[q]]
  BY DEF Delete
<1> HIDE DEF r, u, f
<1>3. \A q \in 0 .. m - 1, i \in Nat : Fwd(q, i, m) \in 0 .. m - 1
  <2> TAKE q \in 0 .. m - 1, i \in Nat
  <2> DEFINE x == q + i
  <2>1. x \in Int
    OBVIOUS
  <2> HIDE DEF x
  <2>2. x % m \in 0 .. m - 1
    BY <2>1, Slot
  <2> QED
    BY <2>2 DEF x, Fwd
<1>4. IsTab(u, m)
  <2>1. \A q \in 0 .. m - 1 : Fwd(q, 1, m) \in 0 .. m - 1
    BY <1>3
  <2> QED
    BY <1>2, <2>1 DEF IsTab
<1>5. \A i \in 0 .. r : t[Fwd(p, i, m)] # Empty
  <2> TAKE i \in 0 .. r
  <2>1. CASE i = 0
    <3>1. p + 0 = 0 * m + p /\ p + 0 \in Int /\ 0 \in Int
      OBVIOUS
    <3>2. Fwd(p, 0, m) = p
      BY <3>1, Remainder DEF Fwd
    <3> QED
      BY <2>1, <3>2
  <2>2. CASE i # 0
    <3>1. i \in 1 .. r
      BY <1>1, <2>2
    <3> QED
      BY <1>1, <3>1 DEF EndsShift
  <2> QED
    BY <2>1, <2>2
<1>6. f \in Occ(t, m)
  <2>1. r \in 0 .. r /\ r \in Nat
    BY <1>1
  <2> QED
    BY <1>3, <1>5, <2>1 DEF Occ, f
<1>7. Occ(u, m) \subseteq Occ(t, m) \ {f}
  <2>1. SUFFICES ASSUME NEW q \in 0 .. m - 1, u[q] # Empty PROVE q # f /\ t[q] # Empty
    BY DEF Occ
  <2>2. q # f
    BY <1>2, <2>1
  <2>3. CASE \E i \in 0 .. r - 1 : q = Fwd(p, i, m)
    <3>1. \A i \in 0 .. r - 1 : i \in 0 .. r
      BY <1>1
    <3> QED
      BY <1>5, <2>2, <2>3, <3>1
  <2>4. CASE ~ \E i \in 0 .. r - 1 : q = Fwd(p, i, m)
    <3>1. u[q] = t[q]
      BY <1>2, <2>2, <2>4
    <3> QED
      BY <2>1, <2>2, <3>1
  <2> QED
    BY <2>3, <2>4
<1>8. Holds(u, m) <= Holds(t, m) - 1
  <2>1. IsFiniteSet(Occ(t, m)) /\ Holds(t, m) \in Nat
    BY HoldsType
  <2>2. IsFiniteSet(Occ(t, m) \ {f}) /\ Cardinality(Occ(t, m) \ {f}) = Holds(t, m) - 1
    BY <1>6, <2>1, FS_RemoveElement DEF Holds
  <2>3. Holds(u, m) <= Cardinality(Occ(t, m) \ {f})
    BY <1>7, <2>2, FS_Subset DEF Holds
  <2> QED
    BY <2>1, <2>2, <2>3
<1> QED
  BY <1>4, <1>8 DEF u

(* What a search returns is a slot that holds an element, or -1.           *)
LEMMA SearchFinds ==
  ASSUME NEW m \in Nat \ {0}, NEW t, NEW k \in Keys, ProbeEnds(t, k, m)
  PROVE  \/ Search(t, k, m) = -1
         \/ Search(t, k, m) \in 0 .. m - 1 /\ t[Search(t, k, m)] # Empty
<1>1. Distance(t, k, m) \in 0 .. m - 1
  BY FirstStop
<1>2. Probe(k, Distance(t, k, m), m) \in 0 .. m - 1
  BY <1>1, ProbeInTab
<1> QED
  BY <1>2 DEF Search, HasKey

-----------------------------------------------------------------------------
(* The invariant. *)

IInv == TypeOK /\ CountBounds

(* A new set satisfies the invariant.                                      *)
LEMMA InitIInv == ASSUME Init PROVE IInv
<1>1. max \in Nat \ {0} /\ max >= 5 /\ max \in vec_MIN_ELEM .. MaxMax
  BY SizeAssumption DEF Init
<1>2. IsTab(tab, max) /\ Holds(tab, max) = 0
  BY <1>1, HoldsNone DEF Init
<1> QED
  BY <1>1, <1>2 DEF Init, IInv, TypeOK, CountBounds, CountCoversElements, CountBelowSize, IsTab,
                    Holds, Occ, Occupied

(* The facts the steps use.                                                *)
LEMMA IInvFacts ==
  ASSUME IInv
  PROVE  /\ max \in Nat \ {0} /\ max >= 5 /\ max <= MaxMax /\ MaxMax \in Nat
         /\ cnt \in Nat /\ cnt < max
         /\ IsTab(tab, max) /\ Holds(tab, max) \in Nat /\ Holds(tab, max) <= cnt
         /\ Holds(tab, max) < max
<1>1. /\ max \in Nat \ {0} /\ max >= 5 /\ max <= MaxMax /\ MaxMax \in Nat
      /\ cnt \in Nat /\ cnt < max
  BY SizeAssumption DEF IInv, TypeOK, CountBounds, CountBelowSize
<1>2. IsTab(tab, max) /\ Holds(tab, max) <= cnt
  BY DEF IInv, TypeOK, CountBounds, CountCoversElements, IsTab, Holds, Occ, Occupied
<1>3. Holds(tab, max) \in Nat
  BY <1>1, HoldsType
<1> QED
  BY <1>1, <1>2, <1>3

(* What a step must establish.                                             *)
LEMMA IInvAfter ==
  ASSUME max' \in vec_MIN_ELEM .. MaxMax, IsTab(tab', max'), cnt' \in Nat, cnt' < max',
         Holds(tab', max') <= cnt', ret' \in Elems \cup {Empty, Null, Wild}
  PROVE  IInv'
<1>1. max' \in Nat
  BY SizeAssumption
<1>2. cnt' \in 0 .. max'
  BY <1>1
<1>3. TypeOK'
  BY <1>2 DEF TypeOK, IsTab
<1>4. CountBounds'
  <2>1. Occupied' = Occ(tab', max')
    BY DEF Occupied, Occ
  <2> QED
    BY <2>1 DEF CountBounds, CountCoversElements, CountBelowSize, Holds
<1> QED
  BY <1>3, <1>4 DEF IInv

(* Below the load limit one more element still leaves a free slot.  The    *)
(* product must fit in a word.                                             *)
LEMMA RoomForOne ==
  ASSUME IInv, 100 * MaxMax < Word, ~Overloaded
  PROVE  cnt + 1 < max
<1>0. max \in Nat /\ max >= 5 /\ max <= MaxMax /\ MaxMax \in Nat /\ cnt \in Nat /\ cnt < max
  BY IInvFacts
<1>1. cnt * 100 \in Nat /\ cnt * 100 < Word /\ Word \in Nat
  BY <1>0, SizeAssumption
<1>2. (cnt * 100) % Word = cnt * 100
  BY <1>1
<1>3. (cnt * 100) \div 80 < max
  BY <1>0, <1>1, <1>2 DEF Overloaded
<1>4. cnt * 100 < 80 * max
  BY <1>0, <1>3
<1> QED
  BY <1>0, <1>4

(* What an insertion returns is an element or an empty slot of the table.   *)
LEMMA LastSeenType ==
  ASSUME NEW m \in Nat \ {0}, NEW t, IsTab(t, m), NEW e \in Elems, ProbeEnds(t, e.key, m)
  PROVE  LastSeen(t, e, m) \in Elems \cup {Empty}
<1> DEFINE d == Distance(t, e.key, m)
           p == Probe(e.key, d, m)
           s == Swaps(t, p, d, m)
           x == p + m - (s + 1)
<1>1. e.key \in Keys
  BY DEF Elems
<1>2. d \in 0 .. m - 1
  BY <1>1, FirstStop
<1>3. p \in 0 .. m - 1
  BY <1>1, <1>2, ProbeInTab
<1>4. s \in 0 .. d
  BY <1>2, SwapsFit
<1>5. LastSeen(t, e, m) = IF s = d THEN e ELSE t[x % m]
  BY DEF LastSeen, Back
<1> HIDE DEF d, p, s
<1>6. x \in Int
  BY <1>2, <1>3, <1>4
<1> HIDE DEF x
<1>7. x % m \in 0 .. m - 1
  BY <1>6, Slot
<1>8. t[x % m] \in Elems \cup {Empty}
  BY <1>7 DEF IsTab
<1> QED
  BY <1>5, <1>8

(* Storing an element in a table with room for one more.                   *)
LEMMA StoreIInv ==
  ASSUME IInv, NEW e \in Elems, NEW t, NEW m \in vec_MIN_ELEM .. MaxMax,
         IsTab(t, m), Holds(t, m) <= cnt, cnt + 1 < m, Store(e, t, m)
  PROVE  IInv'
<1>1. m \in Nat \ {0} /\ cnt \in Nat
  BY IInvFacts, SizeAssumption
<1>2. ProbeEnds(t, e.key, m) /\ tab' = Insert(t, e, m) /\ max' = m /\ cnt' = cnt + 1
      /\ ret' = LastSeen(t, e, m)
  BY DEF Store
<1>3. IsTab(tab', m) /\ Holds(tab', m) <= Holds(t, m) + 1
  BY <1>1, <1>2, InsertTab
<1>4. Holds(t, m) \in Nat /\ Holds(tab', m) \in Nat
  BY <1>1, HoldsType
<1>5. Holds(tab', m) <= cnt'
  BY <1>1, <1>2, <1>3, <1>4
<1>6. ret' \in Elems \cup {Empty, Null, Wild}
  BY <1>1, <1>2, LastSeenType
<1> QED
  BY <1>1, <1>2, <1>3, <1>5, <1>6, IInvAfter

(* A call that changes nothing but what it returns.                        *)
LEMMA ReadIInv ==
  ASSUME IInv, UNCHANGED << tab, max, cnt >>, ret' \in Elems \cup {Empty, Null, Wild}
  PROVE  IInv'
BY DEF IInv, TypeOK, CountBounds, CountCoversElements, CountBelowSize, Occupied

(* No call breaks the invariant.                                           *)
LEMMA NextIInv ==
  ASSUME IInv, 100 * MaxMax < Word, [Next]_vars
  PROVE  IInv'
<1>0. /\ max \in Nat \ {0} /\ max >= 5 /\ max <= MaxMax /\ MaxMax \in Nat
      /\ cnt \in Nat /\ cnt < max
      /\ IsTab(tab, max) /\ Holds(tab, max) \in Nat /\ Holds(tab, max) <= cnt
      /\ Holds(tab, max) < max
  BY IInvFacts
<1>max. max \in vec_MIN_ELEM .. MaxMax /\ vec_MIN_ELEM \in Nat
  BY SizeAssumption DEF IInv, TypeOK
<1>1. ASSUME NEW e \in Elems, Add(e) PROVE IInv'
  <2>1. CASE ~Overloaded /\ Store(e, tab, max)
    BY <2>1, <1>0, <1>max, RoomForOne, StoreIInv
  <2>2. CASE 2 * max <= MaxMax /\ Store(e, Rehash(tab, max), 2 * max)
    <3> DEFINE t == Rehash(tab, max)
               m == 2 * max
    <3>1. m \in vec_MIN_ELEM .. MaxMax /\ m \in Nat /\ cnt + 1 < m
      BY <1>0, <1>max, <2>2
    <3>2. IsTab(t, m) /\ Holds(t, m) <= Holds(tab, max)
      BY <1>0, RehashTab
    <3>3. Holds(t, m) \in Nat
      BY <3>1, HoldsType
    <3>4. Store(e, t, m)
      BY <2>2
    <3> HIDE DEF t, m
    <3>5. Holds(t, m) <= cnt
      BY <1>0, <3>2, <3>3
    <3> QED
      BY <3>1, <3>2, <3>4, <3>5, StoreIInv
  <2>3. CASE ret' = Null /\ UNCHANGED << tab, max, cnt >>
    BY <2>3, ReadIInv
  <2> QED
    BY <1>1, <2>1, <2>2, <2>3 DEF Add
<1>2. ASSUME NEW k \in Keys, Remove(k) PROVE IInv'
  <2> DEFINE p == Search(tab, k, max)
  <2>1. /\ cnt > 0 /\ ProbeEnds(tab, k, max) /\ max' = max /\ ret' = Null
        /\ tab' = IF p < 0 THEN tab ELSE Delete(tab, p, max)
        /\ cnt' = IF p < 0 THEN cnt ELSE cnt - 1
    BY <1>2 DEF Remove
  <2>2. p = -1 \/ (p \in 0 .. max - 1 /\ tab[p] # Empty)
    BY <1>0, <2>1, SearchFinds
  <2> HIDE DEF p
  <2>3. CASE p = -1
    BY <2>1, <2>3, ReadIInv
  <2>4. CASE p \in 0 .. max - 1 /\ tab[p] # Empty
    <3>1. tab' = Delete(tab, p, max) /\ cnt' = cnt - 1
      BY <1>0, <2>1, <2>4
    <3>2. IsTab(tab', max) /\ Holds(tab', max) <= Holds(tab, max) - 1
      BY <1>0, <2>4, <3>1, DeleteTab
    <3>3. Holds(tab', max) \in Nat
      BY <1>0, HoldsType
    <3>4. cnt' \in Nat /\ cnt' < max /\ Holds(tab', max) <= cnt'
      BY <1>0, <2>1, <3>1, <3>2, <3>3
    <3> QED
      BY <1>max, <2>1, <3>2, <3>4, IInvAfter
  <2> QED
    BY <2>2, <2>3, <2>4
<1>3. ASSUME NEW k \in Keys, Lookup(k) PROVE IInv'
  <2>1. UNCHANGED << tab, max, cnt >>
    BY <1>3 DEF Lookup
  <2>2. ret' \in Elems \cup {Empty, Null, Wild}
    <3>1. CASE cnt = 0 \/ Search(tab, k, max) < 0
      BY <1>3, <3>1 DEF Lookup
    <3>2. CASE ~ (cnt = 0 \/ Search(tab, k, max) < 0)
      <4>1. ProbeEnds(tab, k, max) /\ ret' = tab[Search(tab, k, max)]
        BY <1>3, <3>2 DEF Lookup
      <4>2. Search(tab, k, max) \in 0 .. max - 1
        BY <1>0, <3>2, <4>1, SearchFinds
      <4> QED
        BY <1>0, <4>1, <4>2 DEF IsTab
    <3> QED
      BY <3>1, <3>2
  <2> QED
    BY <2>1, <2>2, ReadIInv
<1>4. CASE First
  <2>1. UNCHANGED << tab, max, cnt >>
    BY <1>4 DEF First
  <2>2. ret' \in Elems \cup {Empty, Null, Wild}
    <3>1. CASE cnt = 0 \/ Occupied = {}
      BY <1>4, <3>1 DEF First
    <3>2. CASE cnt # 0 /\ Occupied # {}
      <4>1. Occupied \subseteq Nat
        BY <1>0 DEF Occupied
      <4>2. \E p \in Occupied : \A q \in Occupied : p <= q
        BY <3>2, <4>1, LeastNatural
      <4> DEFINE p == CHOOSE p \in Occupied : \A q \in Occupied : p <= q
      <4>3. p \in Occupied
        BY <4>2
      <4>4. ret' = tab[p]
        BY <1>4, <3>2 DEF First
      <4> HIDE DEF p
      <4> QED
        BY <1>0, <4>3, <4>4 DEF Occupied, IsTab
    <3> QED
      BY <3>1, <3>2
  <2> QED
    BY <2>1, <2>2, ReadIInv
<1>5. CASE UNCHANGED vars
  BY <1>5 DEF vars, IInv, TypeOK, CountBounds, CountCoversElements, CountBelowSize, Occupied
<1> QED
  BY <1>1, <1>2, <1>3, <1>4, <1>5 DEF Next

-----------------------------------------------------------------------------
(* The theorems.  In 32 bits the premise holds up to 2^25 slots; beyond it  *)
(* utl_vec_add_hashed does not enforce the load limit.                     *)

(* A table keeps its types, however it grows and shrinks.                  *)
THEOREM Typing ==
  ASSUME 100 * MaxMax < Word
  PROVE  Spec => []TypeOK
<1>1. IInv => TypeOK
  BY DEF IInv
<1>2. IInv /\ [Next]_vars => IInv'
  BY NextIInv
<1> QED
  BY InitIInv, <1>1, <1>2, PTL DEF Spec

(* The count covers the elements of the table, although overwriting counts  *)
(* them again, and the load factor keeps it below the number of slots.     *)
THEOREM LoadBound ==
  ASSUME 100 * MaxMax < Word
  PROVE  Spec => []CountBounds
<1>1. IInv => CountBounds
  BY DEF IInv
<1>2. IInv /\ [Next]_vars => IInv'
  BY NextIInv
<1> QED
  BY InitIInv, <1>1, <1>2, PTL DEF Spec

(* Some slot is empty after any sequence of calls, so no probe goes round   *)
(* for ever: neither in vecadd nor in vecsearch or vecremove.              *)
THEOREM ProbesMeetEmptySlot ==
  ASSUME 100 * MaxMax < Word
  PROVE  Spec => []SomeSlotIsEmpty
<1>1. IInv => SomeSlotIsEmpty
  <2> SUFFICES ASSUME IInv PROVE SomeSlotIsEmpty
    OBVIOUS
  <2>1. PICK p \in 0 .. max - 1 : tab[p] = Empty
    BY IInvFacts, RoomLeft
  <2> QED
    BY <2>1 DEF SomeSlotIsEmpty, Occupied
<1>2. IInv /\ [Next]_vars => IInv'
  BY NextIInv
<1> QED
  BY InitIInv, <1>1, <1>2, PTL DEF Spec


-----------------------------------------------------------------------------
(* Tables in which no element is stored before its home slot, past the end. *)

\* Every element is stored at or after its home slot.
NoWrap(t, m) == \A p \in Occ(t, m) : Home(t[p].key, m) <= p

\* No slot is empty between an element's home and its place.
Reached(t, m) ==
  \A p \in Occ(t, m) : \A q \in Home(t[p].key, m) .. p : t[q] # Empty

\* The elements are in the order of their home slots.
Sorted(t, m) ==
  \A p, q \in Occ(t, m) : p <= q => Home(t[p].key, m) <= Home(t[q].key, m)

\* No key is stored twice.
Single(t, m) ==
  \A p, q \in Occ(t, m) : t[p].key = t[q].key => p = q

Good(t, m) ==
  IsTab(t, m) /\ NoWrap(t, m) /\ Reached(t, m) /\ Sorted(t, m) /\ Single(t, m)

Contents(t, m) == {t[p] : p \in Occ(t, m)}

(* A home is a slot.                                                       *)
LEMMA HomeType ==
  ASSUME NEW m \in Nat \ {0}, NEW k \in Keys
  PROVE  Home(k, m) \in 0 .. m - 1
<1>1. Hash[k] \in Nat
  BY HashAssumption
<1> DEFINE x == Hash[k]
<1>2. x \in Int
  BY <1>1
<1> HIDE DEF x
<1>3. x % m \in 0 .. m - 1
  BY <1>2, Slot
<1> QED
  BY <1>3 DEF x, Home

(* What a slot that is not empty holds, and its home.                      *)
LEMMA TabHomes ==
  ASSUME NEW m \in Nat \ {0}, NEW t, IsTab(t, m), NEW p \in 0 .. m - 1, t[p] # Empty
  PROVE  t[p] \in Elems /\ t[p].key \in Keys /\ Home(t[p].key, m) \in 0 .. m - 1
<1>1. t[p] \in Elems
  BY DEF IsTab
<1>2. t[p].key \in Keys
  BY <1>1 DEF Elems
<1> QED
  BY <1>1, <1>2, HomeType

(* A probe goes forward from home and around the end of the table.         *)
LEMMA ProbeAt ==
  ASSUME NEW m \in Nat \ {0}, NEW k \in Keys, NEW d \in 0 .. m - 1
  PROVE  /\ Home(k, m) + d < m => Probe(k, d, m) = Home(k, m) + d
         /\ Home(k, m) + d >= m => Probe(k, d, m) = Home(k, m) + d - m
<1> DEFINE h == Hash[k]
           r == h % m
           j == h \div m
<1>1. h \in Nat
  BY HashAssumption
<1> HIDE DEF h
<1>2. r \in 0 .. m - 1 /\ j \in Int /\ h = j * m + r
  BY <1>1
<1>3. r = Home(k, m) /\ (h + d) % m = Probe(k, d, m)
  BY DEF Home, Probe, h
<1> HIDE DEF r, j
<1> DEFINE x == h + d
<1>4. x \in Int /\ x = j * m + (r + d)
  BY <1>1, <1>2
<1>5. ASSUME r + d < m PROVE x % m = r + d
  <2>1. r + d \in 0 .. m - 1
    BY <1>2, <1>5
  <2> HIDE DEF x
  <2> QED
    BY <1>2, <1>4, <2>1, Remainder
<1>6. ASSUME r + d >= m PROVE x % m = r + d - m
  <2> DEFINE l == j + 1
  <2>1. r + d - m \in 0 .. m - 1 /\ l \in Int /\ x \in Int /\ x = l * m + (r + d - m)
    BY <1>2, <1>4, <1>6
  <2> HIDE DEF x, l
  <2> QED
    BY <2>1, Remainder
<1> QED
  BY <1>3, <1>5, <1>6 DEF x

(* Going back over the first slot comes to the last.                       *)
LEMMA BackAt ==
  ASSUME NEW m \in Nat \ {0}, NEW p \in 0 .. m - 1, NEW i \in 0 .. m - 1
  PROVE  /\ i <= p => Back(p, i, m) = p - i
         /\ i > p => Back(p, i, m) = p - i + m
<1> DEFINE x == p + m - i
<1>1. x \in Int
  OBVIOUS
<1>2. ASSUME i <= p PROVE x % m = p - i
  <2>1. p - i \in 0 .. m - 1 /\ x = 1 * m + (p - i) /\ 1 \in Int
    BY <1>2
  <2> HIDE DEF x
  <2> QED
    BY <1>1, <2>1, Remainder
<1>3. ASSUME i > p PROVE x % m = p - i + m
  <2>1. p - i + m \in 0 .. m - 1 /\ x = 0 * m + (p - i + m) /\ 0 \in Int
    BY <1>3
  <2> HIDE DEF x
  <2> QED
    BY <1>1, <2>1, Remainder
<1> QED
  BY <1>2, <1>3 DEF x, Back

(* Going forward over the last slot comes to the first.                    *)
LEMMA FwdAt ==
  ASSUME NEW m \in Nat \ {0}, NEW p \in 0 .. m - 1, NEW i \in 0 .. m
  PROVE  /\ p + i < m => Fwd(p, i, m) = p + i
         /\ p + i = m => Fwd(p, i, m) = 0
<1> DEFINE x == p + i
<1>1. x \in Int
  OBVIOUS
<1>2. ASSUME p + i < m PROVE x % m = p + i
  <2>1. p + i \in 0 .. m - 1 /\ x = 0 * m + (p + i) /\ 0 \in Int
    BY <1>2
  <2> HIDE DEF x
  <2> QED
    BY <1>1, <2>1, Remainder
<1>3. ASSUME p + i = m PROVE x % m = 0
  <2>1. 0 \in 0 .. m - 1 /\ x = 1 * m + 0 /\ 1 \in Int
    BY <1>3
  <2> HIDE DEF x
  <2> QED
    BY <1>1, <2>1, Remainder
<1> QED
  BY <1>2, <1>3 DEF x, Fwd

-----------------------------------------------------------------------------
(* Inserting without going around the end. *)

InsertAt(t, e, m, a, p) ==
  [q \in 0 .. m - 1 |-> IF q = a THEN e ELSE IF a < q /\ q <= p THEN t[q - 1] ELSE t[q]]

\* p is where the probe for e's key ends and a where e is put.
Placed(t, e, m, a, p) ==
  LET h == Home(e.key, m) IN
  /\ p \in 0 .. m - 1 /\ a \in h .. p
  /\ \A q \in h .. p - 1 : t[q] # Empty /\ t[q].key # e.key
  /\ t[p] = Empty \/ t[p].key = e.key
  /\ \A q \in a .. p - 1 : h <= Home(t[q].key, m) /\ Home(t[q].key, m) <= q
  /\ a > h => Home(t[a - 1].key, m) < h \/ Home(t[a - 1].key, m) > a - 1

(* Nothing was stored before its home slot, so the probe did not go around. *)
LEMMA ProbeStays ==
  ASSUME NEW m \in Nat \ {0}, NEW t, IsTab(t, m), NEW e \in Elems, ProbeEnds(t, e.key, m),
         NoWrap(Insert(t, e, m), m)
  PROVE  Home(e.key, m) + Distance(t, e.key, m) < m
<1> DEFINE h == Home(e.key, m)
           d == Distance(t, e.key, m)
           p == Probe(e.key, d, m)
           s == Swaps(t, p, d, m)
           u == Insert(t, e, m)
<1>0. e.key \in Keys
  BY DEF Elems
<1>1. h \in 0 .. m - 1
  BY <1>0, HomeType
<1>2. d \in 0 .. m - 1
  BY <1>0, FirstStop
<1>3. s \in 0 .. d /\ SwapsRight(t, p, d, m, s)
  BY <1>2, SwapsFit
<1>4. \A i \in 1 .. d : t[Back(p, i, m)] # Empty
  BY <1>0, PassedHold
<1>5. u = [q \in 0 .. m - 1 |->
             IF q = Back(p, s, m) THEN e
             ELSE IF \E i \in 0 .. s - 1 : q = Back(p, i, m) THEN t[Back(q, 1, m)]
             ELSE t[q]]
  BY DEF Insert
<1>6. h + d >= m => p = h + d - m
  BY <1>0, <1>2, ProbeAt
<1>7. NoWrap(u, m)
  OBVIOUS
<1>8. SUFFICES ASSUME h + d >= m PROVE FALSE
  BY <1>1, <1>2
<1>9. e # Empty
  BY HashAssumption
<1> HIDE DEF u, s, p, d, h
<1>10. p = h + d - m /\ p \in 0 .. m - 1 /\ p < h /\ p < d
  BY <1>1, <1>2, <1>6, <1>8
<1>11. CASE s <= p
  <2>1. Back(p, s, m) = p - s /\ p - s \in 0 .. m - 1
    <3>1. s \in 0 .. m - 1 /\ p - s \in 0 .. m - 1
      BY <1>2, <1>3, <1>10, <1>11
    <3> QED
      BY <1>10, <1>11, <3>1, BackAt
  <2>2. u[p - s] = e
    BY <1>5, <2>1
  <2>3. p - s \in Occ(u, m)
    BY <1>9, <2>1, <2>2 DEF Occ
  <2>4. h <= p - s
    BY <1>7, <2>2, <2>3 DEF NoWrap, h
  <2> QED
    BY <1>1, <1>3, <1>10, <2>4
<1>12. CASE s > p
  <2>1. p + 1 \in 1 .. s /\ p + 1 \in 1 .. d /\ p + 1 \in 0 .. m - 1 /\ p + 1 > p
    BY <1>2, <1>3, <1>10, <1>12
  <2>2. Back(p, p + 1, m) = m - 1
    <3>1. Back(p, p + 1, m) = p - (p + 1) + m
      BY <1>10, <2>1, BackAt
    <3> QED
      BY <1>10, <3>1
  <2> DEFINE w == t[m - 1]
             g == Home(w.key, m)
  <2>3. w # Empty
    BY <1>4, <2>1, <2>2
  <2>4. g \in 0 .. m - 1
    <3>1. m - 1 \in 0 .. m - 1
      OBVIOUS
    <3> QED
      BY <2>3, <3>1, TabHomes
  <2>5. NearerThan(t, m - 1, d - (p + 1), m)
    BY <1>3, <2>1, <2>2 DEF SwapsRight
  <2>6. m - 1 - g <= d - (p + 1)
    BY <2>5 DEF NearerThan
  <2>7. Back(p, p, m) = 0
    BY <1>10, BackAt
  <2>8. Back(p, s, m) # 0
    <3>1. s \in 0 .. m - 1 /\ s > p
      BY <1>2, <1>3, <1>12
    <3>2. Back(p, s, m) = p - s + m
      BY <1>10, <3>1, BackAt
    <3> QED
      BY <1>10, <3>1, <3>2
  <2>9. Back(0, 1, m) = m - 1
    <3>1. 0 \in 0 .. m - 1 /\ 1 \in 0 .. m - 1 /\ 1 > 0
      BY <1>2, <1>10
    <3>2. Back(0, 1, m) = 0 - 1 + m
      BY <3>1, BackAt
    <3> QED
      BY <3>2
  <2>10. u[0] = w
    <3>1. p \in 0 .. s - 1 /\ 0 \in 0 .. m - 1
      BY <1>3, <1>10, <1>12
    <3> QED
      BY <1>5, <2>7, <2>8, <2>9, <3>1
  <2>11. g <= 0
    <3>1. 0 \in Occ(u, m)
      BY <2>3, <2>10 DEF Occ
    <3> QED
      BY <1>7, <2>10, <3>1 DEF NoWrap
  <2> HIDE DEF w, g
  <2> QED
    BY <1>2, <1>10, <2>4, <2>6, <2>11
<1> QED
  BY <1>2, <1>3, <1>10, <1>11, <1>12

(* What an insertion does if the probe does not go around the end.         *)
LEMMA InsertPlaces ==
  ASSUME NEW m \in Nat \ {0}, NEW t, IsTab(t, m), NEW e \in Elems, ProbeEnds(t, e.key, m),
         Home(e.key, m) + Distance(t, e.key, m) < m
  PROVE  \E a, p \in 0 .. m - 1 : Placed(t, e, m, a, p) /\ Insert(t, e, m) = InsertAt(t, e, m, a, p)
<1> DEFINE h == Home(e.key, m)
           d == Distance(t, e.key, m)
           p == Probe(e.key, d, m)
           s == Swaps(t, p, d, m)
           u == Insert(t, e, m)
           a == p - s
<1>0. e.key \in Keys
  BY DEF Elems
<1>1. h \in 0 .. m - 1
  BY <1>0, HomeType
<1>2. d \in 0 .. m - 1 /\ Stops(t, e.key, d, m) /\ \A c \in 0 .. d - 1 : ~ Stops(t, e.key, c, m)
  BY <1>0, FirstStop
<1>3. s \in 0 .. d /\ SwapsRight(t, p, d, m, s)
  BY <1>2, SwapsFit
<1>4. u = [q \in 0 .. m - 1 |->
             IF q = Back(p, s, m) THEN e
             ELSE IF \E i \in 0 .. s - 1 : q = Back(p, i, m) THEN t[Back(q, 1, m)]
             ELSE t[q]]
  BY DEF Insert
<1>5. h + d < m
  OBVIOUS
<1>6. p = h + d
  BY <1>0, <1>2, <1>5, ProbeAt
<1>7. t[p] = Empty \/ t[p].key = e.key
  BY <1>2 DEF Stops, HasKey
<1>8. \A c \in 0 .. d - 1 : t[h + c] # Empty /\ t[h + c].key # e.key
  <2> TAKE c \in 0 .. d - 1
  <2>1. c \in 0 .. m - 1 /\ h + c < m
    BY <1>1, <1>2, <1>5
  <2>2. Probe(e.key, c, m) = h + c
    BY <1>0, <2>1, ProbeAt
  <2> QED
    BY <1>2, <2>2 DEF Stops, HasKey
<1> HIDE DEF h, d, p, s, u
<1>9. /\ p \in 0 .. m - 1 /\ a \in 0 .. m - 1 /\ a \in h .. p /\ s <= p /\ p - h = d
      /\ \A q \in 0 .. m - 1 : q \in 0 .. m - 1 /\ (q > 0 => q - 1 \in 0 .. m - 1)
  BY <1>1, <1>2, <1>3, <1>5, <1>6
<1>10. \A i \in 0 .. s : Back(p, i, m) = p - i
  <2> TAKE i \in 0 .. s
  <2>1. i \in 0 .. m - 1 /\ i <= p
    BY <1>2, <1>3, <1>9
  <2> QED
    BY <1>9, <2>1, BackAt
<1>11. u = InsertAt(t, e, m, a, p)
  <2>1. s \in 0 .. s /\ \A i \in 0 .. s - 1 : i \in 0 .. s
    BY <1>2, <1>3
  <2>2. Back(p, s, m) = a
    BY <1>10, <2>1
  <2>3. ASSUME NEW q \in 0 .. m - 1
        PROVE  (\E i \in 0 .. s - 1 : q = Back(p, i, m)) <=> (a < q /\ q <= p)
    <3>1. ASSUME NEW i \in 0 .. s - 1, q = Back(p, i, m) PROVE a < q /\ q <= p
      <4>1. q = p - i
        BY <1>10, <2>1, <3>1
      <4> QED
        BY <1>2, <1>3, <1>9, <4>1
    <3>2. ASSUME a < q, q <= p PROVE \E i \in 0 .. s - 1 : q = Back(p, i, m)
      <4>1. p - q \in 0 .. s - 1 /\ p - (p - q) = q
        BY <1>2, <1>3, <1>9, <3>2
      <4>2. Back(p, p - q, m) = p - (p - q)
        BY <1>10, <2>1, <4>1
      <4> QED
        BY <4>1, <4>2
    <3> QED
      BY <3>1, <3>2
  <2>4. ASSUME NEW q \in 0 .. m - 1, a < q PROVE Back(q, 1, m) = q - 1
    <3>1. 1 \in 0 .. m - 1 /\ 1 <= q
      BY <1>9, <2>4
    <3> QED
      BY <3>1, BackAt
  <2> HIDE DEF a
  <2> QED
    BY <1>4, <2>2, <2>3, <2>4 DEF InsertAt
<1>12. \A q \in h .. p - 1 : t[q] # Empty /\ t[q].key # e.key
  <2> TAKE q \in h .. p - 1
  <2>1. q - h \in 0 .. d - 1 /\ h + (q - h) = q
    BY <1>1, <1>2, <1>9
  <2> QED
    BY <1>8, <2>1
<1>13. \A q \in a .. p - 1 : h <= Home(t[q].key, m) /\ Home(t[q].key, m) <= q
  <2> TAKE q \in a .. p - 1
  <2>1. p - q \in 1 .. s /\ p - q \in 0 .. s /\ p - (p - q) = q /\ d - (p - q) = q - h
    BY <1>1, <1>2, <1>3, <1>9, <1>6
  <2>2. Back(p, p - q, m) = q
    BY <1>10, <2>1
  <2>3. NearerThan(t, q, q - h, m)
    BY <1>3, <2>1, <2>2 DEF SwapsRight
  <2>4. q \in h .. p - 1 /\ q \in 0 .. m - 1
    BY <1>1, <1>9
  <2>5. Home(t[q].key, m) \in 0 .. m - 1
    BY <1>12, <2>4, TabHomes
  <2>6. Home(t[q].key, m) <= q /\ q - Home(t[q].key, m) <= q - h
    BY <2>3 DEF NearerThan
  <2> QED
    BY <1>1, <2>4, <2>5, <2>6
<1>14. ASSUME a > h PROVE Home(t[a - 1].key, m) < h \/ Home(t[a - 1].key, m) > a - 1
  <2>1. /\ s < d /\ s + 1 \in 0 .. m - 1 /\ s + 1 <= p /\ p - (s + 1) = a - 1
        /\ d - (s + 1) = (a - 1) - h /\ a - 1 \in h .. p - 1 /\ a - 1 \in 0 .. m - 1
    BY <1>1, <1>2, <1>3, <1>6, <1>9, <1>14
  <2>2. Back(p, s + 1, m) = a - 1
    BY <1>9, <2>1, BackAt
  <2>3. ~NearerThan(t, a - 1, (a - 1) - h, m)
    BY <1>3, <2>1, <2>2 DEF SwapsRight
  <2>4. Home(t[a - 1].key, m) \in 0 .. m - 1
    BY <1>12, <2>1, TabHomes
  <2>5. ~ (a - 1 >= Home(t[a - 1].key, m) /\ (a - 1) - Home(t[a - 1].key, m) <= (a - 1) - h)
    BY <2>3 DEF NearerThan
  <2> QED
    BY <1>1, <2>1, <2>4, <2>5
<1>15. Placed(t, e, m, a, p)
  <2> HIDE DEF a
  <2> QED
    BY <1>7, <1>9, <1>12, <1>13, <1>14 DEF Placed, h
<1> QED
  BY <1>9, <1>11, <1>15 DEF u
(* An element stored before its home slot stays there.                     *)
LEMMA WrapStays ==
  ASSUME NEW m \in Nat \ {0}, NEW t, IsTab(t, m), NEW e \in Elems, ProbeEnds(t, e.key, m),
         NoWrap(Insert(t, e, m), m)
  PROVE  NoWrap(t, m)
<1> DEFINE h == Home(e.key, m)
           u == Insert(t, e, m)
<1>1. PICK a, p \in 0 .. m - 1 : Placed(t, e, m, a, p) /\ u = InsertAt(t, e, m, a, p)
  <2>1. Home(e.key, m) + Distance(t, e.key, m) < m
    BY ProbeStays
  <2> QED
    BY <2>1, InsertPlaces
<1>2. NoWrap(u, m)
  OBVIOUS
<1> HIDE DEF u
<1>3. SUFFICES ASSUME NEW q \in 0 .. m - 1, t[q] # Empty, Home(t[q].key, m) > q PROVE FALSE
  <2>1. ASSUME NEW q \in 0 .. m - 1, t[q] # Empty PROVE Home(t[q].key, m) \in Nat
    BY <2>1, TabHomes
  <2> QED
    BY <1>3, <2>1 DEF NoWrap, Occ
<1>4. h \in 0 .. m - 1 /\ a \in h .. p
  <2>1. e.key \in Keys
    BY DEF Elems
  <2> QED
    BY <1>1, <2>1, HomeType DEF Placed
<1>5. Home(t[q].key, m) \in 0 .. m - 1
  BY <1>3, TabHomes
<1>6. CASE q \in a .. p - 1
  <2>1. Home(t[q].key, m) <= q
    BY <1>1, <1>6 DEF Placed
  <2> QED
    BY <1>3, <1>5, <2>1
<1>7. CASE q = p
  <2>1. t[q].key = e.key
    BY <1>1, <1>3, <1>7 DEF Placed
  <2>2. Home(t[q].key, m) = h
    BY <2>1
  <2> QED
    BY <1>3, <1>4, <1>7, <2>2
<1>8. CASE q < a \/ q > p
  <2>1. u[q] = t[q]
    BY <1>1, <1>4, <1>8 DEF InsertAt
  <2>2. Home(t[q].key, m) <= q
    BY <1>2, <1>3, <2>1 DEF NoWrap, Occ
  <2> QED
    BY <1>3, <1>5, <2>2
<1> QED
  BY <1>4, <1>6, <1>7, <1>8

(* The only element with a key is the one the probe for that key ends at.  *)
LEMMA KeyPlace ==
  ASSUME NEW m \in Nat \ {0}, NEW t, Good(t, m), NEW e \in Elems, NEW a, NEW p,
         Placed(t, e, m, a, p), NEW q \in 0 .. m - 1, t[q] # Empty, t[q].key = e.key
  PROVE  q = p
<1> DEFINE h == Home(e.key, m)
<1>1. h \in 0 .. m - 1 /\ p \in 0 .. m - 1 /\ p >= h
  <2>1. e.key \in Keys
    BY DEF Elems
  <2>2. h \in 0 .. m - 1
    BY <2>1, HomeType
  <2>3. p \in 0 .. m - 1 /\ a \in h .. p
    BY DEF Placed
  <2> QED
    BY <2>2, <2>3
<1>2. q \in Occ(t, m)
  BY DEF Occ
<1>3. h <= q /\ \A c \in h .. q : t[c] # Empty
  BY <1>2 DEF Good, NoWrap, Reached
<1>4. CASE q < p
  <2>1. q \in h .. p - 1
    BY <1>1, <1>3, <1>4
  <2> QED
    BY <2>1 DEF Placed
<1>5. CASE q > p
  <2>1. p \in h .. q
    BY <1>1, <1>5
  <2>2. t[p] # Empty
    BY <1>3, <2>1
  <2>3. t[p].key = e.key /\ p \in Occ(t, m)
    BY <1>1, <2>2 DEF Placed, Occ
  <2> QED
    BY <1>2, <2>3 DEF Good, Single
<1> QED
  BY <1>1, <1>4, <1>5

\* Where the elements of a table come from after e was put at a.
From(q, a, p) == IF a < q /\ q <= p THEN q - 1 ELSE q

PutFacts(t, e, m, a, p, u) ==
  LET h == Home(e.key, m) IN
  /\ h \in 0 .. m - 1 /\ p \in 0 .. m - 1 /\ a \in 0 .. m - 1 /\ h <= a /\ a <= p
  /\ \A q \in 0 .. m - 1 : q # a => From(q, a, p) \in 0 .. m - 1 /\ u[q] = t[From(q, a, p)]
  /\ u[a] = e
  /\ \A q \in 0 .. m - 1 : u[q] # Empty <=> q = p \/ t[q] # Empty
  /\ \A q \in 0 .. m - 1 : q # a /\ u[q] # Empty => u[q].key # e.key
  /\ \A q \in 0 .. m - 1 : q >= h /\ q < p => t[q] # Empty

(* The table after e was put at a.                                         *)
LEMMA PutIs ==
  ASSUME NEW m \in Nat \ {0}, NEW t, Good(t, m), NEW e \in Elems,
         NEW a \in 0 .. m - 1, NEW p \in 0 .. m - 1,
         Placed(t, e, m, a, p), NEW u, u = InsertAt(t, e, m, a, p)
  PROVE  PutFacts(t, e, m, a, p, u)
<1> DEFINE h == Home(e.key, m)
<1>1. h \in 0 .. m - 1 /\ h <= a /\ a <= p
  <2>1. e.key \in Keys
    BY DEF Elems
  <2>2. h \in 0 .. m - 1
    BY <2>1, HomeType
  <2>3. a \in h .. p
    BY DEF Placed
  <2> QED
    BY <2>2, <2>3
<1>2. \A q \in 0 .. m - 1 : q >= h /\ q < p => t[q] # Empty /\ t[q].key # e.key
  <2> SUFFICES ASSUME NEW q \in 0 .. m - 1, q >= h, q < p PROVE t[q] # Empty /\ t[q].key # e.key
    OBVIOUS
  <2>1. q \in h .. p - 1
    BY <1>1
  <2> QED
    BY <2>1 DEF Placed
<1>3. \A q \in 0 .. m - 1 : q # a => From(q, a, p) \in 0 .. m - 1 /\ u[q] = t[From(q, a, p)]
  BY <1>1 DEF InsertAt, From
<1>4. u[a] = e /\ e # Empty
  BY HashAssumption DEF InsertAt
<1>5. ASSUME NEW q \in 0 .. m - 1 PROVE u[q] # Empty <=> q = p \/ t[q] # Empty
  <2>1. CASE q = a
    <3>1. q # p => t[q] # Empty
      BY <1>1, <1>2, <2>1
    <3> QED
      BY <1>4, <2>1, <3>1
  <2>2. CASE q > a /\ q <= p
    <3>1. u[q] = t[q - 1]
      BY <2>2 DEF InsertAt
    <3>2. q - 1 \in 0 .. m - 1 /\ q - 1 >= h /\ q - 1 < p /\ q >= h /\ (q # p => q < p)
      BY <1>1, <2>2
    <3>3. t[q - 1] # Empty /\ (q # p => t[q] # Empty)
      BY <1>2, <3>2
    <3> QED
      BY <3>1, <3>3
  <2>3. CASE q < a \/ q > p
    <3>1. u[q] = t[q] /\ q # p
      BY <1>1, <2>3 DEF InsertAt
    <3> QED
      BY <3>1
  <2> QED
    BY <1>1, <2>1, <2>2, <2>3
<1>6. ASSUME NEW q \in 0 .. m - 1, q # a, u[q] # Empty, u[q].key = e.key PROVE FALSE
  <2> DEFINE c == From(q, a, p)
  <2>1. c \in 0 .. m - 1 /\ u[q] = t[c]
    BY <1>3, <1>6
  <2>2. c # p
    BY <1>1, <1>6 DEF From
  <2> HIDE DEF c
  <2>3. t[c] # Empty /\ t[c].key = e.key
    BY <1>6, <2>1
  <2> QED
    BY <2>1, <2>2, <2>3, KeyPlace
<1> QED
  BY <1>1, <1>2, <1>3, <1>4, <1>5, <1>6 DEF PutFacts

InsertedIs(t, e, m, u) ==
  /\ Good(u, m)
  /\ Contents(u, m) = {x \in Contents(t, m) : x.key # e.key} \cup {e}

(* Without going around the end an insertion keeps the order, leaves every  *)
(* element reachable, and replaces what had the key.                       *)
LEMMA InsertGood ==
  ASSUME NEW m \in Nat \ {0}, NEW t, Good(t, m), NEW e \in Elems, ProbeEnds(t, e.key, m),
         Home(e.key, m) + Distance(t, e.key, m) < m
  PROVE  InsertedIs(t, e, m, Insert(t, e, m))
<1> DEFINE h == Home(e.key, m)
           u == Insert(t, e, m)
<1>0. IsTab(t, m) /\ NoWrap(t, m) /\ Reached(t, m) /\ Sorted(t, m) /\ Single(t, m)
  BY DEF Good
<1>1. PICK a \in 0 .. m - 1, p \in 0 .. m - 1 : Placed(t, e, m, a, p) /\ u = InsertAt(t, e, m, a, p)
  BY <1>0, InsertPlaces
<1>2. IsTab(u, m)
  BY <1>0, InsertTab
<1> HIDE DEF u
<1>3. PutFacts(t, e, m, a, p, u)
  BY <1>1, PutIs
<1> DEFINE F(q) == From(q, a, p)
<1>4. h \in 0 .. m - 1 /\ p \in 0 .. m - 1 /\ a \in 0 .. m - 1 /\ h <= a /\ a <= p
  BY <1>3 DEF PutFacts
<1>5. \A q \in 0 .. m - 1 : q # a => F(q) \in 0 .. m - 1 /\ u[q] = t[F(q)]
  BY <1>3 DEF PutFacts
<1>6. u[a] = e
  BY <1>3 DEF PutFacts
<1>7. \A q \in 0 .. m - 1 : u[q] # Empty <=> q = p \/ t[q] # Empty
  BY <1>3 DEF PutFacts
<1>8. \A q \in 0 .. m - 1 : q # a /\ u[q] # Empty => u[q].key # e.key
  BY <1>3 DEF PutFacts
<1>9. \A q \in 0 .. m - 1 : q >= h /\ q < p => t[q] # Empty
  BY <1>3 DEF PutFacts
<1>10. ASSUME NEW q \in Occ(u, m), q # a
       PROVE  F(q) \in Occ(t, m) /\ u[q] = t[F(q)] /\ F(q) <= q /\ q \in 0 .. m - 1
  <2>1. q \in 0 .. m - 1 /\ u[q] # Empty
    BY DEF Occ
  <2>2. F(q) \in 0 .. m - 1 /\ u[q] = t[F(q)]
    BY <1>5, <1>10, <2>1
  <2>3. F(q) <= q
    BY <1>4, <2>1 DEF From
  <2> QED
    BY <2>1, <2>2, <2>3 DEF Occ
<1>11. a \in Occ(u, m) /\ e.key \in Keys
  BY <1>4, <1>6, HashAssumption DEF Occ, Elems
<1>12. ASSUME NEW q \in Occ(t, m) PROVE Home(t[q].key, m) \in 0 .. m - 1 /\ Home(t[q].key, m) <= q
  BY <1>0, TabHomes DEF Occ, NoWrap
<1>21. NoWrap(u, m)
  <2>1. SUFFICES ASSUME NEW q \in Occ(u, m) PROVE Home(u[q].key, m) <= q
    BY DEF NoWrap
  <2>2. CASE q = a
    BY <1>4, <1>6, <2>2
  <2>3. CASE q # a
    <3>1. /\ F(q) \in Occ(t, m) /\ u[q] = t[F(q)] /\ F(q) <= q
          /\ q \in 0 .. m - 1 /\ F(q) \in 0 .. m - 1
      BY <1>10, <2>3 DEF Occ
    <3> HIDE DEF F
    <3>2. Home(t[F(q)].key, m) \in 0 .. m - 1 /\ Home(t[F(q)].key, m) <= F(q)
      BY <1>12, <3>1
    <3> QED
      BY <3>1, <3>2
  <2> QED
    BY <2>2, <2>3
<1>13. Reached(u, m)
  <2>1. SUFFICES ASSUME NEW q \in Occ(u, m), NEW c \in Home(u[q].key, m) .. q PROVE u[c] # Empty
    BY DEF Reached
  <2>2. q \in 0 .. m - 1
    BY DEF Occ
  <2>3. CASE q = a
    <3>1. c \in 0 .. m - 1 /\ c >= h /\ (c # p => c < p)
      BY <1>4, <1>6, <2>1, <2>3
    <3> QED
      BY <1>7, <1>9, <3>1
  <2>4. CASE q # a
    <3> DEFINE g == Home(t[F(q)].key, m)
    <3>1. /\ F(q) \in Occ(t, m) /\ u[q] = t[F(q)] /\ F(q) <= q
      BY <1>10, <2>4
    <3>2. g \in 0 .. m - 1 /\ g <= F(q) /\ c \in g .. q
      BY <1>12, <2>1, <3>1
    <3>3. \A i \in g .. F(q) : t[i] # Empty
      BY <1>0, <3>1 DEF Reached
    <3>4. F(q) \in Nat /\ (F(q) = q \/ (F(q) = q - 1 /\ a < q /\ q <= p)) /\ F(q) \in 0 .. m - 1
      BY <2>2, <1>4 DEF From
    <3> HIDE DEF g, F
    <3>5. c \in 0 .. m - 1
      BY <2>2, <3>2
    <3>6. CASE c <= F(q)
      <4>1. c \in g .. F(q)
        BY <3>2, <3>4, <3>5, <3>6
      <4>2. t[c] # Empty
        BY <3>3, <4>1
      <4> QED
        BY <1>7, <3>5, <4>2
    <3>7. CASE c > F(q)
      <4>1. c = q /\ a < q /\ q <= p
        BY <2>2, <3>2, <3>4, <3>5, <3>7
      <4>2. c >= h /\ (c # p => c < p)
        BY <1>4, <3>5, <4>1
      <4> QED
        BY <1>7, <1>9, <3>5, <4>2
    <3> QED
      BY <3>4, <3>5, <3>6, <3>7
  <2> QED
    BY <2>3, <2>4
<1>14. ASSUME NEW q \in Occ(u, m), q < a PROVE Home(t[F(q)].key, m) <= h
  <2>1. F(q) = q /\ q \in Occ(t, m) /\ q \in 0 .. m - 1 /\ q # a
    <3>1. q \in 0 .. m - 1 /\ q # a
      BY <1>4, <1>14 DEF Occ
    <3>2. F(q) = q
      BY <1>4, <1>14, <3>1 DEF From
    <3> QED
      BY <1>10, <3>1, <3>2
  <2>2. Home(t[q].key, m) \in 0 .. m - 1 /\ Home(t[q].key, m) <= q
    BY <1>12, <2>1
  <2>3. CASE a = h
    BY <1>4, <1>14, <2>1, <2>2, <2>3
  <2>4. CASE a > h
    <3>1. a - 1 \in 0 .. m - 1 /\ a - 1 >= h /\ a - 1 < p /\ q <= a - 1
      BY <1>4, <1>14, <2>1, <2>4
    <3>2. a - 1 \in Occ(t, m)
      BY <1>9, <3>1 DEF Occ
    <3>3. Home(t[a - 1].key, m) \in 0 .. m - 1 /\ Home(t[a - 1].key, m) <= a - 1
      BY <1>12, <3>2
    <3>4. Home(t[a - 1].key, m) < h \/ Home(t[a - 1].key, m) > a - 1
      BY <1>1, <2>4 DEF Placed
    <3>5. Home(t[q].key, m) <= Home(t[a - 1].key, m)
      BY <1>0, <2>1, <3>1, <3>2 DEF Sorted
    <3> HIDE DEF F
    <3> QED
      BY <1>4, <2>1, <2>2, <3>1, <3>3, <3>4, <3>5
  <2> QED
    BY <1>4, <2>3, <2>4
<1>15. ASSUME NEW q \in Occ(u, m), q > a PROVE h <= Home(t[F(q)].key, m)
  <2>1. q \in 0 .. m - 1 /\ q # a /\ F(q) \in Occ(t, m) /\ F(q) \in 0 .. m - 1
    <3>1. q \in 0 .. m - 1 /\ q # a
      BY <1>4, <1>15 DEF Occ
    <3> QED
      BY <1>10, <3>1 DEF Occ
  <2>2. CASE q <= p
    <3>1. F(q) \in a .. p - 1
      BY <1>4, <1>15, <2>1, <2>2 DEF From
    <3> HIDE DEF F
    <3> QED
      BY <1>1, <3>1 DEF Placed
  <2>3. CASE q > p
    <3> DEFINE g == Home(t[q].key, m)
    <3>1. F(q) = q
      BY <1>4, <2>1, <2>3 DEF From
    <3>2. q \in Occ(t, m) /\ g \in 0 .. m - 1
      BY <1>12, <2>1, <3>1
    <3>3. CASE g <= p
      <4>1. p \in g .. q
        BY <1>4, <2>1, <2>3, <3>2, <3>3
      <4>2. t[p] # Empty
        BY <1>0, <3>2, <4>1 DEF Reached
      <4>3. t[p].key = e.key /\ p \in Occ(t, m)
        BY <1>1, <1>4, <4>2 DEF Placed, Occ
      <4>4. Home(t[p].key, m) <= g
        BY <1>0, <1>4, <2>1, <2>3, <3>2, <4>3 DEF Sorted
      <4> QED
        BY <3>1, <4>3, <4>4
    <3>4. CASE g > p
      <4> HIDE DEF F
      <4> QED
        BY <1>4, <3>1, <3>2, <3>4
    <3> HIDE DEF F
    <3> QED
      BY <1>4, <3>2, <3>3, <3>4
  <2> QED
    BY <1>4, <2>1, <2>2, <2>3
<1>16. Sorted(u, m)
  <2>1. SUFFICES ASSUME NEW q \in Occ(u, m), NEW c \in Occ(u, m), q <= c
                 PROVE  Home(u[q].key, m) <= Home(u[c].key, m)
    BY DEF Sorted
  <2>2. q \in 0 .. m - 1 /\ c \in 0 .. m - 1
    BY DEF Occ
  <2>3. CASE q = a /\ c = a
    BY <1>4, <1>6, <2>3
  <2>4. CASE q = a /\ c # a
    <3>1. c > a /\ u[c] = t[F(c)]
      BY <1>10, <2>1, <2>2, <2>4
    <3> QED
      BY <1>6, <1>15, <2>4, <3>1
  <2>5. CASE q # a /\ c = a
    <3>1. q < a /\ u[q] = t[F(q)]
      BY <1>10, <2>1, <2>2, <2>5
    <3> QED
      BY <1>6, <1>14, <2>5, <3>1
  <2>6. CASE q # a /\ c # a
    <3>1. u[q] = t[F(q)] /\ u[c] = t[F(c)] /\ F(q) \in Occ(t, m) /\ F(c) \in Occ(t, m)
      BY <1>10, <2>6
    <3>2. F(q) <= F(c)
      BY <1>4, <2>1, <2>2, <2>6 DEF From
    <3> HIDE DEF F
    <3>3. Home(t[F(q)].key, m) <= Home(t[F(c)].key, m)
      BY <1>0, <3>1, <3>2 DEF Sorted
    <3> QED
      BY <3>1, <3>3
  <2> QED
    BY <2>3, <2>4, <2>5, <2>6
<1>17. Single(u, m)
  <2>1. SUFFICES ASSUME NEW q \in Occ(u, m), NEW c \in Occ(u, m), u[q].key = u[c].key, q # c
                 PROVE  FALSE
    BY DEF Single
  <2>2. q \in 0 .. m - 1 /\ c \in 0 .. m - 1 /\ u[q] # Empty /\ u[c] # Empty
    BY DEF Occ
  <2>3. q # a /\ c # a
    BY <1>6, <1>8, <2>1, <2>2
  <2>4. u[q] = t[F(q)] /\ u[c] = t[F(c)] /\ F(q) \in Occ(t, m) /\ F(c) \in Occ(t, m)
    BY <1>10, <2>3
  <2>5. F(q) # F(c)
    BY <1>4, <2>1, <2>2, <2>3 DEF From
  <2> HIDE DEF F
  <2>6. F(q) = F(c)
    BY <1>0, <2>1, <2>4 DEF Single
  <2> QED
    BY <2>5, <2>6
<1>18. Contents(u, m) \subseteq {x \in Contents(t, m) : x.key # e.key} \cup {e}
  <2>1. SUFFICES ASSUME NEW q \in Occ(u, m), q # a
                 PROVE  u[q] \in Contents(t, m) /\ u[q].key # e.key
    BY <1>6 DEF Contents
  <2>2. u[q] = t[F(q)] /\ F(q) \in Occ(t, m)
    BY <1>10, <2>1
  <2>3. u[q].key # e.key
    BY <1>8, <2>1 DEF Occ
  <2> QED
    BY <2>2, <2>3 DEF Contents
<1>19. ASSUME NEW x \in Contents(t, m), x.key # e.key PROVE x \in Contents(u, m)
  <2>1. PICK c \in Occ(t, m) : x = t[c]
    BY DEF Contents
  <2>2. c \in 0 .. m - 1 /\ t[c] # Empty
    BY DEF Occ
  <2>3. c # p
    BY <1>1, <1>19, <2>1, <2>2 DEF Placed
  <2> DEFINE q == IF a <= c /\ c < p THEN c + 1 ELSE c
  <2>4. q \in 0 .. m - 1 /\ q # a /\ F(q) = c
    BY <1>4, <2>2, <2>3 DEF From
  <2> HIDE DEF q, F
  <2>5. u[q] = x
    BY <1>5, <2>1, <2>4
  <2>6. q \in Occ(u, m)
    BY <2>1, <2>2, <2>4, <2>5 DEF Occ
  <2> QED
    BY <2>5, <2>6 DEF Contents
<1>20. e \in Contents(u, m)
  BY <1>6, <1>11 DEF Contents
<1>22. Contents(u, m) = {x \in Contents(t, m) : x.key # e.key} \cup {e}
  BY <1>18, <1>19, <1>20
<1> QED
  BY <1>2, <1>13, <1>16, <1>17, <1>21, <1>22 DEF InsertedIs, Good, u

-----------------------------------------------------------------------------
(* Growing keeps what is in the table. *)

\* One more slot: nothing if it is empty, else its element is inserted.
NextFill(k, t, m, n) ==
  IF t[n] = Empty THEN k[n + 1] = k[n]
  ELSE /\ t[n] \in Elems
       /\ ProbeEnds(k[n], t[n].key, 2 * m)
       /\ k[n + 1] = Insert(k[n], t[n], 2 * m)

(* While the larger table fills, every probe in it ends.                   *)
LEMMA FillsNext ==
  ASSUME NEW m \in Nat \ {0}, NEW t, IsTab(t, m), NEW K, Fills(K, t, m), NEW n \in 0 .. m - 1
  PROVE  NextFill(K, t, m, n) /\ IsTab(K[n], 2 * m)
<1>1. n \in 0 .. m /\ n + 1 \in 0 .. m /\ n + 1 # 0 /\ (n + 1) - 1 = n /\ n \in Nat /\ n < 2 * m
      /\ 2 * m \in Nat \ {0}
  OBVIOUS
<1>2. K[n + 1] = IF t[n] = Empty THEN K[n] ELSE Insert(K[n], t[n], 2 * m)
  BY <1>1 DEF Fills, IntoAfter
<1>3. FilledTo(K, t, m, n)
  BY <1>1, FilledTab
<1>4. Holds(K[n], 2 * m) \in Nat /\ Holds(t, n) \in Nat /\ Holds(t, n) <= n
  BY <1>1, HoldsType, HoldsAtMost
<1>5. Holds(K[n], 2 * m) < 2 * m
  BY <1>1, <1>3, <1>4 DEF FilledTo
<1>6. ASSUME t[n] # Empty PROVE t[n] \in Elems /\ ProbeEnds(K[n], t[n].key, 2 * m)
  <2>1. t[n] \in Elems
    BY <1>6 DEF IsTab
  <2>2. t[n].key \in Keys
    BY <2>1 DEF Elems
  <2> QED
    BY <1>1, <1>5, <2>1, <2>2, ProbesEnd
<1> QED
  BY <1>2, <1>3, <1>6 DEF NextFill, FilledTo

(* What goes around the end of the larger table on the way stays there.    *)
LEMMA NoneWrapsFilling ==
  ASSUME NEW m \in Nat \ {0}, NEW t, IsTab(t, m), NEW K, Fills(K, t, m), NoWrap(K[m], 2 * m)
  PROVE  \A n \in 0 .. m : NoWrap(K[n], 2 * m)
<1> DEFINE Bad == {j \in Nat : j <= m /\ ~ NoWrap(K[m - j], 2 * m)}
<1>1. Bad = {}
  <2>1. SUFFICES ASSUME Bad # {} PROVE FALSE
    OBVIOUS
  <2>2. PICK j \in Bad : \A l \in Bad : j <= l
    BY <2>1, LeastNatural
  <2>3. j \in Nat /\ j <= m /\ ~ NoWrap(K[m - j], 2 * m)
    OBVIOUS
  <2>4. j # 0
    <3>1. m - 0 = m
      OBVIOUS
    <3> QED
      BY <2>3, <3>1
  <2> DEFINE n == m - j
  <2>5. n \in 0 .. m - 1 /\ j - 1 \in Nat /\ j - 1 <= m /\ ~ (j <= j - 1) /\ m - (j - 1) = n + 1
    BY <2>3, <2>4
  <2>6. NoWrap(K[n + 1], 2 * m)
    BY <2>2, <2>5
  <2>7. NextFill(K, t, m, n) /\ IsTab(K[n], 2 * m)
    BY <2>5, FillsNext
  <2>8. 2 * m \in Nat \ {0}
    OBVIOUS
  <2>9. NoWrap(K[n], 2 * m)
    <3> HIDE DEF n
    <3>1. CASE t[n] = Empty
      BY <2>6, <2>7, <3>1 DEF NextFill
    <3>2. CASE t[n] # Empty
      <4>1. /\ t[n] \in Elems /\ ProbeEnds(K[n], t[n].key, 2 * m)
            /\ NoWrap(Insert(K[n], t[n], 2 * m), 2 * m)
        BY <2>6, <2>7, <3>2 DEF NextFill
      <4> QED
        BY <2>7, <2>8, <4>1, WrapStays
    <3> QED
      BY <3>1, <3>2
  <2> QED
    BY <2>3, <2>9
<1>2. SUFFICES ASSUME NEW n \in 0 .. m PROVE NoWrap(K[n], 2 * m)
  OBVIOUS
<1>3. m - n \in Nat /\ m - n <= m /\ m - (m - n) = n
  OBVIOUS
<1> QED
  BY <1>1, <1>3

KeptTo(k, t, m, n) == Good(k[n], 2 * m) /\ Contents(k[n], 2 * m) = Contents(t, n)

(* The elements of the first n + 1 slots are those of the first n and, if   *)
(* there is one, the last.                                                 *)
LEMMA ContentsNext ==
  ASSUME NEW t, NEW n \in Nat
  PROVE  Contents(t, n + 1) =
           IF t[n] = Empty THEN Contents(t, n) ELSE Contents(t, n) \cup {t[n]}
<1>1. \A p : p \in 0 .. n + 1 - 1 <=> p = n \/ p \in 0 .. n - 1
  OBVIOUS
<1> QED
  BY <1>1 DEF Contents, Occ

(* A new table is good and empty.                                          *)
LEMMA NewIsGood ==
  ASSUME NEW m \in Nat \ {0}
  PROVE  Good(NewTab(m), m) /\ Contents(NewTab(m), m) = {}
<1>1. Occ(NewTab(m), m) = {}
  BY DEF Occ, NewTab
<1>2. IsTab(NewTab(m), m)
  BY HoldsNone
<1> QED
  BY <1>1, <1>2 DEF Good, NoWrap, Reached, Sorted, Single, Contents

\* The probe for the next element does not go around the end.
ProbesFit(k, t, m, n) ==
  t[n] # Empty => Home(t[n].key, 2 * m) + Distance(k[n], t[n].key, 2 * m) < 2 * m

(* The larger table is good as long as no probe goes around its end.       *)
LEMMA FilledGood ==
  ASSUME NEW m \in Nat \ {0}, NEW t, Good(t, m), NEW K, Fills(K, t, m),
         \A n \in 0 .. m - 1 : Good(K[n], 2 * m) => ProbesFit(K, t, m, n)
  PROVE  KeptTo(K, t, m, m)
<1> DEFINE Bad == {n \in 0 .. m : ~ KeptTo(K, t, m, n)}
<1>0. IsTab(t, m) /\ Single(t, m)
  BY DEF Good
<1>1. 2 * m \in Nat \ {0}
  OBVIOUS
<1>2. Bad = {}
  <2>1. SUFFICES ASSUME Bad # {} PROVE FALSE
    OBVIOUS
  <2>2. PICK b \in Bad : \A l \in Bad : b <= l
    <3>1. Bad \subseteq Nat
      OBVIOUS
    <3> HIDE DEF Bad
    <3> QED
      BY <2>1, <3>1, LeastNatural
  <2>3. b # 0
    <3>1. K[0] = NewTab(2 * m)
      BY DEF Fills, IntoAfter
    <3>2. Contents(t, 0) = {}
      BY DEF Contents, Occ
    <3>3. KeptTo(K, t, m, 0)
      BY <1>1, <3>1, <3>2, NewIsGood DEF KeptTo
    <3> QED
      BY <2>2, <3>3
  <2> DEFINE n == b - 1
  <2>4. n \in 0 .. m - 1 /\ n \in 0 .. m /\ ~ (b <= n) /\ n + 1 = b /\ n \in Nat /\ b \in 0 .. m
    BY <2>3
  <2>5. KeptTo(K, t, m, n)
    BY <2>2, <2>4
  <2>6. ~ KeptTo(K, t, m, n + 1)
    BY <2>2, <2>4
  <2> HIDE DEF n
  <2>7. NextFill(K, t, m, n) /\ ProbesFit(K, t, m, n)
    BY <1>0, <2>4, <2>5, FillsNext DEF KeptTo
  <2>8. CASE t[n] = Empty
    <3>1. K[n + 1] = K[n] /\ Contents(t, n + 1) = Contents(t, n)
      BY <2>4, <2>7, <2>8, ContentsNext DEF NextFill
    <3> QED
      BY <2>5, <2>6, <3>1 DEF KeptTo
  <2>9. CASE t[n] # Empty
    <3> DEFINE e == t[n]
               u == K[n]
    <3>1. e \in Elems /\ ProbeEnds(u, e.key, 2 * m) /\ K[n + 1] = Insert(u, e, 2 * m)
      BY <2>7, <2>9 DEF NextFill
    <3>2. Home(e.key, 2 * m) + Distance(u, e.key, 2 * m) < 2 * m /\ Good(u, 2 * m)
      BY <2>5, <2>7, <2>9 DEF KeptTo, ProbesFit
    <3> HIDE DEF e, u
    <3>3. InsertedIs(u, e, 2 * m, Insert(u, e, 2 * m))
      BY <1>1, <3>1, <3>2, InsertGood
    <3>4. Contents(t, n + 1) = Contents(t, n) \cup {e}
      BY <2>4, <2>9, ContentsNext DEF e
    <3>5. \A x \in Contents(t, n) : x.key # e.key
      <4>1. SUFFICES ASSUME NEW p \in 0 .. n - 1, t[p] # Empty, t[p].key = t[n].key PROVE FALSE
        BY DEF Contents, Occ, e
      <4>2. p \in Occ(t, m) /\ n \in Occ(t, m) /\ p # n
        BY <2>4, <2>9, <4>1 DEF Occ
      <4> QED
        BY <1>0, <4>1, <4>2 DEF Single
    <3>6. Contents(u, 2 * m) = Contents(t, n)
      BY <2>5 DEF KeptTo, u
    <3>7. Contents(K[n + 1], 2 * m) = Contents(t, n + 1)
      BY <3>1, <3>3, <3>4, <3>5, <3>6 DEF InsertedIs
    <3>8. KeptTo(K, t, m, n + 1)
      BY <3>1, <3>3, <3>7 DEF KeptTo, InsertedIs
    <3> QED
      BY <2>6, <3>8
  <2> QED
    BY <2>8, <2>9
<1>3. m \in 0 .. m
  OBVIOUS
<1> QED
  BY <1>2, <1>3

(* utl_reash moves every element and adds none, if none goes around the end *)
(* of the larger table.                                                    *)
LEMMA RehashGood ==
  ASSUME NEW m \in Nat \ {0}, NEW t, Good(t, m), NoWrap(Rehash(t, m), 2 * m)
  PROVE  Good(Rehash(t, m), 2 * m) /\ Contents(Rehash(t, m), 2 * m) = Contents(t, m)
<1>1. PICK k : Fills(k, t, m) /\ Rehash(t, m) = k[m]
  BY RehashFills
<1>0. IsTab(t, m) /\ 2 * m \in Nat \ {0}
  BY DEF Good
<1>2. ASSUME NEW n \in 0 .. m - 1 PROVE ProbesFit(k, t, m, n)
  <2>1. NoWrap(k[n + 1], 2 * m) /\ NextFill(k, t, m, n) /\ IsTab(k[n], 2 * m)
    BY <1>0, <1>1, FillsNext, NoneWrapsFilling
  <2>2. SUFFICES ASSUME t[n] # Empty
                 PROVE  Home(t[n].key, 2 * m) + Distance(k[n], t[n].key, 2 * m) < 2 * m
    BY DEF ProbesFit
  <2>3. /\ t[n] \in Elems /\ ProbeEnds(k[n], t[n].key, 2 * m)
        /\ NoWrap(Insert(k[n], t[n], 2 * m), 2 * m)
    BY <2>1, <2>2 DEF NextFill
  <2> QED
    BY <1>0, <2>1, <2>3, ProbeStays
<1>3. KeptTo(k, t, m, m)
  BY <1>1, <1>2, FilledGood
<1> QED
  BY <1>1, <1>3 DEF KeptTo

-----------------------------------------------------------------------------
(* Removing without going around the end. *)

\* f is the last slot that moves back over p.
Gap(t, m, p, f) ==
  /\ f \in p .. m - 1
  /\ \A q \in p .. f : t[q] # Empty
  /\ \A q \in p + 1 .. f : Home(t[q].key, m) # q
  /\ f + 1 < m => t[f + 1] = Empty \/ Home(t[f + 1].key, m) = f + 1

DeleteAt(t, m, p, f) ==
  [q \in 0 .. m - 1 |->
     IF q = f THEN Empty ELSE IF p <= q /\ q < f THEN t[q + 1] ELSE t[q]]

(* The shift ends by the end of the table, where none is away from home.   *)
LEMMA DeleteShifts ==
  ASSUME NEW m \in Nat \ {0}, NEW t, Good(t, m), Holds(t, m) < m,
         NEW p \in 0 .. m - 1, t[p] # Empty
  PROVE  \E f \in 0 .. m - 1 : Gap(t, m, p, f) /\ Delete(t, p, m) = DeleteAt(t, m, p, f)
<1> DEFINE r == Shifted(t, p, m)
           u == Delete(t, p, m)
           f == p + r
<1>0. IsTab(t, m) /\ NoWrap(t, m)
  BY DEF Good
<1>1. /\ r \in 0 .. m - 1
      /\ EndsShift(t, Fwd(p, r + 1, m), m)
      /\ \A i \in 1 .. r : ~ EndsShift(t, Fwd(p, i, m), m)
  BY ShiftEnds
<1>3. u = [q \in 0 .. m - 1 |->
             IF q = Fwd(p, r, m) THEN Empty
             ELSE IF \E i \in 0 .. r - 1 : q = Fwd(p, i, m) THEN t[Fwd(q, 1, m)]
             ELSE t[q]]
  BY DEF Delete
<1> HIDE DEF r, u
<1>4. p + r < m
  <2>1. SUFFICES ASSUME p + r >= m PROVE FALSE
    BY <1>1
  <2>2. m - p \in 1 .. r /\ m - p \in 0 .. m /\ p + (m - p) = m
    BY <1>1, <2>1
  <2>3. Fwd(p, m - p, m) = 0
    BY <2>2, FwdAt
  <2>4. ~ EndsShift(t, 0, m)
    BY <1>1, <2>2, <2>3
  <2>5. 0 \in 0 .. m - 1
    OBVIOUS
  <2>6. t[0] # Empty /\ Home(t[0].key, m) # 0
    BY <2>4 DEF EndsShift
  <2>7. Home(t[0].key, m) \in 0 .. m - 1
    BY <1>0, <2>5, <2>6, TabHomes
  <2>8. Home(t[0].key, m) <= 0
    BY <1>0, <2>5, <2>6 DEF NoWrap, Occ
  <2> QED
    BY <2>6, <2>7, <2>8
<1>5. f \in 0 .. m - 1 /\ f \in p .. m - 1
  BY <1>1, <1>4
<1>6. \A i \in 0 .. r : Fwd(p, i, m) = p + i
  <2> TAKE i \in 0 .. r
  <2>1. i \in 0 .. m /\ p + i < m
    BY <1>1, <1>4
  <2> QED
    BY <2>1, FwdAt
<1>7. ASSUME NEW q \in p + 1 .. f PROVE t[q] # Empty /\ Home(t[q].key, m) # q
  <2>1. q - p \in 1 .. r /\ q - p \in 0 .. r /\ p + (q - p) = q
    BY <1>1
  <2>2. Fwd(p, q - p, m) = q
    BY <1>6, <2>1
  <2>3. ~ EndsShift(t, q, m)
    BY <1>1, <2>1, <2>2
  <2> QED
    BY <2>3 DEF EndsShift
<1>8. ASSUME f + 1 < m PROVE t[f + 1] = Empty \/ Home(t[f + 1].key, m) = f + 1
  <2>1. r + 1 \in 0 .. m /\ p + (r + 1) < m /\ p + (r + 1) = f + 1
    BY <1>1, <1>4, <1>8
  <2> HIDE DEF f
  <2>2. Fwd(p, r + 1, m) = f + 1
    BY <2>1, FwdAt
  <2> QED
    BY <1>1, <2>2 DEF EndsShift
<1>9. Gap(t, m, p, f)
  <2>1. \A q \in p .. f : q = p \/ q \in p + 1 .. f
    BY <1>5
  <2> HIDE DEF f
  <2> QED
    BY <1>5, <1>7, <1>8, <2>1 DEF Gap
<1>10. u = DeleteAt(t, m, p, f)
  <2>1. r \in 0 .. r /\ \A i \in 0 .. r - 1 : i \in 0 .. r
    BY <1>1
  <2>2. Fwd(p, r, m) = f
    BY <1>6, <2>1
  <2>3. ASSUME NEW q \in 0 .. m - 1
        PROVE  (\E i \in 0 .. r - 1 : q = Fwd(p, i, m)) <=> (p <= q /\ q < f)
    <3>1. ASSUME NEW i \in 0 .. r - 1, q = Fwd(p, i, m) PROVE p <= q /\ q < f
      <4>1. q = p + i
        BY <1>6, <2>1, <3>1
      <4> QED
        BY <1>1, <4>1
    <3>2. ASSUME p <= q, q < f PROVE \E i \in 0 .. r - 1 : q = Fwd(p, i, m)
      <4>1. q - p \in 0 .. r - 1 /\ p + (q - p) = q
        BY <1>1, <3>2
      <4>2. Fwd(p, q - p, m) = q
        BY <1>6, <2>1, <4>1
      <4> QED
        BY <4>1, <4>2
    <3> QED
      BY <3>1, <3>2
  <2>4. ASSUME NEW q \in 0 .. m - 1, q < f PROVE Fwd(q, 1, m) = q + 1
    <3>1. 1 \in 0 .. m /\ q + 1 < m
      BY <1>5, <2>4
    <3> QED
      BY <3>1, FwdAt
  <2> HIDE DEF f
  <2> QED
    BY <1>3, <2>2, <2>3, <2>4 DEF DeleteAt
<1> QED
  BY <1>5, <1>9, <1>10 DEF u

DeletedIs(t, k, m, u) ==
  /\ Good(u, m)
  /\ Contents(u, m) = {x \in Contents(t, m) : x.key # k}

(* Without going around the end a removal takes out one element and leaves  *)
(* the others reachable and in order.                                      *)
LEMMA DeleteGood ==
  ASSUME NEW m \in Nat \ {0}, NEW t, Good(t, m), Holds(t, m) < m,
         NEW p \in 0 .. m - 1, t[p] # Empty
  PROVE  DeletedIs(t, t[p].key, m, Delete(t, p, m))
<1> DEFINE u == Delete(t, p, m)
<1>0. IsTab(t, m) /\ NoWrap(t, m) /\ Reached(t, m) /\ Sorted(t, m) /\ Single(t, m)
  BY DEF Good
<1>1. PICK f \in 0 .. m - 1 : Gap(t, m, p, f) /\ u = DeleteAt(t, m, p, f)
  BY DeleteShifts
<1>2. IsTab(u, m)
  BY <1>0, DeleteTab
<1> HIDE DEF u
<1> DEFINE F(q) == IF p <= q /\ q < f THEN q + 1 ELSE q
<1>3. p <= f
  BY <1>1 DEF Gap
<1>4. \A q \in 0 .. m - 1 : q # f => F(q) \in 0 .. m - 1 /\ u[q] = t[F(q)]
  BY <1>1, <1>3 DEF DeleteAt
<1>5. u[f] = Empty
  BY <1>1 DEF DeleteAt
<1>6. ASSUME NEW q \in Occ(u, m)
      PROVE  F(q) \in Occ(t, m) /\ u[q] = t[F(q)] /\ q \in 0 .. m - 1 /\ q # f /\ F(q) # p
  <2>1. q \in 0 .. m - 1 /\ u[q] # Empty /\ q # f
    BY <1>5 DEF Occ
  <2>2. F(q) # p
    BY <1>3, <2>1
  <2> QED
    BY <1>4, <2>1, <2>2 DEF Occ
<1>7. ASSUME NEW q \in Occ(t, m) PROVE Home(t[q].key, m) \in 0 .. m - 1 /\ Home(t[q].key, m) <= q
  BY <1>0, TabHomes DEF Occ, NoWrap
<1>8. ASSUME NEW q \in Occ(u, m) PROVE Home(u[q].key, m) <= q /\ Home(u[q].key, m) \in 0 .. m - 1
  <2>1. F(q) \in Occ(t, m) /\ u[q] = t[F(q)] /\ q \in 0 .. m - 1
    BY <1>6
  <2> DEFINE g == Home(t[F(q)].key, m)
  <2>2. g \in 0 .. m - 1 /\ g <= F(q)
    BY <1>7, <2>1
  <2>3. CASE p <= q /\ q < f
    <3>1. F(q) = q + 1 /\ q + 1 \in p + 1 .. f
      BY <2>1, <2>3
    <3>2. g # q + 1
      BY <1>1, <3>1 DEF Gap
    <3> HIDE DEF g
    <3>3. g <= q
      BY <2>1, <2>2, <3>1, <3>2
    <3> QED
      BY <2>1, <2>2, <3>3 DEF g
  <2>4. CASE ~ (p <= q /\ q < f)
    BY <2>1, <2>2, <2>4
  <2> QED
    BY <2>3, <2>4
<1>9. NoWrap(u, m)
  BY <1>8 DEF NoWrap
<1>10. Reached(u, m)
  <2>1. SUFFICES ASSUME NEW q \in Occ(u, m), NEW c \in Home(u[q].key, m) .. q PROVE u[c] # Empty
    BY DEF Reached
  <2> DEFINE g == Home(u[q].key, m)
  <2>2. F(q) \in Occ(t, m) /\ u[q] = t[F(q)] /\ q \in 0 .. m - 1 /\ q # f
    BY <1>6
  <2>3. g <= q /\ g \in 0 .. m - 1
    BY <1>8
  <2>4. \A i \in g .. F(q) : t[i] # Empty
    BY <1>0, <2>2 DEF Reached
  <2>5. c \in 0 .. m - 1 /\ g <= c /\ c <= q
    BY <2>2, <2>3
  <2> HIDE DEF g
  <2>6. CASE p <= c /\ c < f
    <3>1. u[c] = t[c + 1] /\ c + 1 \in p .. f
      BY <1>1, <2>5, <2>6 DEF DeleteAt
    <3> QED
      BY <1>1, <3>1 DEF Gap
  <2>7. CASE c < p \/ c > f
    <3>1. c \in g .. F(q)
      BY <2>2, <2>3, <2>5
    <3>2. u[c] = t[c]
      BY <1>1, <1>3, <2>5, <2>7 DEF DeleteAt
    <3> QED
      BY <2>4, <3>1, <3>2
  <2>8. CASE c = f
    <3>1. q > f /\ F(q) = q
      BY <2>2, <2>5, <2>8
    <3>2. f + 1 \in g .. F(q) /\ f + 1 < m /\ f + 1 \in 0 .. m - 1 /\ f + 1 <= q
      BY <2>2, <2>3, <2>5, <2>8, <3>1
    <3>3. t[f + 1] # Empty
      BY <2>4, <3>2
    <3>4. Home(t[f + 1].key, m) = f + 1
      BY <1>1, <3>2, <3>3 DEF Gap
    <3>5. f + 1 \in Occ(t, m)
      BY <3>2, <3>3 DEF Occ
    <3>6. q \in Occ(t, m) /\ g = Home(t[q].key, m)
      BY <2>2, <3>1 DEF g
    <3>7. f + 1 <= g
      BY <1>0, <3>2, <3>4, <3>5, <3>6 DEF Sorted
    <3> QED
      BY <2>3, <2>5, <2>8, <3>7
  <2> QED
    BY <2>5, <2>6, <2>7, <2>8
<1>11. Sorted(u, m)
  <2>1. SUFFICES ASSUME NEW q \in Occ(u, m), NEW c \in Occ(u, m), q <= c
                 PROVE  Home(u[q].key, m) <= Home(u[c].key, m)
    BY DEF Sorted
  <2>2. /\ F(q) \in Occ(t, m) /\ u[q] = t[F(q)] /\ q \in 0 .. m - 1
        /\ F(c) \in Occ(t, m) /\ u[c] = t[F(c)] /\ c \in 0 .. m - 1
    BY <1>6
  <2>3. F(q) <= F(c)
    BY <1>6, <2>1, <2>2
  <2> HIDE DEF F
  <2>4. Home(t[F(q)].key, m) <= Home(t[F(c)].key, m)
    BY <1>0, <2>2, <2>3 DEF Sorted
  <2> QED
    BY <2>2, <2>4
<1>12. Single(u, m)
  <2>1. SUFFICES ASSUME NEW q \in Occ(u, m), NEW c \in Occ(u, m), u[q].key = u[c].key, q # c
                 PROVE  FALSE
    BY DEF Single
  <2>2. /\ F(q) \in Occ(t, m) /\ u[q] = t[F(q)] /\ q \in 0 .. m - 1 /\ q # f
        /\ F(c) \in Occ(t, m) /\ u[c] = t[F(c)] /\ c \in 0 .. m - 1 /\ c # f
    BY <1>6
  <2>3. F(q) # F(c)
    BY <2>1, <2>2
  <2> HIDE DEF F
  <2> QED
    BY <1>0, <2>1, <2>2, <2>3 DEF Single
<1>13. p \in Occ(t, m)
  BY DEF Occ
<1>14. ASSUME NEW q \in Occ(u, m) PROVE u[q] \in Contents(t, m) /\ u[q].key # t[p].key
  <2>1. F(q) \in Occ(t, m) /\ u[q] = t[F(q)] /\ F(q) # p
    BY <1>6
  <2> HIDE DEF F
  <2> QED
    BY <1>0, <1>13, <2>1 DEF Contents, Single
<1>15. ASSUME NEW x \in Contents(t, m), x.key # t[p].key PROVE x \in Contents(u, m)
  <2>1. PICK c \in Occ(t, m) : x = t[c]
    BY DEF Contents
  <2>2. c # p /\ c \in 0 .. m - 1 /\ t[c] # Empty
    BY <1>15, <2>1 DEF Occ
  <2> DEFINE q == IF p < c /\ c <= f THEN c - 1 ELSE c
  <2>3. q \in 0 .. m - 1 /\ q # f /\ F(q) = c
    BY <1>3, <2>2
  <2> HIDE DEF q, F
  <2>4. u[q] = x
    BY <1>4, <2>1, <2>3
  <2>5. q \in Occ(u, m)
    BY <2>1, <2>2, <2>3, <2>4 DEF Occ
  <2> QED
    BY <2>4, <2>5 DEF Contents
<1>16. Contents(u, m) = {x \in Contents(t, m) : x.key # t[p].key}
  <2>1. Contents(u, m) \subseteq {x \in Contents(t, m) : x.key # t[p].key}
    BY <1>14 DEF Contents
  <2> QED
    BY <1>15, <2>1
<1> QED
  BY <1>2, <1>9, <1>10, <1>11, <1>12, <1>16 DEF DeletedIs, Good, u

-----------------------------------------------------------------------------
(* What a search finds. *)

(* In a good table utl_search_hashed returns the slot of every element.    *)
LEMMA SearchHit ==
  ASSUME NEW m \in Nat \ {0}, NEW t, Good(t, m), NEW p \in Occ(t, m)
  PROVE  ProbeEnds(t, t[p].key, m) /\ Search(t, t[p].key, m) = p
<1> DEFINE k == t[p].key
           g == Home(k, m)
           c == p - g
           d == Distance(t, k, m)
<1>0. p \in 0 .. m - 1 /\ t[p] # Empty
  BY DEF Occ
<1>1. k \in Keys /\ g \in 0 .. m - 1 /\ g <= p
  BY <1>0, TabHomes DEF Good, NoWrap
<1>2. \A q \in g .. p : t[q] # Empty
  BY DEF Good, Reached
<1> HIDE DEF k, g
<1>3. c \in 0 .. m - 1 /\ g + c < m /\ g + c = p
  BY <1>0, <1>1
<1>4. Probe(k, c, m) = p
  BY <1>1, <1>3, ProbeAt DEF g
<1>5. Stops(t, k, c, m)
  BY <1>0, <1>4 DEF Stops, HasKey, k
<1>6. ProbeEnds(t, k, m)
  BY <1>3, <1>5 DEF ProbeEnds
<1>7. d \in 0 .. m - 1 /\ Stops(t, k, d, m) /\ \A i \in 0 .. d - 1 : ~ Stops(t, k, i, m)
  BY <1>1, <1>6, FirstStop
<1> HIDE DEF c, d
<1>8. ~ (c < d)
  BY <1>3, <1>5, <1>7
<1>9. ~ (d < c)
  <2>1. SUFFICES ASSUME d < c PROVE FALSE
    OBVIOUS
  <2>2. g + d \in g .. p /\ g + d < m /\ g + d # p /\ g + d \in 0 .. m - 1
    BY <1>0, <1>1, <1>3, <1>7, <2>1
  <2>3. Probe(k, d, m) = g + d
    BY <1>1, <1>7, <2>2, ProbeAt DEF g
  <2>4. t[g + d] # Empty
    BY <1>2, <2>2
  <2>5. t[g + d].key = k
    BY <1>7, <2>3, <2>4 DEF Stops, HasKey
  <2>6. g + d \in Occ(t, m)
    BY <2>2, <2>4 DEF Occ
  <2> QED
    BY <2>2, <2>5, <2>6 DEF Good, Single, k
<1>10. d = c
  BY <1>3, <1>7, <1>8, <1>9
<1>11. Search(t, k, m) = p
  BY <1>0, <1>4, <1>10 DEF Search, HasKey, k, d
<1> QED
  BY <1>6, <1>11 DEF k

(* A search for a key that no element has returns -1.                      *)
LEMMA SearchMiss ==
  ASSUME NEW m \in Nat \ {0}, NEW t, NEW k \in Keys, ProbeEnds(t, k, m),
         \A p \in Occ(t, m) : t[p].key # k
  PROVE  Search(t, k, m) = -1
<1>1. Distance(t, k, m) \in 0 .. m - 1
  BY FirstStop
<1>2. Probe(k, Distance(t, k, m), m) \in 0 .. m - 1
  BY <1>1, ProbeInTab
<1> QED
  BY <1>2 DEF Search, HasKey, Occ

\* g says what callers find in a table that holds c.
IsMapOf(g, c) ==
  /\ g = [k \in Keys |-> g[k]]
  /\ \A x \in c : x \in Elems /\ g[x.key] = x.val
  /\ \A k \in Keys : (\A x \in c : x.key # k) => g[k] = Absent

(* Callers find exactly the elements of a good table.                      *)
LEMMA FoundIs ==
  ASSUME IInv, Good(tab, max)
  PROVE  IsMapOf(Found, Contents(tab, max))
<1>0. max \in Nat \ {0} /\ IsTab(tab, max) /\ Holds(tab, max) < max
  BY IInvFacts
<1>1. Found = [k \in Keys |-> Found[k]]
  BY DEF Found
<1>2. ASSUME NEW p \in Occ(tab, max) PROVE tab[p] \in Elems /\ Found[tab[p].key] = tab[p].val
  <2>1. p \in 0 .. max - 1 /\ tab[p] \in Elems /\ tab[p].key \in Keys
    BY <1>0, TabHomes DEF Occ
  <2>2. ProbeEnds(tab, tab[p].key, max) /\ Search(tab, tab[p].key, max) = p
    BY <1>0, SearchHit
  <2>3. ~ (p < 0)
    BY <2>1
  <2> QED
    BY <2>1, <2>2, <2>3 DEF Found
<1>3. ASSUME NEW k \in Keys, \A x \in Contents(tab, max) : x.key # k PROVE Found[k] = Absent
  <2>1. ProbeEnds(tab, k, max)
    BY <1>0, ProbesEnd
  <2>2. Search(tab, k, max) = -1
    BY <1>0, <1>3, <2>1, SearchMiss DEF Contents
  <2>3. -1 < 0
    OBVIOUS
  <2> QED
    BY <2>1, <2>2, <2>3 DEF Found
<1> QED
  BY <1>1, <1>2, <1>3 DEF IsMapOf, Contents

-----------------------------------------------------------------------------
(* The steps. *)

\* No element is stored before its home slot, where a probe that goes around
\* the end of the table comes to: the slots for which the swap at utl_vec.c:632
\* and the shift at utl_vec.c:571 agree on the order.
NoElementWraps == \A p \in Occupied : Home(tab[p].key, max) <= p

FInv == IInv /\ Good(tab, max)

StepKeeps(c, d) ==
  \/ \E e \in Elems : d = {x \in c : x.key # e.key} \cup {e}
  \/ \E k \in Keys : d = {x \in c : x.key # k}
  \/ d = c

StepIs == Good(tab', max') /\ StepKeeps(Contents(tab, max), Contents(tab', max'))

(* Storing an element in a good table, the old one or the larger one.      *)
LEMMA StoreStep ==
  ASSUME NEW m \in Nat \ {0}, NEW t, Good(t, m), Contents(t, m) = Contents(tab, max),
         NEW e \in Elems, Store(e, t, m), NoWrap(tab', max')
  PROVE  StepIs
<1>1. ProbeEnds(t, e.key, m) /\ tab' = Insert(t, e, m) /\ max' = m
  BY DEF Store
<1>2. Home(e.key, m) + Distance(t, e.key, m) < m
  <2>1. NoWrap(Insert(t, e, m), m) /\ IsTab(t, m)
    BY <1>1 DEF Good
  <2> QED
    BY <1>1, <2>1, ProbeStays
<1>3. InsertedIs(t, e, m, Insert(t, e, m))
  BY <1>1, <1>2, InsertGood
<1>4. InsertedIs(t, e, m, tab') /\ max' = m
  BY <1>1, <1>3
<1> QED
  BY <1>4 DEF InsertedIs, StepIs, StepKeeps

(* A call that leaves the table alone.                                     *)
LEMMA SameStep ==
  ASSUME Good(tab, max), UNCHANGED << tab, max >>
  PROVE  StepIs
BY DEF StepIs, StepKeeps

(* A step of a table in which nothing goes around the end.                 *)
LEMMA NextStep ==
  ASSUME FInv, NoElementWraps', [Next]_vars
  PROVE  StepIs
<1>0. /\ max \in Nat \ {0} /\ IsTab(tab, max) /\ Holds(tab, max) < max /\ Good(tab, max)
      /\ 2 * max \in Nat \ {0}
  BY IInvFacts DEF FInv
<1>1. NoWrap(tab', max')
  BY DEF NoElementWraps, NoWrap, Occupied, Occ
<1>2. ASSUME NEW e \in Elems, Add(e) PROVE StepIs
  <2>1. CASE ~Overloaded /\ Store(e, tab, max)
    BY <1>0, <1>1, <2>1, StoreStep
  <2>2. CASE Store(e, Rehash(tab, max), 2 * max)
    <3> DEFINE t == Rehash(tab, max)
               m == 2 * max
    <3>1. m \in Nat \ {0} /\ IsTab(t, m)
      BY <1>0, RehashTab
    <3>2. ProbeEnds(t, e.key, m) /\ tab' = Insert(t, e, m) /\ max' = m
      BY <2>2 DEF Store
    <3>3. NoWrap(Insert(t, e, m), m)
      BY <1>1, <3>2
    <3>4. NoWrap(t, m)
      <4> HIDE DEF t, m
      <4> QED
        BY <3>1, <3>2, <3>3, WrapStays
    <3>5. Good(t, m) /\ Contents(t, m) = Contents(tab, max)
      BY <1>0, <3>4, RehashGood
    <3>6. Store(e, t, m)
      BY <2>2
    <3> HIDE DEF t, m
    <3> QED
      BY <1>1, <3>1, <3>5, <3>6, StoreStep
  <2>3. CASE UNCHANGED << tab, max >>
    BY <1>0, <2>3, SameStep
  <2> QED
    BY <1>2, <2>1, <2>2, <2>3 DEF Add
<1>3. ASSUME NEW k \in Keys, Remove(k) PROVE StepIs
  <2> DEFINE p == Search(tab, k, max)
  <2>1. /\ ProbeEnds(tab, k, max) /\ max' = max
        /\ tab' = IF p < 0 THEN tab ELSE Delete(tab, p, max)
    BY <1>3 DEF Remove
  <2>2. p = -1 \/ (p \in 0 .. max - 1 /\ tab[p] # Empty)
    BY <1>0, <2>1, SearchFinds
  <2>3. CASE p = -1
    <3> HIDE DEF p
    <3>1. -1 < 0
      OBVIOUS
    <3> QED
      BY <1>0, <2>1, <2>3, <3>1, SameStep
  <2>4. CASE p \in 0 .. max - 1 /\ tab[p] # Empty
    <3>1. ~ (p < 0)
      BY <1>0, <2>4
    <3> HIDE DEF p
    <3>2. tab' = Delete(tab, p, max) /\ max' = max
      BY <2>1, <3>1
    <3>3. DeletedIs(tab, tab[p].key, max, tab')
      BY <1>0, <2>4, <3>2, DeleteGood
    <3>4. tab[p].key \in Keys
      BY <1>0, <2>4, TabHomes
    <3> QED
      BY <3>2, <3>3, <3>4 DEF DeletedIs, StepIs, StepKeeps
  <2> QED
    BY <2>2, <2>3, <2>4
<1>4. ASSUME UNCHANGED << tab, max >> PROVE StepIs
  BY <1>0, <1>4, SameStep
<1> QED
  BY <1>2, <1>3, <1>4 DEF Next, Lookup, First, vars

(* What callers find changes as in the set of elements.                    *)
LEMMA MapStep ==
  ASSUME NEW f, NEW g, NEW c, NEW d, IsMapOf(f, c), IsMapOf(g, d), StepKeeps(c, d)
  PROVE  \/ \E k \in Keys : g = [f EXCEPT ![k] = Absent] \/ \E v \in Vals : g = [f EXCEPT ![k] = v]
         \/ g = f
<1>0. /\ f = [k \in Keys |-> f[k]] /\ g = [k \in Keys |-> g[k]]
      /\ \A x \in c : x \in Elems /\ x.key \in Keys /\ f[x.key] = x.val
      /\ \A x \in d : x \in Elems /\ x.key \in Keys /\ g[x.key] = x.val
      /\ \A k \in Keys : (\A x \in c : x.key # k) => f[k] = Absent
      /\ \A k \in Keys : (\A x \in d : x.key # k) => g[k] = Absent
  BY DEF IsMapOf, Elems
<1>1. ASSUME NEW k \in Keys, \A x : x.key = k => (x \in c <=> x \in d) PROVE f[k] = g[k]
  <2>1. CASE \E x \in c : x.key = k
    <3>1. PICK x \in c : x.key = k
      BY <2>1
    <3>2. x \in d
      BY <1>1, <3>1
    <3> QED
      BY <1>0, <3>1, <3>2
  <2>2. CASE \A x \in c : x.key # k
    <3>1. \A x \in d : x.key # k
      BY <1>1, <2>2
    <3> QED
      BY <1>0, <2>2, <3>1
  <2> QED
    BY <2>1, <2>2
<1>2. ASSUME NEW e \in Elems, d = {x \in c : x.key # e.key} \cup {e}
      PROVE  e.key \in Keys /\ e.val \in Vals /\ g = [f EXCEPT ![e.key] = e.val]
  <2>1. e.key \in Keys /\ e.val \in Vals
    BY DEF Elems
  <2>2. \A k \in Keys : k # e.key => f[k] = g[k]
    BY <1>1, <1>2
  <2>3. g[e.key] = e.val
    BY <1>0, <1>2
  <2> QED
    BY <1>0, <2>1, <2>2, <2>3
<1>3. ASSUME NEW k \in Keys, d = {x \in c : x.key # k} PROVE g = [f EXCEPT ![k] = Absent]
  <2>1. \A j \in Keys : j # k => f[j] = g[j]
    BY <1>1, <1>3
  <2>2. g[k] = Absent
    BY <1>0, <1>3
  <2> QED
    BY <1>0, <2>1, <2>2
<1>4. ASSUME d = c PROVE g = f
  <2>1. \A k \in Keys : f[k] = g[k]
    BY <1>1, <1>4
  <2> QED
    BY <1>0, <2>1
<1> QED
  BY <1>2, <1>3, <1>4 DEF StepKeeps

(* A new set is good, and callers find nothing in it.                      *)
LEMMA InitFInv == ASSUME Init PROVE FInv /\ Abs!Init
<1>1. IInv
  BY InitIInv
<1>2. max \in Nat \ {0} /\ tab = NewTab(max)
  BY <1>1, IInvFacts DEF Init
<1>3. Good(tab, max) /\ Contents(tab, max) = {}
  BY <1>2, NewIsGood
<1>4. IsMapOf(Found, {})
  BY <1>1, <1>3, FoundIs
<1>5. Found = [k \in Keys |-> Absent]
  BY <1>4 DEF IsMapOf
<1> QED
  BY <1>1, <1>3, <1>5 DEF FInv, Abs!Init

(* No call breaks the invariant while nothing goes around the end.         *)
LEMMA NextFInv ==
  ASSUME FInv, 100 * MaxMax < Word, NoElementWraps', [Next]_vars
  PROVE  FInv' /\ StepIs
<1>1. IInv'
  BY NextIInv DEF FInv
<1>2. StepIs
  BY NextStep
<1>3. Good(tab', max')
  BY <1>2 DEF StepIs
<1> QED
  BY <1>1, <1>2, <1>3 DEF FInv, Good, IsTab, NoWrap, Reached, Sorted, Single, Occ

\* Callers find what the table holds.
ShowsContents == IsMapOf(Found, Contents(tab, max))

(* A step of the table is one of the abstract set, or none.                *)
LEMMA StepOfMap ==
  ASSUME ShowsContents, ShowsContents', StepIs
  PROVE  [Abs!Next]_Found
<1> DEFINE c == Contents(tab, max)
           d == Contents(tab', max')
           f == Found
           g == Found'
<1>1. IsMapOf(f, c)
  BY DEF ShowsContents
<1>2. IsMapOf(g, d)
  BY DEF ShowsContents, IsMapOf, Contents, Occ
<1>3. StepKeeps(c, d)
  BY DEF StepIs
<1> HIDE DEF c, d
<1>4. \/ \E k \in Keys : g = [f EXCEPT ![k] = Absent] \/ \E v \in Vals : g = [f EXCEPT ![k] = v]
      \/ g = f
  <2> HIDE DEF f, g
  <2> QED
    BY <1>1, <1>2, <1>3, MapStep
<1> QED
  BY <1>4 DEF Abs!Next, Abs!Add, Abs!Remove

-----------------------------------------------------------------------------
(* The theorems about tables in which no element is stored before its home. *)

(* Each element in the table is the one that utl_search_hashed returns for *)
(* its key, after additions, growth and removals in any order in which no  *)
(* element is stored before its home slot: none is hidden, none is double. *)
THEOREM NoneHidden ==
  ASSUME 100 * MaxMax < Word
  PROVE  Spec /\ []NoElementWraps => []EveryElementIsFound
<1>1. FInv => EveryElementIsFound
  <2> SUFFICES ASSUME FInv PROVE EveryElementIsFound
    OBVIOUS
  <2>1. max \in Nat \ {0} /\ Good(tab, max) /\ Occupied = Occ(tab, max)
    BY IInvFacts DEF FInv, Occupied, Occ
  <2> QED
    BY <2>1, SearchHit DEF EveryElementIsFound
<1>2. FInv /\ NoElementWraps' /\ [Next]_vars => FInv'
  BY NextFInv
<1>3. Init => FInv
  BY InitFInv
<1> QED
  BY <1>1, <1>2, <1>3, PTL DEF Spec

(* At or after home the distance is the difference.                        *)
LEMMA DistanceIs ==
  ASSUME NEW m \in Nat \ {0}, NEW p \in 0 .. m - 1, NEW g \in 0 .. m - 1, g <= p
  PROVE  (p + m - g) % m = p - g
<1>1. Back(p, g, m) = p - g
  BY BackAt
<1> QED
  BY <1>1 DEF Back

(* Along a run of elements the distance from home grows by at most one per *)
(* slot, which utl_remove_hashed relies on to close a gap, as long as no   *)
(* element is stored before its home slot.                                 *)
THEOREM HomesInOrder ==
  ASSUME 100 * MaxMax < Word
  PROVE  Spec /\ []NoElementWraps => []RobinHoodOrder
<1>1. FInv => RobinHoodOrder
  <2> SUFFICES ASSUME FInv PROVE RobinHoodOrder
    OBVIOUS
  <2>1. max \in Nat \ {0} /\ Good(tab, max) /\ Occupied = Occ(tab, max)
    BY IInvFacts DEF FInv, Occupied, Occ
  <2>2. ASSUME NEW p \in Occ(tab, max)
        PROVE  /\ p \in 0 .. max - 1 /\ Home(tab[p].key, max) \in 0 .. max - 1
               /\ Home(tab[p].key, max) <= p
               /\ DistanceFromHome(p) = p - Home(tab[p].key, max)
    <3>1. p \in 0 .. max - 1 /\ Home(tab[p].key, max) \in 0 .. max - 1
          /\ Home(tab[p].key, max) <= p
      BY <2>1, TabHomes DEF Good, NoWrap, Occ
    <3> QED
      BY <2>1, <3>1, DistanceIs DEF DistanceFromHome
  <2>3. SUFFICES ASSUME NEW p \in Occ(tab, max), NEW q, q = (p + 1) % max, q \in Occ(tab, max)
                 PROVE  DistanceFromHome(q) <= DistanceFromHome(p) + 1
    BY <2>1 DEF RobinHoodOrder
  <2>4. 1 \in 0 .. max
    BY <2>1
  <2>5. CASE p + 1 < max
    <3>1. Fwd(p, 1, max) = p + 1
      BY <2>1, <2>2, <2>4, <2>5, FwdAt
    <3>2. q = p + 1
      BY <2>3, <3>1 DEF Fwd
    <3>3. Home(tab[p].key, max) <= Home(tab[q].key, max)
      BY <2>1, <2>2, <2>3, <3>2 DEF Good, Sorted
    <3> QED
      BY <2>2, <2>3, <3>2, <3>3
  <2>6. CASE p + 1 = max
    <3>1. Fwd(p, 1, max) = 0
      BY <2>1, <2>2, <2>4, <2>6, FwdAt
    <3>2. q = 0
      BY <2>3, <3>1 DEF Fwd
    <3>3. DistanceFromHome(q) = 0
      BY <2>2, <2>3, <3>2
    <3> QED
      BY <2>2, <2>3, <3>3
  <2> QED
    BY <2>1, <2>2, <2>3, <2>5, <2>6
<1>2. FInv /\ NoElementWraps' /\ [Next]_vars => FInv'
  BY NextFInv
<1>3. Init => FInv
  BY InitFInv
<1> QED
  BY <1>1, <1>2, <1>3, PTL DEF Spec

(* The table implements the abstract set: to add, grow or remove changes   *)
(* nothing that callers find under another key, for every hash function,   *)
(* as long as no element is stored before its home slot.                   *)
THEOREM TableIsAMap ==
  ASSUME 100 * MaxMax < Word
  PROVE  Spec /\ []NoElementWraps => ImplementsKeyMap
<1>1. FInv => ShowsContents
  BY FoundIs DEF FInv, ShowsContents
<1>2. FInv /\ NoElementWraps' /\ [Next]_vars => FInv' /\ StepIs
  BY NextFInv
<1>3. Init => FInv /\ Abs!Init
  BY InitFInv
<1>4. ShowsContents /\ ShowsContents' /\ StepIs => [Abs!Next]_Found
  BY StepOfMap
<1> QED
  BY <1>1, <1>2, <1>3, <1>4, PTL DEF Spec, ImplementsKeyMap, Abs!Spec

-----------------------------------------------------------------------------
(* Few keys with low homes. *)

\* All the keys fit between any home and the end of a table of m slots.
AllFit(m) == \A k \in Keys : Home(k, m) + Cardinality(Keys) <= m

(* The slots a probe passes hold different keys, fewer than there are, so  *)
(* it does not go around the end.                                          *)
LEMMA FewPassed ==
  ASSUME NEW m \in Nat \ {0}, NEW t, Good(t, m), NEW e \in Elems, ProbeEnds(t, e.key, m),
         IsFiniteSet(Keys), AllFit(m)
  PROVE  Home(e.key, m) + Distance(t, e.key, m) < m
<1> DEFINE k == e.key
           h == Home(k, m)
           d == Distance(t, k, m)
           S == h .. m - 1
           T == Keys \ {k}
           f == [q \in S |-> t[q].key]
<1>1. k \in Keys /\ h \in 0 .. m - 1
  <2>1. k \in Keys
    BY DEF Elems
  <2> QED
    BY <2>1, HomeType
<1>2. d \in 0 .. m - 1 /\ \A c \in 0 .. d - 1 : ~ Stops(t, k, c, m)
  BY <1>1, FirstStop
<1>3. h + Cardinality(Keys) <= m /\ Cardinality(Keys) \in Nat
  BY <1>1, FS_CardinalityType DEF AllFit
<1> HIDE DEF k, h, d
<1>4. SUFFICES ASSUME h + d >= m PROVE FALSE
  BY <1>1, <1>2 DEF h, d, k
<1>5. ASSUME NEW q \in S PROVE t[q] # Empty /\ t[q].key # k /\ q \in Occ(t, m)
  <2>1. q - h \in 0 .. d - 1 /\ q - h \in 0 .. m - 1 /\ h + (q - h) < m /\ h + (q - h) = q
        /\ q \in 0 .. m - 1
    BY <1>1, <1>2, <1>4
  <2>2. Probe(k, q - h, m) = q
    BY <1>1, <2>1, ProbeAt DEF h
  <2>3. ~ Stops(t, k, q - h, m)
    BY <1>2, <2>1
  <2> QED
    BY <2>1, <2>2, <2>3 DEF Stops, HasKey, Occ
<1>6. f \in [S -> T]
  <2> SUFFICES ASSUME NEW q \in S PROVE t[q].key \in T
    OBVIOUS
  <2>1. t[q] \in Elems
    BY <1>5 DEF Good, IsTab, Occ
  <2> QED
    BY <1>5, <2>1 DEF Elems
<1>7. IsFiniteSet(S) /\ Cardinality(S) = m - h
  BY <1>1, FS_Interval
<1>8. IsFiniteSet(T) /\ Cardinality(T) = Cardinality(Keys) - 1
  BY <1>1, FS_RemoveElement
<1>9. Cardinality(T) < Cardinality(S)
  BY <1>1, <1>3, <1>7, <1>8
<1>10. PICK x \in S, y \in S : x # y /\ f[x] = f[y]
  <2> HIDE DEF S, T, f
  <2> QED
    BY <1>6, <1>7, <1>8, <1>9, FS_PigeonHole
<1>11. t[x].key = t[y].key /\ x \in Occ(t, m) /\ y \in Occ(t, m)
  BY <1>5, <1>10
<1> QED
  BY <1>10, <1>11 DEF Good, Single

(* The larger table is good if all keys fit.                               *)
LEMMA FewRehash ==
  ASSUME NEW m \in Nat \ {0}, NEW t, Good(t, m), IsFiniteSet(Keys), AllFit(2 * m)
  PROVE  Good(Rehash(t, m), 2 * m)
<1>1. PICK k : Fills(k, t, m) /\ Rehash(t, m) = k[m]
  BY RehashFills
<1>2. IsTab(t, m) /\ 2 * m \in Nat \ {0}
  BY DEF Good
<1>3. ASSUME NEW n \in 0 .. m - 1, Good(k[n], 2 * m) PROVE ProbesFit(k, t, m, n)
  <2>1. NextFill(k, t, m, n)
    BY <1>1, <1>2, FillsNext
  <2>2. SUFFICES ASSUME t[n] # Empty
                 PROVE  Home(t[n].key, 2 * m) + Distance(k[n], t[n].key, 2 * m) < 2 * m
    BY DEF ProbesFit
  <2>3. t[n] \in Elems /\ ProbeEnds(k[n], t[n].key, 2 * m)
    BY <2>1, <2>2 DEF NextFill
  <2> QED
    BY <1>2, <1>3, <2>3, FewPassed
<1>4. KeptTo(k, t, m, m)
  BY <1>1, <1>3, FilledGood
<1> QED
  BY <1>1, <1>4 DEF KeptTo

(* Nothing goes around the end when all keys fit.                          *)
LEMMA FewStore ==
  ASSUME NEW m \in Nat \ {0}, NEW t, Good(t, m), NEW e \in Elems, Store(e, t, m),
         IsFiniteSet(Keys), AllFit(m)
  PROVE  NoWrap(tab', max')
<1>1. ProbeEnds(t, e.key, m) /\ tab' = Insert(t, e, m) /\ max' = m
  BY DEF Store
<1>2. InsertedIs(t, e, m, Insert(t, e, m))
  BY <1>1, FewPassed, InsertGood
<1>3. NoWrap(Insert(t, e, m), m)
  BY <1>2 DEF InsertedIs, Good
<1> QED
  BY <1>1, <1>3

(* No call stores an element before its home if all keys fit.              *)
LEMMA FewStep ==
  ASSUME FInv, [Next]_vars, IsFiniteSet(Keys), AllFit(max),
         2 * max <= MaxMax => AllFit(2 * max)
  PROVE  NoElementWraps'
<1>0. /\ max \in Nat \ {0} /\ IsTab(tab, max) /\ Holds(tab, max) < max /\ Good(tab, max)
      /\ 2 * max \in Nat \ {0}
  BY IInvFacts DEF FInv
<1>1. SUFFICES NoWrap(tab', max')
  BY DEF NoElementWraps, NoWrap, Occupied, Occ
<1>2. ASSUME NEW e \in Elems, Add(e) PROVE NoWrap(tab', max')
  <2>1. CASE Store(e, tab, max)
    BY <1>0, <2>1, FewStore
  <2>2. CASE 2 * max <= MaxMax /\ Store(e, Rehash(tab, max), 2 * max)
    <3>1. Good(Rehash(tab, max), 2 * max)
      BY <1>0, <2>2, FewRehash
    <3> QED
      BY <1>0, <2>2, <3>1, FewStore
  <2>3. CASE UNCHANGED << tab, max >>
    BY <1>0, <2>3 DEF Good
  <2> QED
    BY <1>2, <2>1, <2>2, <2>3 DEF Add
<1>3. ASSUME NEW k \in Keys, Remove(k) PROVE NoWrap(tab', max')
  <2> DEFINE p == Search(tab, k, max)
  <2>1. /\ ProbeEnds(tab, k, max) /\ max' = max
        /\ tab' = IF p < 0 THEN tab ELSE Delete(tab, p, max)
    BY <1>3 DEF Remove
  <2>2. p = -1 \/ (p \in 0 .. max - 1 /\ tab[p] # Empty)
    BY <1>0, <2>1, SearchFinds
  <2> HIDE DEF p
  <2>3. CASE p < 0
    BY <1>0, <2>1, <2>3 DEF Good
  <2>4. CASE p \in 0 .. max - 1 /\ tab[p] # Empty
    <3>1. tab' = Delete(tab, p, max) /\ max' = max
      BY <1>0, <2>1, <2>4
    <3>2. DeletedIs(tab, tab[p].key, max, tab')
      BY <1>0, <2>4, <3>1, DeleteGood
    <3> QED
      BY <3>1, <3>2 DEF DeletedIs, Good
  <2> QED
    BY <2>2, <2>3, <2>4
<1>4. ASSUME UNCHANGED << tab, max >> PROVE NoWrap(tab', max')
  BY <1>0, <1>4 DEF Good
<1> QED
  BY <1>2, <1>3, <1>4 DEF Next, Lookup, First, vars

(* If all the keys fit between any home and the end of every table that can *)
(* be reached by doubling, nothing is ever stored before its home slot.    *)
THEOREM FewKeysNeverWrap ==
  ASSUME 100 * MaxMax < Word, IsFiniteSet(Keys), NEW TableSizes, vec_MIN_ELEM \in TableSizes,
         \A m \in TableSizes : AllFit(m) /\ (2 * m <= MaxMax => 2 * m \in TableSizes)
  PROVE  Spec => []NoElementWraps
<1> DEFINE J == FInv /\ max \in TableSizes
<1>1. Init => J
  BY InitFInv DEF Init
<1>2. J /\ [Next]_vars => J'
  <2> SUFFICES ASSUME J, [Next]_vars PROVE J'
    OBVIOUS
  <2>1. NoElementWraps'
    BY FewStep
  <2>2. FInv'
    BY <2>1, NextFInv
  <2>3. max' = max \/ (2 * max <= MaxMax /\ max' = 2 * max)
    BY DEF Next, Add, Store, Remove, Lookup, First, vars
  <2> QED
    BY <2>2, <2>3
<1>3. J => NoElementWraps
  BY DEF FInv, Good, NoElementWraps, NoWrap, Occupied, Occ
<1> QED
  BY <1>1, <1>2, <1>3, PTL DEF Spec
=============================================================================
