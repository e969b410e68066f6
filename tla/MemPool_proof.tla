--------------------------- MODULE MemPool_proof ----------------------------
(***************************************************************************)
(* Proofs about MemPool, for every set of blocks, sizes and word width.    *)
(***************************************************************************)
EXTENDS MemPool, NatLemmas, SequenceTheorems, TLAPS

(* InsertAt and RemoveAt, element by element.                              *)
LEMMA InsertAtElements ==
  ASSUME NEW S, NEW s \in Seq(S), NEW i \in 1 .. Len(s) + 1, NEW e \in S
  PROVE  /\ InsertAt(s, i, e) \in Seq(S)
         /\ Len(InsertAt(s, i, e)) = Len(s) + 1
         /\ \A j \in 1 .. Len(s) + 1 :
              InsertAt(s, i, e)[j] = IF j < i THEN s[j]
                                     ELSE IF j = i THEN e ELSE s[j - 1]
<1> DEFINE a == SubSeq(s, 1, i - 1)
           b == SubSeq(s, i, Len(s))
<1>1. a \in Seq(S) /\ Len(a) = i - 1 /\ \A j \in 1 .. i - 1 : a[j] = s[j]
  OBVIOUS
<1>2. b \in Seq(S) /\ Len(b) = Len(s) - i + 1
      /\ \A j \in 1 .. Len(s) - i + 1 : b[j] = s[j + i - 1]
  OBVIOUS
<1>3. InsertAt(s, i, e) = (a \o << e >>) \o b
  BY DEF InsertAt
<1> HIDE DEF a, b
<1>4. << e >> \in Seq(S) /\ Len(<< e >>) = 1 /\ << e >>[1] = e
  OBVIOUS
<1>5. /\ a \o << e >> \in Seq(S) /\ Len(a \o << e >>) = i
      /\ \A j \in 1 .. i : (a \o << e >>)[j] = IF j < i THEN s[j] ELSE e
  BY <1>1, <1>4, ConcatProperties
<1> DEFINE c == a \o << e >>
<1> HIDE DEF c
<1>6. /\ c \o b \in Seq(S) /\ Len(c \o b) = Len(s) + 1
      /\ \A j \in 1 .. Len(s) + 1 :
           (c \o b)[j] = IF j <= i THEN c[j] ELSE b[j - i]
  BY <1>2, <1>5, ConcatProperties DEF c
<1>7. \A j \in 1 .. Len(s) + 1 : j > i => b[j - i] = s[j - 1]
  BY <1>2
<1> QED
  BY <1>3, <1>5, <1>6, <1>7 DEF c

LEMMA RemoveAtElements ==
  ASSUME NEW S, NEW s \in Seq(S), NEW i \in 1 .. Len(s)
  PROVE  /\ RemoveAt(s, i) \in Seq(S)
         /\ Len(RemoveAt(s, i)) = Len(s) - 1
         /\ \A j \in 1 .. Len(s) - 1 :
              RemoveAt(s, i)[j] = IF j < i THEN s[j] ELSE s[j + 1]
<1> DEFINE a == SubSeq(s, 1, i - 1)
           b == SubSeq(s, i + 1, Len(s))
<1>1. a \in Seq(S) /\ Len(a) = i - 1 /\ \A j \in 1 .. i - 1 : a[j] = s[j]
  OBVIOUS
<1>2. b \in Seq(S) /\ Len(b) = Len(s) - i
      /\ \A j \in 1 .. Len(s) - i : b[j] = s[j + i]
  OBVIOUS
<1>3. RemoveAt(s, i) = a \o b
  BY DEF RemoveAt
<1> HIDE DEF a, b
<1> DEFINE m == Len(s) - 1
<1>4. Len(a) + Len(b) = m /\ Len(a) = i - 1
  BY <1>1, <1>2
<1> HIDE DEF m
<1>5. /\ a \o b \in Seq(S) /\ Len(a \o b) = m
      /\ \A j \in 1 .. m : (a \o b)[j] = IF j <= i - 1 THEN a[j] ELSE b[j - (i - 1)]
  BY <1>1, <1>2, <1>4, ConcatProperties
<1>6. /\ a \o b \in Seq(S) /\ Len(a \o b) = Len(s) - 1
      /\ \A j \in 1 .. Len(s) - 1 :
           (a \o b)[j] = IF j <= i - 1 THEN a[j] ELSE b[j - (i - 1)]
  BY <1>5 DEF m
<1>7. \A j \in 1 .. Len(s) - 1 : j >= i => b[j - (i - 1)] = s[j + 1]
  BY <1>2
<1> QED
  BY <1>1, <1>3, <1>6, <1>7

(***************************************************************************)
(* Lists of blocks: no block twice, and in order of size.                  *)
(***************************************************************************)
OnceEach(s) == \A i, j \in DOMAIN s : s[i] = s[j] => i = j

SortedBy(s, f) == \A i, j \in DOMAIN s : i < j => f[s[i]] <= f[s[j]]

Sizes == \A b \in obtained : size[b] \in Nat

(* Taking an element off a list.                                           *)
LEMMA RemovedList ==
  ASSUME NEW S, NEW s \in Seq(S), NEW i \in 1 .. Len(s), OnceEach(s)
  PROVE  /\ RemoveAt(s, i) \in Seq(S)
         /\ OnceEach(RemoveAt(s, i))
         /\ Range(RemoveAt(s, i)) = Range(s) \ {s[i]}
<1> DEFINE r == RemoveAt(s, i)
<1>1. /\ r \in Seq(S) /\ Len(r) = Len(s) - 1
      /\ \A j \in 1 .. Len(s) - 1 : r[j] = IF j < i THEN s[j] ELSE s[j + 1]
  BY RemoveAtElements
<1> HIDE DEF r
<1>2. DOMAIN r = 1 .. Len(s) - 1 /\ DOMAIN s = 1 .. Len(s) /\ Len(s) \in Nat
  BY <1>1
<1>3. \A j \in DOMAIN r :
        (j < i /\ j \in DOMAIN s /\ r[j] = s[j])
        \/ (~ (j < i) /\ j + 1 \in DOMAIN s /\ r[j] = s[j + 1])
  BY <1>1, <1>2
<1>4. OnceEach(r)
  BY <1>2, <1>3 DEF OnceEach
<1>5. \A j \in DOMAIN r : r[j] \in Range(s) /\ r[j] # s[i]
  BY <1>1, <1>2, SMTT(30) DEF OnceEach, Range
<1>6. ASSUME NEW j \in DOMAIN s, s[j] # s[i] PROVE s[j] \in Range(r)
  <2>1. CASE j < i
    <3>1. j \in 1 .. Len(s) - 1 /\ r[j] = s[j]
      BY <2>1, <1>1, <1>2
    <3> QED
      BY <3>1, <1>2 DEF Range
  <2>2. CASE j > i
    <3>1. j - 1 \in 1 .. Len(s) - 1 /\ r[j - 1] = s[j]
      BY <2>2, <1>1, <1>2
    <3> QED
      BY <3>1, <1>2 DEF Range
  <2> QED
    BY <1>6, <2>1, <2>2, <1>2
<1>7. Range(r) = Range(s) \ {s[i]}
  BY <1>5, <1>6 DEF Range
<1> QED
  BY <1>1, <1>4, <1>7 DEF r

LEMMA RemovedSorted ==
  ASSUME NEW S, NEW s \in Seq(S), NEW i \in 1 .. Len(s), NEW f, SortedBy(s, f)
  PROVE  SortedBy(RemoveAt(s, i), f)
<1> DEFINE r == RemoveAt(s, i)
<1>1. /\ r \in Seq(S) /\ Len(r) = Len(s) - 1
      /\ \A j \in 1 .. Len(s) - 1 : r[j] = IF j < i THEN s[j] ELSE s[j + 1]
  BY RemoveAtElements
<1> HIDE DEF r
<1>2. DOMAIN r = 1 .. Len(s) - 1 /\ DOMAIN s = 1 .. Len(s) /\ Len(s) \in Nat
  BY <1>1
<1>3. SortedBy(r, f)
  BY <1>1, <1>2, SMTT(30) DEF SortedBy
<1> QED
  BY <1>3 DEF r

(* Putting a block in front of a list it is not on.                        *)
LEMMA PushedList ==
  ASSUME NEW S, NEW s \in Seq(S), NEW b \in S, OnceEach(s), b \notin Range(s)
  PROVE  /\ << b >> \o s \in Seq(S)
         /\ OnceEach(<< b >> \o s)
         /\ Range(<< b >> \o s) = Range(s) \cup {b}
<1> DEFINE r == << b >> \o s
<1>1. << b >> \in Seq(S) /\ Len(<< b >>) = 1 /\ << b >>[1] = b
  OBVIOUS
<1>2. /\ r \in Seq(S) /\ Len(r) = 1 + Len(s)
      /\ \A i \in 1 .. 1 + Len(s) : r[i] = IF i <= 1 THEN b ELSE s[i - 1]
  BY <1>1, ConcatProperties
<1> HIDE DEF r
<1>3. DOMAIN r = 1 .. 1 + Len(s) /\ DOMAIN s = 1 .. Len(s) /\ Len(s) \in Nat
  BY <1>2
<1>4. r[1] = b /\ \A i \in 1 .. Len(s) : r[i + 1] = s[i]
  BY <1>2, <1>3
<1>5. \A i \in DOMAIN r : i = 1 \/ (i - 1 \in DOMAIN s /\ r[i] = s[i - 1])
  BY <1>2, <1>3
<1>6. OnceEach(r)
  BY <1>3, <1>4, <1>5 DEF OnceEach, Range
<1>7. Range(r) \subseteq Range(s) \cup {b}
  BY <1>4, <1>5 DEF Range
<1>8. \A i \in DOMAIN s : i + 1 \in DOMAIN r /\ r[i + 1] = s[i]
  BY <1>3, <1>4
<1>9. 1 \in DOMAIN r
  BY <1>3
<1>10. Range(s) \cup {b} \subseteq Range(r)
  BY <1>4, <1>8, <1>9 DEF Range
<1> QED
  BY <1>2, <1>6, <1>7, <1>10 DEF r

(* The searches of a list end at the place they look for.                  *)
LEMMA PlaceIsFirst ==
  ASSUME Sizes, NEW s \in Seq(obtained), NEW sz \in Nat
  PROVE  /\ Place(s, sz) \in 1 .. Len(s) + 1
         /\ Place(s, sz) <= Len(s) => size[s[Place(s, sz)]] >= sz
         /\ \A j \in 1 .. Place(s, sz) - 1 : size[s[j]] < sz
<1> DEFINE T == {i \in 1 .. Len(s) + 1 : i <= Len(s) => size[s[i]] >= sz}
<1>1. T \subseteq Nat /\ Len(s) + 1 \in T
  OBVIOUS
<1>2. PICK i \in T : \A j \in T : i <= j
  BY <1>1, LeastNatural
<1>3. \A j \in 1 .. i - 1 : j \in 1 .. Len(s) + 1 /\ ~ (i <= j) /\ j <= Len(s)
  BY <1>2
<1>4. \A j \in 1 .. i - 1 : size[s[j]] \in Nat
  BY <1>3 DEF Sizes
<1>5. \A j \in 1 .. i - 1 : size[s[j]] < sz
  BY <1>2, <1>3, <1>4
<1>6. \E k \in 1 .. Len(s) + 1 :
        /\ k <= Len(s) => size[s[k]] >= sz
        /\ \A j \in 1 .. k - 1 : size[s[j]] < sz
  BY <1>2, <1>5
<1> QED
  BY <1>6 DEF Place

(* What a list of given-back blocks is.                                    *)
Listed(s) == s \in Seq(obtained) /\ OnceEach(s) /\ SortedBy(s, size)

(* A block that comes back goes to its place in the order of size.         *)
LEMMA StoredList ==
  ASSUME Sizes, NEW s, Listed(s), NEW b \in obtained, b \notin Range(s)
  PROVE  Listed(Stored(s, b)) /\ Range(Stored(s, b)) = Range(s) \cup {b}
<1> DEFINE i == Place(s, size[b])
           r == InsertAt(s, i, b)
<1>1. s \in Seq(obtained) /\ size[b] \in Nat
  BY DEF Listed, Sizes
<1>2. /\ i \in 1 .. Len(s) + 1
      /\ i <= Len(s) => size[s[i]] >= size[b]
      /\ \A j \in 1 .. i - 1 : size[s[j]] < size[b]
  BY <1>1, PlaceIsFirst
<1> HIDE DEF i
<1>3. /\ r \in Seq(obtained) /\ Len(r) = Len(s) + 1
      /\ \A j \in 1 .. Len(s) + 1 :
           r[j] = IF j < i THEN s[j] ELSE IF j = i THEN b ELSE s[j - 1]
  BY <1>1, <1>2, InsertAtElements
<1> HIDE DEF r
<1>4. DOMAIN r = 1 .. Len(s) + 1 /\ DOMAIN s = 1 .. Len(s) /\ Len(s) \in Nat
  BY <1>1, <1>3
<1>5. \A j \in DOMAIN r :
        \/ j < i /\ j \in DOMAIN s /\ r[j] = s[j]
        \/ j = i /\ r[j] = b
        \/ j > i /\ j - 1 \in DOMAIN s /\ r[j] = s[j - 1]
  BY <1>2, <1>3, <1>4
<1>6. \A j \in DOMAIN s : s[j] # b /\ s[j] \in obtained /\ size[s[j]] \in Nat
  BY <1>1, <1>4 DEF Range, Sizes
<1>7. OnceEach(r)
  BY <1>2, <1>4, <1>5, <1>6 DEF OnceEach, Listed
<1>8. SortedBy(r, size)
  <2>1. \A j \in DOMAIN s : j >= i => size[b] <= size[s[j]]
    BY <1>2, <1>4, <1>6, <1>1 DEF Listed, SortedBy
  <2>2. \A j \in DOMAIN s : j < i => size[s[j]] <= size[b]
    BY <1>2, <1>4, <1>6, <1>1
  <2>3. ASSUME NEW j \in DOMAIN r, NEW k \in DOMAIN r, j < k
        PROVE  size[r[j]] <= size[r[k]]
    <3>1. CASE k < i
      BY <3>1, <2>3, <1>2, <1>4, <1>5 DEF Listed, SortedBy
    <3>2. CASE k = i
      BY <3>2, <2>3, <1>2, <1>4, <1>5, <2>2
    <3>3. CASE k > i /\ j = i
      <4>1. r[j] = b /\ k - 1 \in DOMAIN s /\ r[k] = s[k - 1] /\ k - 1 >= i
        BY <3>3, <1>2, <1>4, <1>5
      <4> QED
        BY <4>1, <2>1
    <3>4. CASE k > i /\ j < i
      <4>1. r[j] = s[j] /\ j \in DOMAIN s /\ k - 1 \in DOMAIN s /\ r[k] = s[k - 1]
        BY <3>4, <1>2, <1>4, <1>5
      <4>2. j < k - 1
        BY <3>4, <1>2, <1>4
      <4> QED
        BY <4>1, <4>2 DEF Listed, SortedBy
    <3>5. CASE k > i /\ j > i
      <4>1. /\ r[j] = s[j - 1] /\ j - 1 \in DOMAIN s
            /\ k - 1 \in DOMAIN s /\ r[k] = s[k - 1]
        BY <3>5, <1>2, <1>4, <1>5
      <4>2. j - 1 < k - 1
        BY <2>3, <1>4
      <4> QED
        BY <4>1, <4>2 DEF Listed, SortedBy
    <3> QED
      BY <3>1, <3>2, <3>3, <3>4, <3>5, <1>2, <1>4
  <2> QED
    BY <2>3 DEF SortedBy
<1>9. Range(r) \subseteq Range(s) \cup {b}
  BY <1>5 DEF Range
<1>10. b \in Range(r)
  BY <1>2, <1>3, <1>4 DEF Range
<1>11. ASSUME NEW j \in DOMAIN s PROVE s[j] \in Range(r)
  <2>1. CASE j < i
    <3>1. j \in DOMAIN r /\ r[j] = s[j]
      BY <2>1, <1>2, <1>3, <1>4
    <3> QED
      BY <3>1 DEF Range
  <2>2. CASE j >= i
    <3>1. j + 1 \in DOMAIN r /\ r[j + 1] = s[j]
      BY <2>2, <1>2, <1>3, <1>4
    <3> QED
      BY <3>1 DEF Range
  <2> QED
    BY <2>1, <2>2, <1>2, <1>4
<1>12. Range(r) = Range(s) \cup {b}
  BY <1>9, <1>10, <1>11 DEF Range
<1> QED
  BY <1>3, <1>7, <1>8, <1>12 DEF Listed, Stored, r, i

(***************************************************************************)
(* The invariant.  Blocks are counted once, on one of the lists, and the   *)
(* lists of a pool that does not exist are empty.                          *)
(***************************************************************************)
Partition ==
  /\ OnceEach(used) /\ OnceEach(unused)
  /\ Range(used) \cap Range(unused) = {}
  /\ obtained = Range(used) \cup Range(unused)

IInv ==
  /\ PoolTypeOK
  /\ Partition
  /\ UnusedIsSorted
  /\ open \/ (used = << >> /\ unused = << >>)

LEMMA IInvFacts ==
  ASSUME IInv
  PROVE  Sizes /\ used \in Seq(obtained) /\ Listed(unused)
<1>1. \A b \in obtained : size[b] \in MinSize .. Word - 1
  BY DEF IInv, PoolTypeOK
<1> QED
  BY <1>1, SizeAssumption
  DEF IInv, PoolTypeOK, Partition, UnusedIsSorted, Sizes, Listed, SortedBy

(***************************************************************************)
(* Cleaning puts one used block after the other among the unused.          *)
(***************************************************************************)
KeptAfter(k, n) == IF n = 0 THEN unused ELSE Stored(k[n - 1], used[n])

(* The lists that the loop passes through exist, for any number of blocks. *)
LEMMA KeptExists ==
  ASSUME NEW N \in Nat
  PROVE  \E k : k = [n \in 0 .. N |-> KeptAfter(k, n)]
<1> DEFINE Ok(k, m) == k = [n \in 0 .. m |-> KeptAfter(k, n)]
           Bad == {m \in Nat : ~ \E k : Ok(k, m)}
<1>1. SUFFICES ASSUME Bad # {} PROVE FALSE
  OBVIOUS
<1>2. PICK m \in Bad : \A l \in Bad : m <= l
  BY <1>1, LeastNatural
<1>3. m # 0
  <2>1. Ok([n \in 0 .. 0 |-> unused], 0)
    BY DEF KeptAfter
  <2> QED
    BY <2>1, <1>2
<1>4. m \in Nat /\ m - 1 \in Nat /\ ~ (m <= m - 1)
  BY <1>3
<1>5. PICK k : Ok(k, m - 1)
  BY <1>2, <1>4
<1>6. PICK g : g = [n \in 0 .. m |->
                     IF n = m THEN Stored(k[m - 1], used[m]) ELSE k[n]]
  OBVIOUS
<1>7. Ok(g, m)
  <2>1. /\ g[m] = Stored(k[m - 1], used[m])
        /\ \A n \in 0 .. m - 1 : g[n] = k[n]
    BY <1>4, <1>6
  <2>2. \A n \in 0 .. m - 1 : k[n] = KeptAfter(k, n)
    BY <1>5
  <2>3. \A n \in 0 .. m - 1 : n = 0 \/ n - 1 \in 0 .. m - 1
    BY <1>4
  <2>4. \A n \in 0 .. m - 1 : g[n] = KeptAfter(g, n)
    BY <2>1, <2>2, <2>3 DEF KeptAfter
  <2>5. g[m] = KeptAfter(g, m)
    BY <2>1, <1>3, <1>4 DEF KeptAfter
  <2>6. \A n \in 0 .. m : n = m \/ n \in 0 .. m - 1
    BY <1>4
  <2> QED
    BY <2>4, <2>5, <2>6, <1>6
<1> QED
  BY <1>2, <1>7

(* Cleaning moves every used block to the sorted list, and loses none.     *)
LEMMA CleanedList ==
  ASSUME Sizes, used \in Seq(obtained), OnceEach(used), Listed(unused),
         Range(used) \cap Range(unused) = {}
  PROVE  Listed(Cleaned) /\ Range(Cleaned) = Range(unused) \cup Range(used)
<1> DEFINE N == Len(used)
           K == CHOOSE k : k = [n \in 0 .. N |-> KeptAfter(k, n)]
           First(n) == {used[i] : i \in 1 .. n}
           Good(n) == Listed(K[n]) /\ Range(K[n]) = Range(unused) \cup First(n)
           Bad == {n \in 0 .. N : ~ Good(n)}
<1>1. N \in Nat /\ DOMAIN used = 1 .. N
  OBVIOUS
<1>2. K = [n \in 0 .. N |-> KeptAfter(K, n)]
  BY <1>1, KeptExists
<1>3. Cleaned = K[N]
  BY DEF Cleaned, KeptAfter
<1> HIDE DEF K, N
<1>4. \A n \in 0 .. N : K[n] = KeptAfter(K, n)
  BY <1>2
<1>5. Bad = {}
  <2>1. SUFFICES ASSUME Bad # {} PROVE FALSE
    OBVIOUS
  <2>2. PICK n \in Bad : \A l \in Bad : n <= l
    <3>1. Bad \subseteq Nat
      BY <1>1
    <3> HIDE DEF Bad
    <3> QED
      BY <2>1, <3>1, LeastNatural
  <2>3. n # 0
    <3>1. K[0] = unused /\ First(0) = {}
      BY <1>1, <1>4 DEF KeptAfter
    <3> QED
      BY <3>1, <2>2
  <2>4. n \in 1 .. N /\ n - 1 \in 0 .. N /\ ~ (n <= n - 1)
    BY <1>1, <2>3
  <2>5. Good(n - 1)
    BY <2>2, <2>4
  <2>6. K[n] = Stored(K[n - 1], used[n])
    BY <1>4, <2>3, <2>4 DEF KeptAfter
  <2>7. used[n] \in obtained /\ used[n] \in Range(used)
    BY <1>1, <2>4 DEF Range
  <2>8. used[n] \notin First(n - 1)
    BY <1>1, <2>4 DEF OnceEach
  <2>9. Listed(K[n]) /\ Range(K[n]) = Range(K[n - 1]) \cup {used[n]}
    <3>1. used[n] \notin Range(K[n - 1])
      BY <2>5, <2>7, <2>8
    <3> QED
      BY <2>5, <2>6, <2>7, <3>1, StoredList
  <2>10. First(n) = First(n - 1) \cup {used[n]}
    BY <2>4
  <2> QED
    BY <2>2, <2>5, <2>9, <2>10
<1>6. Good(N)
  BY <1>1, <1>5
<1>7. First(N) = Range(used)
  BY <1>1 DEF Range
<1> QED
  BY <1>3, <1>6, <1>7

(***************************************************************************)
(* Every step keeps the invariant.                                         *)
(***************************************************************************)
LEMMA NextIInv ==
  ASSUME IInv, [PoolNext]_poolvars
  PROVE  IInv'
<1> USE DEF IInv, Partition, PoolTypeOK
<1>0. Sizes /\ used \in Seq(obtained) /\ Listed(unused)
  BY IInvFacts
<1>1. CASE New
  <2>1. used = << >> /\ unused = << >>
    BY <1>1 DEF New
  <2>2. obtained = {}
    BY <2>1 DEF Range
  <2> QED
    BY <1>1, <2>1, <2>2 DEF New, OnceEach, UnusedIsSorted, Range
<1>2. ASSUME NEW sz \in Requests, open, MallocReused(Rounded(sz))
      PROVE  IInv'
  <2> DEFINE i == Place(unused, Rounded(sz))
  <2>1. Rounded(sz) \in Nat
    BY SizeAssumption DEF Rounded
  <2>2. i \in 1 .. Len(unused)
    <3>1. i \in 1 .. Len(unused) + 1
      BY <1>0, <2>1, PlaceIsFirst DEF Listed
    <3> QED
      BY <3>1, <1>2, <1>0 DEF MallocReused, Listed
  <2>3. /\ used' = << unused[i] >> \o used /\ ret' = {unused[i]}
        /\ unused' = RemoveAt(unused, i)
        /\ UNCHANGED << open, obtained, size >>
    BY <1>2 DEF MallocReused, Give
  <2> HIDE DEF i
  <2>4. unused[i] \in obtained /\ unused[i] \in Range(unused) /\ unused[i] \in Blocks
    BY <1>0, <2>2 DEF Range
  <2>5. /\ unused' \in Seq(obtained) /\ OnceEach(unused')
        /\ Range(unused') = Range(unused) \ {unused[i]}
    BY <2>2, <2>3, RemovedList
  <2>6. SortedBy(unused', size)
    BY <1>0, <2>2, <2>3, RemovedSorted DEF Listed
  <2>7. /\ used' \in Seq(obtained) /\ OnceEach(used')
        /\ Range(used') = Range(used) \cup {unused[i]}
    BY <1>0, <2>3, <2>4, PushedList
  <2>8. (OnceEach(used) /\ OnceEach(unused))'
    BY <2>5, <2>7 DEF OnceEach
  <2>9. UnusedIsSorted'
    BY <2>3, <2>6 DEF UnusedIsSorted, SortedBy
  <2>10. (Range(used) \cap Range(unused) = {} /\ obtained = Range(used) \cup Range(unused))'
    BY <2>3, <2>4, <2>5, <2>7 DEF Range
  <2> QED
    BY <1>2, <2>3, <2>4, <2>5, <2>7, <2>8, <2>9, <2>10
<1>3. ASSUME NEW sz \in Requests, open, MallocNew(Rounded(sz))
      PROVE  IInv'
  <2>1. CASE ret' = {} /\ UNCHANGED << obtained, size, used >>
    BY <1>3, <2>1 DEF MallocNew, OnceEach, UnusedIsSorted, Range
  <2>2. ASSUME NEW b \in Blocks \ obtained, Give(b), obtained' = obtained \cup {b},
               size' = [c \in obtained \cup {b} |-> IF c = b THEN Rounded(sz) ELSE size[c]]
        PROVE  IInv'
    <3>1. Rounded(sz) \in MinSize .. Word - 1
      BY SizeAssumption DEF Rounded
    <3>2. size' \in [obtained' -> MinSize .. Word - 1]
      BY <2>2, <3>1
    <3>3. \A c \in obtained : size'[c] = size[c]
      BY <2>2
    <3>4. UNCHANGED << open, unused >> /\ used' = << b >> \o used /\ ret' = {b}
      BY <1>3, <2>2 DEF MallocNew, Give
    <3>5. b \notin Range(used) /\ used \in Seq(obtained') /\ unused \in Seq(obtained')
      <4>1. obtained \subseteq obtained'
        BY <2>2
      <4>2. Seq(obtained) \subseteq Seq(obtained')
        BY <4>1, SeqMonotonic
      <4>3. Range(used) \subseteq obtained
        OBVIOUS
      <4> QED
        BY <1>0, <2>2, <4>2, <4>3 DEF Listed
    <3>6. /\ used' \in Seq(obtained') /\ OnceEach(used')
          /\ Range(used') = Range(used) \cup {b}
      BY <2>2, <3>4, <3>5, PushedList
    <3>7. (OnceEach(used) /\ OnceEach(unused))'
      BY <3>4, <3>6 DEF OnceEach
    <3>8. UnusedIsSorted'
      <4>1. \A j \in DOMAIN unused : unused[j] \in obtained
        BY <1>0
      <4> QED
        BY <3>3, <3>4, <4>1 DEF UnusedIsSorted
    <3>9. (Range(used) \cap Range(unused) = {} /\ obtained = Range(used) \cup Range(unused))'
      BY <2>2, <3>4, <3>5, <3>6
    <3> QED
      BY <1>3, <2>2, <3>2, <3>4, <3>5, <3>6, <3>7, <3>8, <3>9
  <2> QED
    BY <1>3, <2>1, <2>2 DEF MallocNew
<1>4. ASSUME NEW b \in Blocks, PoolFree(b)
      PROVE  IInv'
  <2>1. CASE b \notin Range(used)
    <3>1. ret' = {} /\ UNCHANGED << open, obtained, size, used, unused >>
      BY <1>4, <2>1 DEF PoolFree
    <3> QED
      BY <3>1 DEF OnceEach, UnusedIsSorted
  <2>2. CASE b \in Range(used)
    <3> DEFINE i == Position(b)
    <3>1. i \in 1 .. Len(used) /\ used[i] = b
      <4>1. \E j \in DOMAIN used : used[j] = b
        BY <2>2 DEF Range
      <4> QED
        BY <4>1, <1>0 DEF Position
    <3>2. /\ used' = RemoveAt(used, i) /\ unused' = Stored(unused, b)
          /\ ret' = {} /\ UNCHANGED << open, obtained, size >> /\ open
      BY <1>4, <2>2 DEF PoolFree
    <3> HIDE DEF i
    <3>3. /\ used' \in Seq(obtained) /\ OnceEach(used')
          /\ Range(used') = Range(used) \ {b}
      BY <1>0, <3>1, <3>2, RemovedList
    <3>4. Listed(unused') /\ Range(unused') = Range(unused) \cup {b}
      BY <1>0, <2>2, <3>2, StoredList
    <3>5. (OnceEach(used) /\ OnceEach(unused))'
      BY <3>3, <3>4 DEF OnceEach, Listed
    <3>6. UnusedIsSorted'
      BY <3>2, <3>4 DEF UnusedIsSorted, SortedBy, Listed
    <3>7. (Range(used) \cap Range(unused) = {} /\ obtained = Range(used) \cup Range(unused))'
      BY <2>2, <3>2, <3>3, <3>4 DEF Range
    <3> QED
      BY <3>2, <3>3, <3>4, <3>5, <3>6, <3>7 DEF Listed
  <2> QED
    BY <2>1, <2>2
<1>5. CASE Clean
  <2>1. /\ unused' = Cleaned /\ used' = << >>
        /\ ret' = {} /\ UNCHANGED << open, obtained, size >> /\ open
    BY <1>5 DEF Clean
  <2>2. Listed(unused') /\ Range(unused') = Range(unused) \cup Range(used)
    BY <1>0, <2>1, CleanedList
  <2>3. Range(used') = {} /\ used' \in Seq(obtained)
    BY <2>1 DEF Range
  <2>4. (OnceEach(used) /\ OnceEach(unused))'
    BY <2>1, <2>2 DEF OnceEach, Listed
  <2>5. UnusedIsSorted'
    BY <2>1, <2>2 DEF UnusedIsSorted, SortedBy, Listed
  <2>6. (Range(used) \cap Range(unused) = {} /\ obtained = Range(used) \cup Range(unused))'
    BY <2>1, <2>2, <2>3 DEF Range
  <2> QED
    BY <2>1, <2>2, <2>3, <2>4, <2>5, <2>6 DEF Listed
<1>6. CASE Delete
  <2>1. obtained' = {} /\ size' \in [obtained' -> MinSize .. Word - 1]
    BY <1>6 DEF Delete
  <2>2. used' = << >> /\ unused' = << >> /\ open' = FALSE /\ ret' = {}
    BY <1>6 DEF Delete
  <2>3. Range(used') = {} /\ Range(unused') = {}
    BY <2>2 DEF Range
  <2>4. used' \in Seq(obtained') /\ unused' \in Seq(obtained')
    BY <2>2
  <2>5. PoolTypeOK'
    BY <2>1, <2>2, <2>4
  <2>6. Partition'
    BY <2>1, <2>2, <2>3 DEF OnceEach
  <2>7. UnusedIsSorted'
    BY <2>2 DEF UnusedIsSorted
  <2> QED
    BY <2>2, <2>5, <2>6, <2>7
<1>7. CASE UNCHANGED poolvars
  <2>1. /\ open' = open /\ obtained' = obtained /\ size' = size
        /\ used' = used /\ unused' = unused /\ ret' = ret
    BY <1>7 DEF poolvars
  <2> QED
    BY <2>1 DEF OnceEach, UnusedIsSorted
<1> QED
  BY <1>1, <1>2, <1>3, <1>4, <1>5, <1>6, <1>7 DEF PoolNext, PoolMalloc

(***************************************************************************)
(* The blocks on both lists together are those of each, once.              *)
(***************************************************************************)
LEMMA PartitionListsOnce ==
  ASSUME IInv
  PROVE  OnOneList
<1> DEFINE both == used \o unused
<1>1. used \in Seq(obtained) /\ unused \in Seq(obtained)
  BY DEF IInv, PoolTypeOK
<1>2. /\ both \in Seq(obtained) /\ Len(both) = Len(used) + Len(unused)
      /\ \A i \in 1 .. Len(used) + Len(unused) :
           both[i] = IF i <= Len(used) THEN used[i] ELSE unused[i - Len(used)]
  BY <1>1, ConcatProperties
<1> HIDE DEF both
<1>3. /\ DOMAIN both = 1 .. Len(used) + Len(unused)
      /\ DOMAIN used = 1 .. Len(used) /\ DOMAIN unused = 1 .. Len(unused)
      /\ Len(used) \in Nat /\ Len(unused) \in Nat
  BY <1>1, <1>2
<1>4. \A i \in DOMAIN both :
        \/ i \in DOMAIN used /\ both[i] = used[i]
        \/ ~ (i \in DOMAIN used) /\ i - Len(used) \in DOMAIN unused
           /\ both[i] = unused[i - Len(used)]
  BY <1>2, <1>3
<1>5. ASSUME NEW i \in DOMAIN both, NEW j \in DOMAIN both, both[i] = both[j]
      PROVE  i = j
  <2>1. \A k \in DOMAIN used, l \in DOMAIN unused : used[k] # unused[l]
    BY DEF IInv, Partition, Range
  <2>2. CASE i \in DOMAIN used /\ j \in DOMAIN used
    BY <2>2, <1>4, <1>5 DEF IInv, Partition, OnceEach
  <2>3. CASE i \notin DOMAIN used /\ j \notin DOMAIN used
    <3>1. i - Len(used) = j - Len(used)
      BY <2>3, <1>4, <1>5 DEF IInv, Partition, OnceEach
    <3> QED
      BY <3>1, <1>3
  <2> QED
    BY <2>1, <2>2, <2>3, <1>4, <1>5
<1>6. Range(both) \subseteq obtained
  BY <1>2, <1>3 DEF Range
<1>7. \A i \in DOMAIN used : i \in DOMAIN both /\ both[i] = used[i]
  BY <1>2, <1>3
<1>8. \A i \in DOMAIN unused :
        i + Len(used) \in DOMAIN both /\ both[i + Len(used)] = unused[i]
  BY <1>2, <1>3
<1>9. obtained \subseteq Range(both)
  BY <1>7, <1>8 DEF IInv, Partition, Range
<1> QED
  BY <1>5, <1>6, <1>9 DEF OnOneList, both

LEMMA InitIInv ==
  ASSUME PoolInit
  PROVE  IInv
<1>1. Range(<< >>) = {}
  BY DEF Range
<1>2. size \in [obtained -> MinSize .. Word - 1]
  BY DEF PoolInit
<1>3. PoolTypeOK
  <2>1. open = FALSE /\ obtained = {} /\ used = << >> /\ unused = << >> /\ ret = {}
    BY DEF PoolInit
  <2>2. used \in Seq(obtained) /\ unused \in Seq(obtained)
    BY <2>1
  <2>3. open \in BOOLEAN /\ obtained \subseteq Blocks /\ ret \in {{}} \cup {{b} : b \in Blocks}
    BY <2>1
  <2> QED
    BY <2>2, <2>3, <1>2 DEF PoolTypeOK
<1>4. Partition
  BY <1>1 DEF PoolInit, Partition, OnceEach
<1>5. UnusedIsSorted
  BY DEF PoolInit, UnusedIsSorted
<1> QED
  BY <1>3, <1>4, <1>5 DEF PoolInit, IInv

(* Every state keeps the invariant (utl_mpl_new, _malloc and _free).       *)
THEOREM Invariance == PoolSpec => []IInv
<1>1. PoolInit => IInv
  BY InitIInv
<1>2. IInv /\ [PoolNext]_poolvars => IInv'
  BY NextIInv
<1> QED
  BY <1>1, <1>2, PTL DEF PoolSpec

(* Every block of the heap is on one of the two lists, once, after any     *)
(* sequence of calls: none leaks and none is handed out twice, whatever    *)
(* blocks callers give back and however often.                             *)
THEOREM NoBlockLost == PoolSpec => []OnOneList
<1>1. IInv => OnOneList
  BY PartitionListsOnce
<1> QED
  BY <1>1, Invariance, PTL

(* The list the searches rely on is sorted after any sequence of frees,    *)
(* cleans and reuses (utl_mpl_searchpos, utl_mpl_searchfit).               *)
THEOREM SearchesSorted == PoolSpec => []UnusedIsSorted
<1>1. IInv => UnusedIsSorted
  BY DEF IInv
<1> QED
  BY <1>1, Invariance, PTL

(* The types, and the sizes within a Word, hold in every state.            *)
THEOREM Typing == PoolSpec => []PoolTypeOK
<1>1. IInv => PoolTypeOK
  BY DEF IInv
<1> QED
  BY <1>1, Invariance, PTL

(***************************************************************************)
(* What the searches achieve, and what callers see.                        *)
(***************************************************************************)

(* A number below the Word is its own remainder.                           *)
LEMMA SmallRemainder ==
  ASSUME NEW x \in 0 .. Word - 1
  PROVE  x % Word = x
BY SizeAssumption

(* No new memory is asked of malloc while a block of the list would do     *)
(* (utl_mpl_malloc): the one the search ends at is the smallest that fits, *)
(* and if it is too large so are those behind it.                          *)
THEOREM ReusedFirst == PoolSpec => ReusesWhenItCan
<1> DEFINE Reused ==
      \A sz \in Requests :
        PoolMalloc(sz) /\ 2 * Rounded(sz) < Word /\ obtained' # obtained =>
          \A b \in Range(unused) :
            size[b] < Rounded(sz) \/ size[b] >= 2 * Rounded(sz)
<1>1. ASSUME IInv, NEW sz \in Requests, PoolMalloc(sz),
             2 * Rounded(sz) < Word, obtained' # obtained, NEW b \in Range(unused)
      PROVE  size[b] < Rounded(sz) \/ size[b] >= 2 * Rounded(sz)
  <2> DEFINE q == Rounded(sz)
             i == Place(unused, q)
  <2>1. MallocNew(q)
    BY <1>1 DEF PoolMalloc, MallocReused
  <2>2. q \in Nat /\ 2 * q \in 0 .. Word - 1
    BY <1>1, SizeAssumption DEF Rounded
  <2>3. Sizes /\ Listed(unused)
    BY <1>1, IInvFacts
  <2>4. /\ i \in 1 .. Len(unused) + 1
        /\ \A j \in 1 .. i - 1 : size[unused[j]] < q
    BY <2>2, <2>3, PlaceIsFirst DEF Listed
  <2>5. i <= Len(unused) => size[unused[i]] >= 2 * q
    BY <2>1, <2>2, SmallRemainder DEF MallocNew, TooLarge
  <2> HIDE DEF q, i
  <2>6. PICK j \in DOMAIN unused : b = unused[j]
    BY <1>1 DEF Range
  <2>7. \A k \in DOMAIN unused : size[unused[k]] \in Nat
    BY <2>3 DEF Listed, Sizes
  <2>8. DOMAIN unused = 1 .. Len(unused) /\ Len(unused) \in Nat
    BY <2>3 DEF Listed
  <2>9. CASE j < i
    BY <2>4, <2>6, <2>8, <2>9 DEF q
  <2>10. CASE j >= i
    <3>1. i \in DOMAIN unused /\ size[unused[i]] <= size[unused[j]]
      BY <2>3, <2>4, <2>6, <2>7, <2>8, <2>10 DEF Listed, SortedBy
    <3>2. size[unused[i]] >= 2 * q
      BY <2>5, <2>8, <3>1
    <3> QED
      BY <2>2, <2>6, <2>7, <3>1, <3>2 DEF q
  <2> QED
    BY <2>4, <2>6, <2>8, <2>9, <2>10
<1>2. IInv /\ [PoolNext]_poolvars => [Reused]_poolvars
  BY <1>1
<1> QED
  BY <1>2, Invariance, PTL DEF PoolSpec, ReusesWhenItCan

(***************************************************************************)
(* The pool implements the allocator.                                      *)
(***************************************************************************)
Held == [b \in Range(used) |-> size[b]]

(* Handing out block b is the allocator's step.                            *)
LEMMA GiveIsMalloc ==
  ASSUME NEW sz, NEW b \in Blocks \ Range(used),
         NEW c \in MinSize .. Word - 1, c >= sz,
         Range(used') = Range(used) \cup {b},
         size'[b] = c, \A a \in Range(used) : size'[a] = size[a], ret' = {b}
  PROVE  Pool!Malloc(sz)
<1>1. Held' = [a \in Range(used) \cup {b} |-> size'[a]]
  BY DEF Held
<1>2. Held' = [a \in DOMAIN Held \cup {b} |-> IF a = b THEN c ELSE Held[a]]
  BY <1>1 DEF Held
<1> QED
  BY <1>2 DEF Pool!Malloc, Held

(* A call of the pool is a call of the allocator.                          *)
LEMMA StepImplements ==
  ASSUME IInv, IInv', PoolNext
  PROVE  Pool!Next
<1>0. Sizes /\ used \in Seq(obtained) /\ Listed(unused)
  BY IInvFacts
<1>a. Range(used) \subseteq obtained /\ Range(unused) \subseteq obtained
      /\ Range(used) \cap Range(unused) = {}
      /\ obtained \subseteq Blocks /\ size \in [obtained -> MinSize .. Word - 1]
  BY DEF IInv, PoolTypeOK, Partition
<1>b. ASSUME NEW sz \in Requests
      PROVE  sz \in Nat /\ Rounded(sz) \in MinSize .. Word - 1 /\ Rounded(sz) >= sz
  BY SizeAssumption DEF Rounded
<1>1. CASE New
  <2>1. Range(used) = {} /\ Range(used') = {}
    BY <1>1 DEF New, IInv, Range
  <2>2. Pool!NoEffect
    BY <1>1, <2>1 DEF New, Pool!NoEffect, Held
  <2> QED
    BY <2>2 DEF Pool!Next
<1>2. ASSUME NEW sz \in Requests, MallocReused(Rounded(sz))
      PROVE  Pool!Next
  <2> DEFINE q == Rounded(sz)
             i == Place(unused, q)
             b == unused[i]
  <2>1. i \in 1 .. Len(unused) /\ size[b] >= q
    <3>0. q \in Nat /\ unused \in Seq(obtained)
      BY <1>0, <1>b, SizeAssumption DEF Listed
    <3>1. i \in 1 .. Len(unused) + 1 /\ (i <= Len(unused) => size[b] >= q)
      BY <1>0, <3>0, PlaceIsFirst
    <3> QED
      BY <3>1, <1>2, <1>0 DEF MallocReused, Listed
  <2>2. used' = << b >> \o used /\ size' = size /\ ret' = {b}
    BY <1>2 DEF MallocReused, Give
  <2> HIDE DEF i
  <2>3. b \in Range(unused)
    BY <1>0, <2>1 DEF Listed, Range
  <2>4. b \in Blocks \ Range(used) /\ b \in obtained /\ size[b] \in MinSize .. Word - 1
    BY <1>a, <2>3
  <2>5. Range(used') = Range(used) \cup {b}
    BY <1>0, <2>2, <2>4, PushedList DEF IInv, Partition
  <2>6. size[b] >= sz
    BY <1>b, <2>1, <2>4, SizeAssumption
  <2>7. Pool!Malloc(sz)
    BY <2>2, <2>4, <2>5, <2>6, GiveIsMalloc
  <2> QED
    BY <2>7 DEF Pool!Next
<1>3. ASSUME NEW sz \in Requests, MallocNew(Rounded(sz))
      PROVE  Pool!Next
  <2>1. CASE ret' = {} /\ UNCHANGED << obtained, size, used >>
    <3>1. Pool!NoEffect
      BY <2>1 DEF Pool!NoEffect
    <3> QED
      BY <3>1 DEF Pool!Next
  <2>2. ASSUME NEW b \in Blocks \ obtained, Give(b),
               size' = [c \in obtained \cup {b} |-> IF c = b THEN Rounded(sz) ELSE size[c]]
        PROVE  Pool!Next
    <3>1. /\ size'[b] = Rounded(sz)
          /\ \A a \in Range(used) : size'[a] = size[a]
      BY <1>a, <2>2
    <3>2. b \in Blocks \ Range(used)
      BY <1>a, <2>2
    <3>3. Range(used') = Range(used) \cup {b}
      <4>1. used \in Seq(obtained \cup {b})
        BY <1>0, SeqMonotonic, obtained \subseteq obtained \cup {b}
      <4> QED
        BY <2>2, <3>2, <4>1, PushedList DEF Give, IInv, Partition
    <3>4. Pool!Malloc(sz)
      BY <1>b, <2>2, <3>1, <3>2, <3>3, GiveIsMalloc DEF Give
    <3> QED
      BY <3>4 DEF Pool!Next
  <2> QED
    BY <1>3, <2>1, <2>2 DEF MallocNew
<1>4. ASSUME NEW b \in Blocks, PoolFree(b)
      PROVE  Pool!Next
  <2>1. CASE b \notin Range(used)
    <3>1. Pool!NoEffect
      BY <1>4, <2>1 DEF PoolFree, Pool!NoEffect
    <3> QED
      BY <3>1 DEF Pool!Next
  <2>2. CASE b \in Range(used)
    <3>1. Position(b) \in 1 .. Len(used) /\ used[Position(b)] = b
      <4>1. \E j \in DOMAIN used : used[j] = b
        BY <2>2 DEF Range
      <4> QED
        BY <4>1, <1>0 DEF Position
    <3>2. used' = RemoveAt(used, Position(b)) /\ size' = size /\ ret' = {}
      BY <1>4, <2>2 DEF PoolFree
    <3>3. Range(used') = Range(used) \ {b}
      BY <1>0, <3>1, <3>2, RemovedList DEF IInv, Partition
    <3>4. Held' = [a \in DOMAIN Held \ {b} |-> Held[a]]
      BY <3>2, <3>3 DEF Held
    <3>5. Pool!Free(b)
      BY <2>2, <3>2, <3>4 DEF Pool!Free, Held
    <3> QED
      BY <3>5 DEF Pool!Next
  <2> QED
    BY <2>1, <2>2
<1>5. CASE Clean \/ Delete
  <2>1. Range(used') = {} /\ ret' = {}
    BY <1>5 DEF Clean, Delete, Range
  <2>2. Pool!FreeAll
    BY <2>1 DEF Pool!FreeAll
  <2> QED
    BY <2>2 DEF Pool!Next
<1> QED
  BY <1>1, <1>2, <1>3, <1>4, <1>5 DEF PoolNext, PoolMalloc

(* A caller of the pool sees an allocator: a block belongs to one caller   *)
(* at a time, with the capacity asked for, until that caller gives it back *)
(* (the macros mplmalloc, mplfree and mplclean of utl_mem.h).              *)
THEOREM Refinement == PoolSpec => ImplementsAllocator
<1>1. PoolInit => Pool!Init
  <2>1. ASSUME PoolInit PROVE Range(used) = {} /\ ret = {}
    BY <2>1 DEF PoolInit, Range
  <2> QED
    BY <2>1 DEF Pool!Init
<1>2. IInv /\ IInv' /\ [PoolNext]_poolvars => [Pool!Next]_<< Held, ret >>
  <2>1. ASSUME UNCHANGED poolvars PROVE UNCHANGED << Held, ret >>
    BY <2>1 DEF poolvars, Held
  <2> QED
    BY <2>1, StepImplements
<1> QED
  BY <1>1, <1>2, Invariance, PTL DEF PoolSpec, ImplementsAllocator, Pool!Spec, Pool!vars, Held
=============================================================================
