----------------------------- MODULE Arb_proof ------------------------------
(***************************************************************************)
(* Proofs about Arb, for any number of nodes, set of data and history of   *)
(* calls by careful callers.                                               *)
(***************************************************************************)
EXTENDS Arb, NatLemmas, FiniteSetTheorems, SequenceTheorems, TLAPS

-----------------------------------------------------------------------------
(* Lists linked by nxt. *)

(* Among nodes with ranks one has the least.                               *)
LEMMA LeastRank ==
  ASSUME NEW S, NEW r, \A n \in S : r[n] \in Nat, S # {}
  PROVE  \E n \in S : \A m \in S : r[n] <= r[m]
<1> DEFINE R == {r[n] : n \in S}
<1>1. R \subseteq Nat /\ R # {}
  OBVIOUS
<1>2. PICK k \in R : \A l \in R : k <= l
  <2> HIDE DEF R
  <2> QED
    BY <1>1, LeastNatural
<1>3. PICK n \in S : k = r[n]
  OBVIOUS
<1>4. \A m \in S : r[m] \in R
  OBVIOUS
<1> HIDE DEF R
<1> QED
  BY <1>2, <1>3, <1>4

\* The nodes of C are linked from s on, each once; r grows along the links.
Links(t, s, C, r) ==
  /\ C \subseteq 1 .. Len(t) /\ Len(t) \in Nat
  /\ s \in C \cup {0}
  /\ \A n \in C : r[n] \in Nat
  /\ \A n \in C : t[n].nxt \in C \cup {0}
  /\ \A n \in C : t[n].nxt # 0 => r[n] < r[t[n].nxt]
  /\ \A n \in C : n = s \/ \E b \in C : t[b].nxt = n

\* c follows the links from s on, inside C.
Follows(t, s, C, c) ==
  /\ c \in Seq(C)
  /\ s = 0 <=> c = << >>
  /\ s # 0 => c[1] = s
  /\ \A i \in 1 .. Len(c) - 1 : t[c[i]].nxt = c[i + 1]

\* c is the whole list.
Lists(t, s, C, c) ==
  /\ Follows(t, s, C, c)
  /\ s # 0 => t[c[Len(c)]].nxt = 0
  /\ \A i, j \in 1 .. Len(c) : c[i] = c[j] => i = j
  /\ Len(c) <= Len(t)
  /\ Range(c) = C

ChainNext(t, c) ==
  IF c = << >> \/ t[Last(c)].nxt = 0 THEN c ELSE Append(c, t[Last(c)].nxt)

ChainAfter(f, t, s, k) ==
  IF k = 0 THEN IF s = 0 THEN << >> ELSE << s >> ELSE ChainNext(t, f[k - 1])

(* The recursion of Chain defines a function, up to any length.            *)
LEMMA ChainExists ==
  ASSUME NEW t, NEW s, NEW N \in Nat
  PROVE  \E f : f = [k \in 0 .. N |-> ChainAfter(f, t, s, k)]
<1> DEFINE Ok(f, n) == f = [k \in 0 .. n |-> ChainAfter(f, t, s, k)]
           Bad == {n \in Nat : ~ \E f : Ok(f, n)}
<1>1. SUFFICES ASSUME Bad # {} PROVE FALSE
  OBVIOUS
<1>2. PICK n \in Bad : \A l \in Bad : n <= l
  BY <1>1, LeastNatural
<1>3. n # 0
  <2>1. Ok([k \in 0 .. 0 |-> IF s = 0 THEN << >> ELSE << s >>], 0)
    BY DEF ChainAfter
  <2> QED
    BY <2>1, <1>2
<1>4. n \in Nat /\ n - 1 \in Nat /\ ~ (n <= n - 1)
  BY <1>3
<1>5. PICK f : Ok(f, n - 1)
  BY <1>2, <1>4
<1>6. PICK g : g = [k \in 0 .. n |-> IF k = n THEN ChainAfter(f, t, s, n) ELSE f[k]]
  OBVIOUS
<1>7. Ok(g, n)
  <2>1. g[n] = ChainAfter(f, t, s, n) /\ \A k \in 0 .. n - 1 : g[k] = f[k]
    BY <1>4, <1>6
  <2>2. \A k \in 0 .. n - 1 : f[k] = ChainAfter(f, t, s, k)
    BY <1>5
  <2>3. \A k \in 0 .. n - 1 : k = 0 \/ k - 1 \in 0 .. n - 1
    BY <1>4
  <2>4. \A k \in 0 .. n - 1 : g[k] = ChainAfter(g, t, s, k)
    BY <2>1, <2>2, <2>3 DEF ChainAfter
  <2>5. n - 1 \in 0 .. n - 1
    BY <1>4
  <2>6. g[n] = ChainAfter(g, t, s, n)
    BY <2>1, <2>5, <1>3 DEF ChainAfter
  <2>7. \A k \in 0 .. n : k = n \/ k \in 0 .. n - 1
    BY <1>4
  <2> QED
    BY <2>4, <2>6, <2>7, <1>6
<1> QED
  BY <1>2, <1>7

(* One more link leads to another node of the set, or the list has ended.  *)
LEMMA FollowNext ==
  ASSUME NEW t, NEW s, NEW C, NEW r, Links(t, s, C, r), NEW c, Follows(t, s, C, c), c # << >>,
         t[Last(c)].nxt # 0
  PROVE  Follows(t, s, C, ChainNext(t, c)) /\ Len(ChainNext(t, c)) = Len(c) + 1
<1> DEFINE e == t[Last(c)].nxt
           d == Append(c, e)
<1>1. c \in Seq(C) /\ Len(c) \in Nat /\ Len(c) >= 1 /\ Last(c) = c[Len(c)]
  BY EmptySeq, LenProperties DEF Follows, Last
<1>2. Last(c) \in C
  BY <1>1, ElementOfSeq
<1>3. e \in C
  BY <1>2 DEF Links
<1>4. ChainNext(t, c) = d
  BY DEF ChainNext
<1> HIDE DEF e
<1>5. d \in Seq(C) /\ Len(d) = Len(c) + 1 /\ d[Len(c) + 1] = e /\ \A i \in 1 .. Len(c) : d[i] = c[i]
  BY <1>1, <1>3, AppendProperties
<1>6. d # << >> /\ s # 0 /\ d[1] = s
  <2>1. 1 \in 1 .. Len(c)
    BY <1>1
  <2> QED
    BY <1>1, <1>5, <2>1 DEF Follows
<1>7. ASSUME NEW i \in 1 .. Len(d) - 1 PROVE t[d[i]].nxt = d[i + 1]
  <2>1. i \in 1 .. Len(c)
    BY <1>1, <1>5
  <2>2. CASE i = Len(c)
    BY <1>1, <1>5, <2>1, <2>2 DEF e
  <2>3. CASE i # Len(c)
    <3>1. i \in 1 .. Len(c) - 1 /\ i + 1 \in 1 .. Len(c)
      BY <1>1, <2>1, <2>3
    <3> QED
      BY <1>5, <2>1, <3>1 DEF Follows
  <2> QED
    BY <2>2, <2>3
<1> HIDE DEF d
<1> QED
  BY <1>4, <1>5, <1>6, <1>7 DEF Follows

(* r grows along a list, so no node is in it twice.                        *)
LEMMA FollowRises ==
  ASSUME NEW t, NEW s, NEW C, NEW r, Links(t, s, C, r), NEW c, Follows(t, s, C, c)
  PROVE  /\ \A i, j \in 1 .. Len(c) : c[i] = c[j] => i = j
         /\ Len(c) <= Len(t)
<1>0. Len(c) \in Nat /\ \A i \in 1 .. Len(c) : c[i] \in C /\ r[c[i]] \in Nat
  BY ElementOfSeq, LenProperties DEF Follows, Links
<1>1. \A i \in 1 .. Len(c) : \A j \in 1 .. Len(c) : i < j => r[c[i]] < r[c[j]]
  <2> SUFFICES ASSUME NEW i \in 1 .. Len(c) PROVE \A j \in 1 .. Len(c) : i < j => r[c[i]] < r[c[j]]
    OBVIOUS
  <2> DEFINE Bad == {j \in 1 .. Len(c) : i < j /\ ~ (r[c[i]] < r[c[j]])}
  <2>1. SUFFICES ASSUME Bad # {} PROVE FALSE
    OBVIOUS
  <2>2. PICK j \in Bad : \A l \in Bad : j <= l
    <3>1. Bad \subseteq Nat
      OBVIOUS
    <3> HIDE DEF Bad
    <3> QED
      BY <2>1, <3>1, LeastNatural
  <2>3. j \in 1 .. Len(c) /\ i < j /\ ~ (r[c[i]] < r[c[j]])
    OBVIOUS
  <2>4. j - 1 \in 1 .. Len(c) - 1 /\ j - 1 \in 1 .. Len(c) /\ ~ (j <= j - 1) /\ (j - 1) + 1 = j
    BY <1>0, <2>3
  <2>5. t[c[j - 1]].nxt = c[j]
    BY <2>4 DEF Follows
  <2>6. c[j] # 0
    BY <1>0, <2>3 DEF Links
  <2>7. r[c[j - 1]] < r[c[j]]
    BY <1>0, <2>4, <2>5, <2>6 DEF Links
  <2>8. i = j - 1 \/ r[c[i]] < r[c[j - 1]]
    <3>1. i < j - 1 => j - 1 \notin Bad
      BY <2>2, <2>4
    <3> QED
      BY <1>0, <2>3, <2>4, <3>1
  <2> HIDE DEF Bad
  <2> QED
    BY <1>0, <2>3, <2>4, <2>7, <2>8
<1>2. \A i, j \in 1 .. Len(c) : c[i] = c[j] => i = j
  <2> SUFFICES ASSUME NEW i \in 1 .. Len(c), NEW j \in 1 .. Len(c), c[i] = c[j] PROVE i = j
    OBVIOUS
  <2>1. ~ (i < j) /\ ~ (j < i)
    BY <1>0, <1>1
  <2> QED
    BY <1>0, <2>1
<1>3. Len(c) <= Len(t)
  <2> DEFINE S == 1 .. Len(c)
             U == 1 .. Len(t)
             f == [i \in S |-> c[i]]
  <2>1. SUFFICES ASSUME Len(t) < Len(c) PROVE FALSE
    BY <1>0 DEF Links
  <2>2. f \in [S -> U]
    BY <1>0 DEF Links
  <2>3. IsFiniteSet(S) /\ Cardinality(S) = Len(c) /\ IsFiniteSet(U) /\ Cardinality(U) = Len(t)
    <3> DEFINE l == Len(c)
               n == Len(t)
    <3>1. l \in Nat /\ n \in Nat /\ 1 \in Int
      BY <1>0 DEF Links
    <3> HIDE DEF l, n
    <3>2. /\ IsFiniteSet(1 .. l) /\ Cardinality(1 .. l) = l
          /\ IsFiniteSet(1 .. n) /\ Cardinality(1 .. n) = n
      BY <3>1, FS_Interval
    <3> QED
      BY <3>2 DEF l, n
  <2>4. Cardinality(U) < Cardinality(S)
    BY <2>1, <2>3
  <2>5. PICK x \in S, y \in S : x # y /\ f[x] = f[y]
    <3> HIDE DEF S, U, f
    <3> QED
      BY <2>2, <2>3, <2>4, FS_PigeonHole
  <2> QED
    BY <1>2, <2>5
<1> QED
  BY <1>2, <1>3

(* A list that has ended holds every node of the set.                      *)
LEMMA EndedLists ==
  ASSUME NEW t, NEW s, NEW C, NEW r, Links(t, s, C, r), NEW c, Follows(t, s, C, c),
         s # 0 => t[c[Len(c)]].nxt = 0
  PROVE  Lists(t, s, C, c)
<1>0. Len(c) \in Nat /\ \A i \in 1 .. Len(c) : c[i] \in C /\ r[c[i]] \in Nat
  BY ElementOfSeq, LenProperties DEF Follows, Links
<1>1. DOMAIN c = 1 .. Len(c)
  BY LenProperties DEF Follows
<1>2. Range(c) \subseteq C
  BY <1>0, <1>1 DEF Range
<1>3. C \subseteq Range(c)
  <2> DEFINE Bad == {n \in C : n \notin Range(c)}
  <2>1. SUFFICES ASSUME Bad # {} PROVE FALSE
    OBVIOUS
  <2>2. PICK n \in Bad : \A m \in Bad : r[n] <= r[m]
    <3>1. \A m \in Bad : r[m] \in Nat
      BY DEF Links
    <3> HIDE DEF Bad
    <3> QED
      BY <2>1, <3>1, LeastRank
  <2>4. n \in C /\ n \notin Range(c)
    OBVIOUS
  <2>5. CASE n = s
    <3>1. s # 0
      BY <2>4, <2>5 DEF Links
    <3>2. c[1] = s /\ c # << >>
      BY <3>1 DEF Follows
    <3>3. 1 \in 1 .. Len(c)
      BY <1>0, <3>2, EmptySeq, LenProperties DEF Follows
    <3> QED
      BY <1>1, <2>4, <2>5, <3>2, <3>3 DEF Range
  <2>6. ASSUME NEW b \in C, t[b].nxt = n PROVE FALSE
    <3>1. n # 0
      BY <2>4 DEF Links
    <3>2. r[b] < r[n] /\ r[b] \in Nat /\ r[n] \in Nat
      BY <2>4, <2>6, <3>1 DEF Links
    <3>3. b \in Range(c)
      <4>1. SUFFICES ASSUME b \in Bad PROVE FALSE
        OBVIOUS
      <4>2. r[n] <= r[b]
        BY <2>2, <4>1
      <4> QED
        BY <3>2, <4>2
    <3>4. PICK i \in 1 .. Len(c) : c[i] = b
      BY <1>1, <3>3 DEF Range
    <3>5. CASE i = Len(c)
      <4>1. s # 0
        <5>1. c # << >>
          BY <1>0, <3>4
        <5> QED
          BY <5>1 DEF Follows
      <4> QED
        BY <2>6, <3>1, <3>4, <3>5, <4>1
    <3>6. CASE i # Len(c)
      <4>1. i \in 1 .. Len(c) - 1 /\ i + 1 \in 1 .. Len(c)
        BY <1>0, <3>4, <3>6
      <4>2. c[i + 1] = n
        BY <2>6, <3>4, <4>1 DEF Follows
      <4> QED
        BY <1>1, <2>4, <4>1, <4>2 DEF Range
    <3> QED
      BY <3>5, <3>6
  <2> QED
    BY <2>4, <2>5, <2>6 DEF Links
<1>4. (\A i, j \in 1 .. Len(c) : c[i] = c[j] => i = j) /\ Len(c) <= Len(t)
  BY FollowRises
<1>5. Range(c) = C
  BY <1>2, <1>3
<1> QED
  BY <1>4, <1>5 DEF Lists

(* Chain follows the links to their end and meets every node once.         *)
LEMMA ChainLists ==
  ASSUME NEW t, NEW s, NEW C, NEW r, Links(t, s, C, r)
  PROVE  Lists(t, s, C, Chain(t, s))
<1> DEFINE K == CHOOSE f : f = [k \in 0 .. Len(t) |-> ChainAfter(f, t, s, k)]
           N == Len(t)
           Ended(c) == s # 0 => t[c[Len(c)]].nxt = 0
           Right(k) == Follows(t, s, C, K[k]) /\ (Ended(K[k]) \/ Len(K[k]) = k + 1)
           Bad == {k \in 0 .. N : ~ Right(k)}
<1>0. N \in Nat
  BY DEF Links
<1>1. K = [k \in 0 .. N |-> ChainAfter(K, t, s, k)]
  BY <1>0, ChainExists
<1>2. Chain(t, s) = K[N]
  BY DEF Chain, ChainAfter, ChainNext
<1> HIDE DEF K, N, Ended
<1>3. \A k \in 0 .. N : K[k] = ChainAfter(K, t, s, k)
  BY <1>1
<1>4. Bad = {}
  <2>1. SUFFICES ASSUME Bad # {} PROVE FALSE
    OBVIOUS
  <2>2. PICK k \in Bad : \A l \in Bad : k <= l
    <3>1. Bad \subseteq Nat
      OBVIOUS
    <3> HIDE DEF Bad
    <3> QED
      BY <2>1, <3>1, LeastNatural
  <2>3. k \in 0 .. N /\ ~ Right(k)
    OBVIOUS
  <2>4. CASE k = 0
    <3>1. K[0] = IF s = 0 THEN << >> ELSE << s >>
      BY <1>3, <2>3, <2>4 DEF ChainAfter
    <3>2. CASE s = 0
      <4>1. Follows(t, s, C, << >>)
        BY <3>2 DEF Follows
      <4> QED
        BY <2>3, <2>4, <3>1, <3>2, <4>1 DEF Ended
    <3>3. CASE s # 0
      <4>1. s \in C
        BY <3>3 DEF Links
      <4>2. << s >> \in Seq(C) /\ Len(<< s >>) = 1 /\ << s >>[1] = s /\ << s >> # << >>
        BY <4>1
      <4>3. Follows(t, s, C, << s >>)
        BY <3>3, <4>2 DEF Follows
      <4> QED
        BY <2>3, <2>4, <3>1, <3>3, <4>2, <4>3
    <3> QED
      BY <3>2, <3>3
  <2>5. CASE k # 0
    <3>1. k - 1 \in 0 .. N /\ ~ (k <= k - 1) /\ (k - 1) + 1 = k
      BY <1>0, <2>3, <2>5
    <3>2. Right(k - 1)
      BY <2>2, <3>1
    <3> DEFINE c == K[k - 1]
    <3>3. K[k] = ChainNext(t, c)
      BY <1>3, <2>3, <2>5 DEF ChainAfter
    <3>4. Follows(t, s, C, c) /\ (Ended(c) \/ Len(c) = k)
      BY <3>1, <3>2
    <3> HIDE DEF c
    <3>5. c \in Seq(C) /\ Last(c) = c[Len(c)] /\ (s = 0 <=> c = << >>)
      BY <3>4 DEF Follows, Last
    <3>6. CASE Ended(c)
      <4>1. ChainNext(t, c) = c
        BY <3>5, <3>6 DEF ChainNext, Ended
      <4> QED
        BY <2>3, <3>3, <3>4, <3>6, <4>1
    <3>7. CASE ~ Ended(c)
      <4>1. c # << >> /\ t[Last(c)].nxt # 0
        BY <3>5, <3>7 DEF Ended
      <4>2. Follows(t, s, C, ChainNext(t, c)) /\ Len(ChainNext(t, c)) = Len(c) + 1
        BY <3>4, <4>1, FollowNext
      <4> QED
        BY <2>3, <3>3, <3>4, <3>7, <4>2
    <3> QED
      BY <3>6, <3>7
  <2> QED
    BY <2>4, <2>5
<1>5. Right(N)
  BY <1>0, <1>4
<1> DEFINE d == K[N]
<1>6. Follows(t, s, C, d) /\ (Ended(d) \/ Len(d) = N + 1)
  BY <1>5
<1> HIDE DEF d
<1>7. Len(d) <= N
  BY <1>6, FollowRises DEF N
<1>8. Ended(d)
  BY <1>0, <1>6, <1>7
<1> QED
  BY <1>2, <1>6, <1>8, EndedLists DEF Ended, d

-----------------------------------------------------------------------------
(* Trees. *)

\* The nodes of T form a tree: first children by dwn, siblings by nxt; r grows
\* from parents to children and from left to right.
Tree(t, root, T, r) ==
  /\ T \subseteq 1 .. Len(t) /\ Len(t) \in Nat
  /\ root \in T /\ t[root].upn = 0 /\ t[root].nxt = 0
  /\ \A n \in T : r[n] \in Nat
  /\ \A n \in T : t[n].dwn \in T \cup {0} /\ t[n].nxt \in T \cup {0}
  /\ \A n \in T : t[n].dwn # 0 => t[t[n].dwn].upn = n
  /\ \A n \in T : t[n].nxt # 0 => t[t[n].nxt].upn = t[n].upn /\ r[n] < r[t[n].nxt]
  /\ \A n \in T \ {root} : t[n].upn \in T /\ r[t[n].upn] < r[n]
  /\ \A n \in T \ {root} : \E p \in T : t[p].dwn = n \/ t[p].nxt = n
  /\ \A p, q \in T : t[p].nxt # 0 /\ t[p].nxt = t[q].nxt => p = q
  /\ \A p, q \in T : t[p].dwn # 0 => t[p].dwn # t[q].nxt

Kids(t, T, p) == {n \in T : t[n].upn = p}

(* The children of a node are linked from its dwn on.                      *)
LEMMA KidLinks ==
  ASSUME NEW t, NEW root, NEW T, NEW r, Tree(t, root, T, r), NEW p \in T
  PROVE  Links(t, t[p].dwn, Kids(t, T, p), r)
<1> DEFINE C == Kids(t, T, p)
           s == t[p].dwn
<1>1. p # 0 /\ T \subseteq 1 .. Len(t) /\ Len(t) \in Nat
  BY DEF Tree
<1>2. C \subseteq 1 .. Len(t) /\ \A n \in C : n \in T /\ t[n].upn = p /\ n # root
  BY <1>1 DEF Kids, Tree
<1>3. s \in C \cup {0}
  BY DEF Tree, Kids
<1>4. \A n \in C : t[n].nxt \in C \cup {0}
  BY <1>2 DEF Tree, Kids
<1>5. \A n \in C : r[n] \in Nat /\ (t[n].nxt # 0 => r[n] < r[t[n].nxt])
  BY <1>2 DEF Tree
<1>6. ASSUME NEW n \in C PROVE n = s \/ \E b \in C : t[b].nxt = n
  <2>1. n \in T /\ n # 0 /\ n # root /\ t[n].upn = p
    BY <1>1, <1>2
  <2>2. PICK q \in T : t[q].dwn = n \/ t[q].nxt = n
    BY <2>1 DEF Tree
  <2>3. CASE t[q].dwn = n
    <3>1. t[n].upn = q
      BY <2>1, <2>3 DEF Tree
    <3> QED
      BY <2>1, <2>3, <3>1
  <2>4. CASE t[q].nxt = n
    <3>1. t[q].upn = p
      BY <2>1, <2>4 DEF Tree
    <3> QED
      BY <2>4, <3>1 DEF Kids
  <2> QED
    BY <2>2, <2>3, <2>4
<1> QED
  BY <1>1, <1>2, <1>3, <1>4, <1>5, <1>6 DEF Links

(* Chain lists the children of a node from left to right.                  *)
LEMMA KidLists ==
  ASSUME NEW t, NEW root, NEW T, NEW r, Tree(t, root, T, r), NEW p \in T
  PROVE  Lists(t, t[p].dwn, Kids(t, T, p), Chain(t, t[p].dwn))
BY KidLinks, ChainLists

Widen(s) == (s \cup {node[n].dwn : n \in s} \cup {node[n].nxt : n \in s}) \ {0}

WithinAfter(f, d) == IF d = 0 THEN {fst} \ {0} ELSE Widen(f[d - 1])

(* The recursion of TreeNodes defines a function, up to any depth.         *)
LEMMA WithinExists ==
  ASSUME NEW N \in Nat
  PROVE  \E f : f = [d \in 0 .. N |-> WithinAfter(f, d)]
<1> DEFINE Ok(f, n) == f = [k \in 0 .. n |-> WithinAfter(f, k)]
           Bad == {n \in Nat : ~ \E f : Ok(f, n)}
<1>1. SUFFICES ASSUME Bad # {} PROVE FALSE
  OBVIOUS
<1>2. PICK n \in Bad : \A l \in Bad : n <= l
  BY <1>1, LeastNatural
<1>3. n # 0
  <2>1. Ok([k \in 0 .. 0 |-> {fst} \ {0}], 0)
    BY DEF WithinAfter
  <2> QED
    BY <2>1, <1>2
<1>4. n \in Nat /\ n - 1 \in Nat /\ ~ (n <= n - 1)
  BY <1>3
<1>5. PICK f : Ok(f, n - 1)
  BY <1>2, <1>4
<1>6. PICK g : g = [k \in 0 .. n |-> IF k = n THEN WithinAfter(f, n) ELSE f[k]]
  OBVIOUS
<1>7. Ok(g, n)
  <2>1. g[n] = WithinAfter(f, n) /\ \A k \in 0 .. n - 1 : g[k] = f[k]
    BY <1>4, <1>6
  <2>2. \A k \in 0 .. n - 1 : f[k] = WithinAfter(f, k)
    BY <1>5
  <2>3. \A k \in 0 .. n - 1 : k = 0 \/ k - 1 \in 0 .. n - 1
    BY <1>4
  <2>4. \A k \in 0 .. n - 1 : g[k] = WithinAfter(g, k)
    BY <2>1, <2>2, <2>3 DEF WithinAfter
  <2>5. n - 1 \in 0 .. n - 1
    BY <1>4
  <2>6. g[n] = WithinAfter(g, n)
    BY <2>1, <2>5, <1>3 DEF WithinAfter
  <2>7. \A k \in 0 .. n : k = n \/ k \in 0 .. n - 1
    BY <1>4
  <2> QED
    BY <2>4, <2>6, <2>7, <1>6
<1> QED
  BY <1>2, <1>7

(* A set of tree nodes that widening does not change is the whole tree.    *)
LEMMA ClosedIsAll ==
  ASSUME NEW T, NEW r, Tree(node, fst, T, r), NEW s \in SUBSET T, fst \in s, Widen(s) = s
  PROVE  s = T
<1> DEFINE Bad == {n \in T : n \notin s}
<1>1. SUFFICES ASSUME Bad # {} PROVE FALSE
  OBVIOUS
<1>2. PICK n \in Bad : \A m \in Bad : r[n] <= r[m]
  <2>1. \A m \in Bad : r[m] \in Nat
    BY DEF Tree
  <2> HIDE DEF Bad
  <2> QED
    BY <1>1, <2>1, LeastRank
<1>3. n \in T \ {fst} /\ n \notin s /\ n # 0 /\ r[n] \in Nat
  BY DEF Tree
<1>4. PICK p \in T : node[p].dwn = n \/ node[p].nxt = n
  BY <1>3 DEF Tree
<1>5. r[p] < r[n] /\ r[p] \in Nat
  <2>1. CASE node[p].dwn = n
    <3>1. node[n].upn = p
      BY <1>3, <2>1 DEF Tree
    <3> QED
      BY <1>3, <3>1 DEF Tree
  <2>2. CASE node[p].nxt = n
    BY <1>3, <2>2 DEF Tree
  <2> QED
    BY <1>4, <2>1, <2>2
<1>6. p \in s
  <2>1. SUFFICES ASSUME p \in Bad PROVE FALSE
    OBVIOUS
  <2>2. r[n] <= r[p]
    BY <1>2, <2>1
  <2> QED
    BY <1>3, <1>5, <2>2
<1>7. n \in Widen(s)
  BY <1>3, <1>4, <1>6 DEF Widen
<1> QED
  BY <1>3, <1>7

(* TreeNodes reaches the whole tree within as many steps as there are nodes. *)
LEMMA TreeNodesIs ==
  ASSUME NEW T, NEW r, Tree(node, fst, T, r)
  PROVE  TreeNodes = T
<1> DEFINE N == Len(node)
           K == CHOOSE f : f = [d \in 0 .. N |-> WithinAfter(f, d)]
           Right(d) == /\ K[d] \subseteq T /\ fst \in K[d]
                       /\ Widen(K[d]) = K[d] \/ Cardinality(K[d]) >= d + 1
           Bad == {d \in 0 .. N : ~ Right(d)}
<1>0. N \in Nat /\ T \subseteq 1 .. N /\ 0 \notin T /\ fst \in T
  BY DEF Tree
<1>1. K = [d \in 0 .. N |-> WithinAfter(K, d)]
  BY <1>0, WithinExists
<1>2. TreeNodes = K[N]
  BY DEF TreeNodes, WithinAfter, Widen
<1> HIDE DEF K, N
<1>3. \A d \in 0 .. N : K[d] = WithinAfter(K, d)
  BY <1>1
<1>fin. /\ IsFiniteSet(1 .. N) /\ Cardinality(1 .. N) = N
        /\ \A s \in SUBSET T : IsFiniteSet(s) /\ Cardinality(s) \in Nat /\ Cardinality(s) <= N
  <2>1. IsFiniteSet(1 .. N) /\ Cardinality(1 .. N) = N
    BY <1>0, FS_Interval
  <2>2. ASSUME NEW s \in SUBSET T
        PROVE  IsFiniteSet(s) /\ Cardinality(s) \in Nat /\ Cardinality(s) <= N
    <3>1. s \in SUBSET (1 .. N)
      BY <1>0
    <3> QED
      BY <2>1, <3>1, FS_Subset, FS_CardinalityType
  <2> QED
    BY <2>1, <2>2
<1>w. \A s \in SUBSET T : s \subseteq Widen(s) /\ Widen(s) \subseteq T
  <2> TAKE s \in SUBSET T
  <2>1. \A n \in s : node[n].dwn \in T \cup {0} /\ node[n].nxt \in T \cup {0}
    BY DEF Tree
  <2> QED
    BY <1>0, <2>1 DEF Widen
<1>4. Bad = {}
  <2>1. SUFFICES ASSUME Bad # {} PROVE FALSE
    OBVIOUS
  <2>2. PICK d \in Bad : \A l \in Bad : d <= l
    <3>1. Bad \subseteq Nat
      OBVIOUS
    <3> HIDE DEF Bad
    <3> QED
      BY <2>1, <3>1, LeastNatural
  <2>3. d \in 0 .. N /\ ~ Right(d)
    OBVIOUS
  <2>4. CASE d = 0
    <3>1. K[0] = {fst}
      BY <1>0, <1>3, <2>3, <2>4 DEF WithinAfter
    <3>2. Cardinality({fst}) = 1
      BY FS_Singleton
    <3> QED
      BY <1>0, <2>3, <2>4, <3>1, <3>2
  <2>5. CASE d # 0
    <3>1. d - 1 \in 0 .. N /\ ~ (d <= d - 1) /\ (d - 1) + 1 = d
      BY <1>0, <2>3, <2>5
    <3>2. Right(d - 1)
      BY <2>2, <3>1
    <3> DEFINE s == K[d - 1]
               u == K[d]
    <3>3. u = Widen(s)
      BY <1>3, <2>3, <2>5 DEF WithinAfter
    <3>4. s \subseteq T /\ fst \in s /\ (Widen(s) = s \/ Cardinality(s) >= d)
      BY <3>1, <3>2
    <3>5. s \subseteq u /\ u \subseteq T
      BY <1>w, <3>3, <3>4
    <3>6. ~ (u \subseteq T /\ fst \in u /\ (Widen(u) = u \/ Cardinality(u) >= d + 1))
      BY <2>3
    <3> HIDE DEF s, u
    <3>7. CASE u = s
      BY <3>3, <3>4, <3>5, <3>6, <3>7
    <3>8. CASE u # s
      <4>1. PICK x \in u : x \notin s
        BY <3>5, <3>8
      <4>2. Cardinality(s) >= d
        BY <3>3, <3>4, <3>8
      <4>3. /\ IsFiniteSet(s) /\ Cardinality(s) \in Nat /\ IsFiniteSet(u) /\ Cardinality(u) \in Nat
        BY <1>fin, <3>4, <3>5
      <4>4. Cardinality(s \cup {x}) = Cardinality(s) + 1
        BY <4>1, <4>3, FS_AddElement
      <4>5. s \cup {x} \in SUBSET u
        BY <3>5, <4>1
      <4>6. Cardinality(s \cup {x}) <= Cardinality(u)
        BY <4>3, <4>5, FS_Subset
      <4>7. Cardinality(u) >= d + 1
        BY <2>3, <4>2, <4>3, <4>4, <4>6
      <4> QED
        BY <3>4, <3>5, <3>6, <4>7
    <3> QED
      BY <3>7, <3>8
  <2> QED
    BY <2>4, <2>5
<1>5. Right(N)
  BY <1>0, <1>4
<1> DEFINE w == K[N]
<1>6. w \in SUBSET T /\ fst \in w /\ (Widen(w) = w \/ Cardinality(w) >= N + 1)
  BY <1>5
<1> HIDE DEF w
<1>7. Cardinality(w) \in Nat /\ Cardinality(w) <= N
  BY <1>fin, <1>6
<1>8. Widen(w) = w
  BY <1>0, <1>6, <1>7
<1> QED
  BY <1>2, <1>6, <1>8, ClosedIsAll DEF w

-----------------------------------------------------------------------------
(* The free list. *)

\* The free nodes F are linked from l on; each keeps the length of the list
\* from it on.
FreeList(t, l, F) ==
  /\ F \subseteq 1 .. Len(t) /\ Len(t) \in Nat
  /\ l \in F \cup {0} /\ (l = 0 => F = {})
  /\ l # 0 => t[l].dat = Cardinality(F)
  /\ \A f \in F : t[f].dat \in Nat /\ t[f].dat <= t[l].dat
  /\ \A f \in F : t[f].nxt \in F \cup {0}
  /\ \A f \in F : t[f].dat = IF t[f].nxt = 0 THEN 1 ELSE t[t[f].nxt].dat + 1
  /\ \A f \in F : f = l \/ \E g \in F : t[g].nxt = f

LEMMA FreeLists ==
  ASSUME NEW t, NEW l, NEW F, FreeList(t, l, F)
  PROVE  Lists(t, l, F, Chain(t, l))
<1> DEFINE r == [f \in F |-> t[l].dat - t[f].dat]
<1>1. \A f \in F : r[f] \in Nat
  BY DEF FreeList
<1>2. \A f \in F : t[f].nxt # 0 => r[f] < r[t[f].nxt]
  <2> SUFFICES ASSUME NEW f \in F, t[f].nxt # 0 PROVE r[f] < r[t[f].nxt]
    OBVIOUS
  <2>1. t[f].nxt \in F /\ t[f].dat = t[t[f].nxt].dat + 1 /\ l \in F
    BY DEF FreeList
  <2>2. t[f].dat \in Nat /\ t[t[f].nxt].dat \in Nat /\ t[l].dat \in Nat
    BY <2>1 DEF FreeList
  <2> QED
    BY <2>1, <2>2
<1>3. Links(t, l, F, r)
  <2> HIDE DEF r
  <2> QED
    BY <1>1, <1>2 DEF Links, FreeList
<1> HIDE DEF r
<1> QED
  BY <1>3, ChainLists

(* A free list only depends on its own nodes.                              *)
LEMMA FreeSame ==
  ASSUME NEW t, NEW l, NEW F, FreeList(t, l, F), NEW u, Len(u) \in Nat, Len(t) <= Len(u),
         \A f \in F : u[f].dat = t[f].dat /\ u[f].nxt = t[f].nxt
  PROVE  FreeList(u, l, F)
<1>1. F \subseteq 1 .. Len(u)
  BY DEF FreeList
<1>2. l # 0 => u[l].dat = t[l].dat
  BY DEF FreeList
<1>3. \A f \in F : u[f].dat \in Nat /\ u[f].dat <= u[l].dat
  BY <1>2 DEF FreeList
<1>4. \A f \in F : u[f].dat = IF u[f].nxt = 0 THEN 1 ELSE u[u[f].nxt].dat + 1
  BY DEF FreeList
<1> QED
  BY <1>1, <1>2, <1>3, <1>4 DEF FreeList

(* The first node of the free list is taken off it.                        *)
LEMMA FreeTake ==
  ASSUME NEW t, NEW l, NEW F, FreeList(t, l, F), l # 0
  PROVE  FreeList(t, t[l].nxt, F \ {l})
<1> DEFINE G == F \ {l}
           k == t[l].nxt
<1>0. /\ F \subseteq 1 .. Len(t) /\ Len(t) \in Nat /\ l \in F
      /\ t[l].dat = Cardinality(F)
      /\ \A f \in F : t[f].dat \in Nat /\ t[f].dat <= t[l].dat
      /\ \A f \in F : t[f].nxt \in F \cup {0}
      /\ \A f \in F : t[f].dat = IF t[f].nxt = 0 THEN 1 ELSE t[t[f].nxt].dat + 1
      /\ \A f \in F : f = l \/ \E g \in F : t[g].nxt = f
      /\ \A f \in F : f # 0
  BY DEF FreeList
<1>1. IsFiniteSet(F) /\ Cardinality(F) \in Nat
  <2>1. IsFiniteSet(1 .. Len(t)) /\ F \in SUBSET (1 .. Len(t))
    BY <1>0, FS_Interval
  <2> QED
    BY <2>1, FS_Subset, FS_CardinalityType
<1>2. IsFiniteSet(G) /\ Cardinality(G) = Cardinality(F) - 1
  BY <1>0, <1>1, FS_RemoveElement
<1>3. \A f \in F : t[f].nxt # l
  <2> SUFFICES ASSUME NEW f \in F, t[f].nxt = l PROVE FALSE
    OBVIOUS
  <2>1. t[f].dat = t[l].dat + 1 /\ t[f].dat <= t[l].dat /\ t[l].dat \in Nat
    BY <1>0
  <2> QED
    BY <2>1
<1>4. \A f \in G : t[f].nxt \in G \cup {0}
  BY <1>0, <1>3
<1>5. k \in G \cup {0}
  BY <1>0, <1>3
<1>6. CASE k = 0
  <2>1. t[l].dat = 1
    BY <1>0, <1>6
  <2>2. Cardinality(G) = 0
    BY <1>0, <1>2, <2>1
  <2>3. G = {}
    BY <1>2, <2>2, FS_EmptySet
  <2>4. FreeList(t, 0, {})
    BY <1>0 DEF FreeList
  <2> QED
    BY <1>6, <2>3, <2>4
<1>7. CASE k # 0
  <2>1. k \in G /\ t[l].dat = t[k].dat + 1 /\ t[k].dat \in Nat
    BY <1>0, <1>5, <1>7
  <2>2. t[k].dat = Cardinality(G)
    BY <1>0, <1>1, <1>2, <2>1
  <2>3. ASSUME NEW f \in G PROVE f = k \/ \E g \in G : t[g].nxt = f
    <3>1. PICK g \in F : t[g].nxt = f
      BY <1>0
    <3> QED
      BY <3>1
  <2>4. ASSUME NEW f \in G PROVE t[f].dat \in Nat /\ t[f].dat <= t[k].dat
    <3>1. PICK g \in F : t[g].nxt = f
      BY <1>0
    <3>2. t[g].dat = t[f].dat + 1 /\ t[g].dat <= t[l].dat /\ t[f].dat \in Nat /\ t[l].dat \in Nat
      BY <1>0, <3>1
    <3> QED
      BY <2>1, <3>2
  <2>5. G \subseteq 1 .. Len(t) /\ \A f \in G : f \in F
    BY <1>0
  <2>6. \A f \in G : t[f].dat = IF t[f].nxt = 0 THEN 1 ELSE t[t[f].nxt].dat + 1
    BY <1>0, <2>5
  <2> HIDE DEF G, k
  <2>7. FreeList(t, k, G)
    BY <1>0, <1>4, <1>7, <2>1, <2>2, <2>3, <2>4, <2>5, <2>6 DEF FreeList
  <2> QED
    BY <2>7 DEF G, k
<1> QED
  BY <1>6, <1>7

(* A node is put before the free list, with the length as it has become.   *)
LEMMA FreePut ==
  ASSUME NEW t, NEW l, NEW F, FreeList(t, l, F), NEW n \in 1 .. Len(t), n \notin F,
         NEW u, Len(u) = Len(t), \A f \in F : u[f].dat = t[f].dat /\ u[f].nxt = t[f].nxt,
         u[n].nxt = l, u[n].dat = IF l = 0 THEN 1 ELSE 1 + t[l].dat
  PROVE  FreeList(u, n, F \cup {n})
<1> DEFINE G == F \cup {n}
<1>0. /\ F \subseteq 1 .. Len(t) /\ Len(t) \in Nat /\ l \in F \cup {0} /\ (l = 0 => F = {})
      /\ l # 0 => t[l].dat = Cardinality(F)
      /\ \A f \in F : t[f].dat \in Nat /\ t[f].dat <= t[l].dat
      /\ \A f \in F : t[f].nxt \in F \cup {0}
      /\ \A f \in F : t[f].dat = IF t[f].nxt = 0 THEN 1 ELSE t[t[f].nxt].dat + 1
      /\ \A f \in F : f = l \/ \E g \in F : t[g].nxt = f
      /\ \A f \in F : f # 0
  BY DEF FreeList
<1>1. IsFiniteSet(F) /\ Cardinality(F) \in Nat
  <2>1. IsFiniteSet(1 .. Len(t)) /\ F \in SUBSET (1 .. Len(t))
    BY <1>0, FS_Interval
  <2> QED
    BY <2>1, FS_Subset, FS_CardinalityType
<1>2. Cardinality(G) = Cardinality(F) + 1
  BY <1>1, FS_AddElement
<1>3. l = 0 => Cardinality(F) = 0
  BY <1>0, FS_EmptySet
<1>4. u[n].dat = Cardinality(G) /\ u[n].dat \in Nat
  BY <1>0, <1>1, <1>2, <1>3
<1>5. l # 0 => l \in F /\ u[l].dat = t[l].dat /\ u[n].dat = u[l].dat + 1 /\ t[l].dat \in Nat
  BY <1>0
<1>6. \A f \in G : u[f].dat \in Nat /\ u[f].dat <= u[n].dat
  <2> SUFFICES ASSUME NEW f \in F PROVE u[f].dat \in Nat /\ u[f].dat <= u[n].dat
    BY <1>4
  <2>1. l # 0 /\ t[f].dat \in Nat /\ t[f].dat <= t[l].dat
    BY <1>0
  <2> QED
    BY <1>5, <2>1
<1>7. \A f \in G : u[f].nxt \in G \cup {0}
  BY <1>0
<1>8. \A f \in G : u[f].dat = IF u[f].nxt = 0 THEN 1 ELSE u[u[f].nxt].dat + 1
  <2> SUFFICES ASSUME NEW f \in F PROVE u[f].dat = IF u[f].nxt = 0 THEN 1 ELSE u[u[f].nxt].dat + 1
    BY <1>5
  <2>1. u[f].dat = t[f].dat /\ u[f].nxt = t[f].nxt
    OBVIOUS
  <2>2. t[f].nxt # 0 => u[t[f].nxt].dat = t[t[f].nxt].dat
    BY <1>0
  <2> QED
    BY <1>0, <2>1, <2>2
<1>9. \A f \in G : f = n \/ \E g \in G : u[g].nxt = f
  BY <1>0
<1>10. G \subseteq 1 .. Len(u) /\ Len(u) \in Nat /\ n # 0 /\ n \in G
  BY <1>0
<1> HIDE DEF G
<1>11. FreeList(u, n, G)
  BY <1>4, <1>6, <1>7, <1>8, <1>9, <1>10 DEF FreeList
<1> QED
  BY <1>11 DEF G

-----------------------------------------------------------------------------
(* A new node in the tree. *)

Between(r, T, c, n) == [x \in T \cup {n} |-> IF x = n THEN 2 * r[c] + 1 ELSE 2 * r[x]]

(* Ranks can be made room in after any node.                               *)
LEMMA BetweenRanks ==
  ASSUME NEW T, NEW r, \A x \in T : r[x] \in Nat, NEW c \in T, NEW n, n \notin T
  PROVE  LET q == Between(r, T, c, n) IN
         /\ \A x \in T \cup {n} : q[x] \in Nat
         /\ \A x, y \in T : r[x] < r[y] => q[x] < q[y]
         /\ q[c] < q[n]
         /\ \A x \in T : r[c] < r[x] => q[n] < q[x]
         /\ \A x \in T : r[x] < r[c] => q[x] < q[n]
<1> DEFINE q == Between(r, T, c, n)
<1>1. q[n] = 2 * r[c] + 1 /\ \A x \in T : q[x] = 2 * r[x]
  BY DEF Between
<1> HIDE DEF q
<1>2. \A x \in T \cup {n} : q[x] \in Nat
  BY <1>1
<1>3. \A x, y \in T : r[x] < r[y] => q[x] < q[y]
  BY <1>1
<1>4. q[c] < q[n]
  BY <1>1
<1>5. \A x \in T : r[c] < r[x] => q[n] < q[x]
  <2> TAKE x \in T
  <2>1. r[c] \in Nat /\ r[x] \in Nat
    OBVIOUS
  <2> QED
    BY <1>1, <2>1
<1>6. \A x \in T : r[x] < r[c] => q[x] < q[n]
  <2> TAKE x \in T
  <2>1. r[c] \in Nat /\ r[x] \in Nat
    OBVIOUS
  <2> QED
    BY <1>1, <2>1
<1> QED
  BY <1>2, <1>3, <1>4, <1>5, <1>6 DEF q

\* u is t with a new first child n of c.
ChildAdded(t, u, T, c, n) ==
  /\ n \in 1 .. Len(u) /\ n \notin T /\ Len(u) \in Nat /\ Len(t) <= Len(u)
  /\ \A x \in T : /\ u[x].upn = t[x].upn /\ u[x].nxt = t[x].nxt
                  /\ u[x].dwn = IF x = c THEN n ELSE t[x].dwn
  /\ u[n].upn = c /\ u[n].dwn = 0 /\ u[n].nxt = t[c].dwn

LEMMA ChildTree ==
  ASSUME NEW t, NEW root, NEW T, NEW r, Tree(t, root, T, r), NEW c \in T, NEW u, NEW n,
         ChildAdded(t, u, T, c, n)
  PROVE  Tree(u, root, T \cup {n}, Between(r, T, c, n))
<1> DEFINE q == Between(r, T, c, n)
           S == T \cup {n}
           d == t[c].dwn
<1>0. /\ T \subseteq 1 .. Len(t) /\ Len(t) \in Nat
      /\ root \in T /\ t[root].upn = 0 /\ t[root].nxt = 0
      /\ \A x \in T : r[x] \in Nat
      /\ \A x \in T : t[x].dwn \in T \cup {0} /\ t[x].nxt \in T \cup {0}
      /\ \A x \in T : t[x].dwn # 0 => t[t[x].dwn].upn = x
      /\ \A x \in T : t[x].nxt # 0 => t[t[x].nxt].upn = t[x].upn /\ r[x] < r[t[x].nxt]
      /\ \A x \in T \ {root} : t[x].upn \in T /\ r[t[x].upn] < r[x]
      /\ \A x \in T \ {root} : \E p \in T : t[p].dwn = x \/ t[p].nxt = x
      /\ \A x, y \in T : t[x].nxt # 0 /\ t[x].nxt = t[y].nxt => x = y
      /\ \A x, y \in T : t[x].dwn # 0 => t[x].dwn # t[y].nxt
  BY DEF Tree
<1>1. /\ n \in 1 .. Len(u) /\ n \notin T /\ Len(u) \in Nat /\ Len(t) <= Len(u) /\ n # 0
      /\ \A x \in T : /\ u[x].upn = t[x].upn /\ u[x].nxt = t[x].nxt
                      /\ u[x].dwn = IF x = c THEN n ELSE t[x].dwn
      /\ u[n].upn = c /\ u[n].dwn = 0 /\ u[n].nxt = d
  BY DEF ChildAdded
<1>2. /\ \A x \in S : q[x] \in Nat
      /\ \A x, y \in T : r[x] < r[y] => q[x] < q[y]
      /\ q[c] < q[n]
      /\ \A x \in T : r[c] < r[x] => q[n] < q[x]
  BY <1>0, <1>1, BetweenRanks
<1>3. d \in T \cup {0} /\ (d # 0 => t[d].upn = c /\ r[c] < r[d])
  <2>1. d \in T \cup {0} /\ (d # 0 => t[d].upn = c)
    BY <1>0
  <2>2. ASSUME d # 0 PROVE r[c] < r[d]
    <3>1. d # root /\ c # 0
      BY <1>0, <2>1, <2>2
    <3> QED
      BY <1>0, <2>1, <2>2, <3>1
  <2> QED
    BY <2>1, <2>2
<1> HIDE DEF q, d
<1>4. S \subseteq 1 .. Len(u) /\ root \in S /\ u[root].upn = 0 /\ u[root].nxt = 0
  BY <1>0, <1>1
<1>5. \A x \in S : u[x].dwn \in S \cup {0} /\ u[x].nxt \in S \cup {0}
  BY <1>0, <1>1, <1>3
<1>6. \A x \in S : u[x].dwn # 0 => u[u[x].dwn].upn = x
  <2> SUFFICES ASSUME NEW x \in S, u[x].dwn # 0 PROVE u[u[x].dwn].upn = x
    OBVIOUS
  <2>1. x \in T
    BY <1>1
  <2>2. CASE x = c
    BY <1>1, <2>1, <2>2
  <2>3. CASE x # c
    <3>1. u[x].dwn = t[x].dwn /\ t[x].dwn \in T /\ t[t[x].dwn].upn = x
      BY <1>0, <1>1, <2>1, <2>3
    <3>2. u[t[x].dwn].upn = t[t[x].dwn].upn
      BY <1>1, <3>1
    <3> QED
      BY <3>1, <3>2
  <2> QED
    BY <2>2, <2>3
<1>7. \A x \in S : u[x].nxt # 0 => u[u[x].nxt].upn = u[x].upn /\ q[x] < q[u[x].nxt]
  <2> SUFFICES ASSUME NEW x \in S, u[x].nxt # 0
               PROVE  u[u[x].nxt].upn = u[x].upn /\ q[x] < q[u[x].nxt]
    OBVIOUS
  <2>1. CASE x = n
    <3>1. d \in T /\ t[d].upn = c /\ r[c] < r[d] /\ u[x].nxt = d
      BY <1>1, <1>3, <2>1
    <3> QED
      BY <1>1, <1>2, <2>1, <3>1
  <2>2. CASE x # n
    <3>1. x \in T /\ u[x].nxt = t[x].nxt /\ t[x].nxt \in T
      BY <1>0, <1>1, <2>2
    <3>2. t[t[x].nxt].upn = t[x].upn /\ r[x] < r[t[x].nxt]
      BY <1>0, <3>1
    <3>3. u[t[x].nxt].upn = t[t[x].nxt].upn /\ u[x].upn = t[x].upn
      BY <1>1, <3>1
    <3>4. q[x] < q[t[x].nxt]
      BY <1>2, <3>1, <3>2
    <3> QED
      BY <3>1, <3>2, <3>3, <3>4
  <2> QED
    BY <2>1, <2>2
<1>8. \A x \in S \ {root} : u[x].upn \in S /\ q[u[x].upn] < q[x]
  BY <1>0, <1>1, <1>2
<1>9. \A x \in S \ {root} : \E p \in S : u[p].dwn = x \/ u[p].nxt = x
  <2> SUFFICES ASSUME NEW x \in S \ {root} PROVE \E p \in S : u[p].dwn = x \/ u[p].nxt = x
    OBVIOUS
  <2>1. CASE x = n
    BY <1>1, <2>1
  <2>2. CASE x # n
    <3>1. PICK p \in T : t[p].dwn = x \/ t[p].nxt = x
      BY <1>0, <2>2
    <3>2. CASE t[p].nxt = x
      BY <1>1, <3>2
    <3>3. CASE t[p].dwn = x /\ p # c
      BY <1>1, <3>3
    <3>4. CASE t[p].dwn = x /\ p = c
      <4>1. u[n].nxt = x
        BY <1>1, <3>4 DEF d
      <4> QED
        BY <4>1
    <3> QED
      BY <3>1, <3>2, <3>3, <3>4
  <2> QED
    BY <2>1, <2>2
<1>10. \A x \in T : u[x].nxt # 0 => u[x].nxt # d
  BY <1>0, <1>1 DEF d
<1>11. \A x, y \in S : u[x].nxt # 0 /\ u[x].nxt = u[y].nxt => x = y
  BY <1>0, <1>1, <1>10
<1>12. \A x, y \in S : u[x].dwn # 0 => u[x].dwn # u[y].nxt
  <2> SUFFICES ASSUME NEW x \in S, NEW y \in S, u[x].dwn # 0, u[x].dwn = u[y].nxt PROVE FALSE
    OBVIOUS
  <2>1. x \in T
    BY <1>1
  <2>2. CASE x = c
    <3>1. u[y].nxt = n
      BY <1>1, <2>1, <2>2
    <3>2. u[y].nxt \in T \cup {0}
      BY <1>0, <1>1, <1>3
    <3> QED
      BY <1>1, <3>1, <3>2
  <2>3. CASE x # c /\ y = n
    <3>1. t[x].dwn = d /\ d # 0
      BY <1>1, <2>1, <2>3
    <3>2. t[d].upn = x
      BY <1>0, <2>1, <3>1
    <3> QED
      BY <1>3, <2>3, <3>1, <3>2
  <2>4. CASE x # c /\ y # n
    BY <1>0, <1>1, <2>1, <2>4
  <2> QED
    BY <2>2, <2>3, <2>4
<1> HIDE DEF S
<1>13. \A x \in S : q[x] \in Nat
  BY <1>2 DEF S
<1>14. Tree(u, root, S, q)
  BY <1>1, <1>4, <1>5, <1>6, <1>7, <1>8, <1>9, <1>11, <1>12, <1>13 DEF Tree
<1> QED
  BY <1>14 DEF S, q

\* u is t with a new right neighbour n of c.
SiblingAdded(t, u, T, c, n) ==
  /\ n \in 1 .. Len(u) /\ n \notin T /\ Len(u) \in Nat /\ Len(t) <= Len(u)
  /\ \A x \in T : /\ u[x].upn = t[x].upn /\ u[x].dwn = t[x].dwn
                  /\ u[x].nxt = IF x = c THEN n ELSE t[x].nxt
  /\ u[n].upn = t[c].upn /\ u[n].dwn = 0 /\ u[n].nxt = t[c].nxt

LEMMA SiblingTree ==
  ASSUME NEW t, NEW root, NEW T, NEW r, Tree(t, root, T, r), NEW c \in T, c # root, NEW u, NEW n,
         SiblingAdded(t, u, T, c, n)
  PROVE  Tree(u, root, T \cup {n}, Between(r, T, c, n))
<1> DEFINE q == Between(r, T, c, n)
           S == T \cup {n}
           d == t[c].nxt
           k == t[c].upn
<1>0. /\ T \subseteq 1 .. Len(t) /\ Len(t) \in Nat
      /\ root \in T /\ t[root].upn = 0 /\ t[root].nxt = 0
      /\ \A x \in T : r[x] \in Nat
      /\ \A x \in T : t[x].dwn \in T \cup {0} /\ t[x].nxt \in T \cup {0}
      /\ \A x \in T : t[x].dwn # 0 => t[t[x].dwn].upn = x
      /\ \A x \in T : t[x].nxt # 0 => t[t[x].nxt].upn = t[x].upn /\ r[x] < r[t[x].nxt]
      /\ \A x \in T \ {root} : t[x].upn \in T /\ r[t[x].upn] < r[x]
      /\ \A x \in T \ {root} : \E p \in T : t[p].dwn = x \/ t[p].nxt = x
      /\ \A x, y \in T : t[x].nxt # 0 /\ t[x].nxt = t[y].nxt => x = y
      /\ \A x, y \in T : t[x].dwn # 0 => t[x].dwn # t[y].nxt
  BY DEF Tree
<1>1. /\ n \in 1 .. Len(u) /\ n \notin T /\ Len(u) \in Nat /\ Len(t) <= Len(u) /\ n # 0
      /\ \A x \in T : /\ u[x].upn = t[x].upn /\ u[x].dwn = t[x].dwn
                      /\ u[x].nxt = IF x = c THEN n ELSE t[x].nxt
      /\ u[n].upn = k /\ u[n].dwn = 0 /\ u[n].nxt = d
  BY DEF SiblingAdded
<1>2. /\ \A x \in S : q[x] \in Nat
      /\ \A x, y \in T : r[x] < r[y] => q[x] < q[y]
      /\ q[c] < q[n]
      /\ \A x \in T : r[c] < r[x] => q[n] < q[x]
      /\ \A x \in T : r[x] < r[c] => q[x] < q[n]
  BY <1>0, <1>1, BetweenRanks
<1>3. /\ d \in T \cup {0} /\ (d # 0 => t[d].upn = k /\ r[c] < r[d])
      /\ k \in T /\ r[k] < r[c]
  BY <1>0
<1>10. \A x \in T : x # c /\ d # 0 => t[x].nxt # d
  BY <1>0
<1>15. \A x \in T : t[x].dwn # 0 => t[x].dwn # d
  BY <1>0
<1> HIDE DEF q, d, k
<1>4. S \subseteq 1 .. Len(u) /\ root \in S /\ u[root].upn = 0 /\ u[root].nxt = 0
  BY <1>0, <1>1
<1>5. \A x \in S : u[x].dwn \in S \cup {0} /\ u[x].nxt \in S \cup {0}
  BY <1>0, <1>1, <1>3
<1>6. \A x \in S : u[x].dwn # 0 => u[u[x].dwn].upn = x
  <2> SUFFICES ASSUME NEW x \in S, u[x].dwn # 0 PROVE u[u[x].dwn].upn = x
    OBVIOUS
  <2>1. x \in T
    BY <1>1
  <2>2. u[x].dwn = t[x].dwn /\ t[x].dwn \in T /\ t[t[x].dwn].upn = x
    BY <1>0, <1>1, <2>1
  <2>3. u[t[x].dwn].upn = t[t[x].dwn].upn
    BY <1>1, <2>2
  <2> QED
    BY <2>2, <2>3
<1>7. \A x \in S : u[x].nxt # 0 => u[u[x].nxt].upn = u[x].upn /\ q[x] < q[u[x].nxt]
  <2> SUFFICES ASSUME NEW x \in S, u[x].nxt # 0
               PROVE  u[u[x].nxt].upn = u[x].upn /\ q[x] < q[u[x].nxt]
    OBVIOUS
  <2>1. CASE x = n
    <3>1. d \in T /\ t[d].upn = k /\ r[c] < r[d] /\ u[x].nxt = d
      BY <1>1, <1>3, <2>1
    <3> QED
      BY <1>1, <1>2, <2>1, <3>1
  <2>2. CASE x = c
    <3>1. u[x].nxt = n /\ u[x].upn = k
      BY <1>1, <2>2 DEF k
    <3> QED
      BY <1>1, <1>2, <2>2, <3>1
  <2>3. CASE x # n /\ x # c
    <3>1. x \in T /\ u[x].nxt = t[x].nxt /\ t[x].nxt \in T
      BY <1>0, <1>1, <2>3
    <3>2. t[t[x].nxt].upn = t[x].upn /\ r[x] < r[t[x].nxt]
      BY <1>0, <3>1
    <3>3. u[t[x].nxt].upn = t[t[x].nxt].upn /\ u[x].upn = t[x].upn
      BY <1>1, <3>1
    <3>4. q[x] < q[t[x].nxt]
      BY <1>2, <3>1, <3>2
    <3> QED
      BY <3>1, <3>2, <3>3, <3>4
  <2> QED
    BY <2>1, <2>2, <2>3
<1>8. \A x \in S \ {root} : u[x].upn \in S /\ q[u[x].upn] < q[x]
  BY <1>0, <1>1, <1>2, <1>3
<1>9. \A x \in S \ {root} : \E p \in S : u[p].dwn = x \/ u[p].nxt = x
  <2> SUFFICES ASSUME NEW x \in S \ {root} PROVE \E p \in S : u[p].dwn = x \/ u[p].nxt = x
    OBVIOUS
  <2>1. CASE x = n
    BY <1>1, <2>1
  <2>2. CASE x # n
    <3>1. PICK p \in T : t[p].dwn = x \/ t[p].nxt = x
      BY <1>0, <2>2
    <3>2. CASE t[p].dwn = x
      BY <1>1, <3>2
    <3>3. CASE t[p].nxt = x /\ p # c
      BY <1>1, <3>3
    <3>4. CASE t[p].nxt = x /\ p = c
      <4>1. u[n].nxt = x
        BY <1>1, <3>4 DEF d
      <4> QED
        BY <4>1
    <3> QED
      BY <3>1, <3>2, <3>3, <3>4
  <2> QED
    BY <2>1, <2>2
<1>11. \A x, y \in S : u[x].nxt # 0 /\ u[x].nxt = u[y].nxt => x = y
  <2> SUFFICES ASSUME NEW x \in S, NEW y \in S, u[x].nxt # 0, u[x].nxt = u[y].nxt, x # y
               PROVE  FALSE
    OBVIOUS
  <2>1. ASSUME NEW z \in S, z # c PROVE u[z].nxt # n
    <3>1. u[z].nxt \in T \cup {0}
      <4>1. CASE z = n
        BY <1>1, <1>3, <4>1
      <4>2. CASE z # n
        <5>1. z \in T
          BY <4>2
        <5> QED
          BY <1>0, <1>1, <2>1, <5>1
      <4> QED
        BY <4>1, <4>2
    <3> QED
      BY <1>1, <3>1
  <2>2. x # c /\ y # c
    BY <1>1, <2>1
  <2>3. \A z \in T : z # c => u[z].nxt = t[z].nxt
    BY <1>1
  <2>4. x # n /\ y # n
    BY <1>1, <1>10, <2>2, <2>3
  <2> QED
    BY <1>0, <2>2, <2>3, <2>4
<1>12. \A x, y \in S : u[x].dwn # 0 => u[x].dwn # u[y].nxt
  <2> SUFFICES ASSUME NEW x \in S, NEW y \in S, u[x].dwn # 0, u[x].dwn = u[y].nxt PROVE FALSE
    OBVIOUS
  <2>1. x \in T /\ t[x].dwn = u[y].nxt /\ t[x].dwn # 0 /\ t[x].dwn \in T
    BY <1>0, <1>1
  <2>2. CASE y = n
    BY <1>1, <1>15, <2>1, <2>2
  <2>3. CASE y = c
    BY <1>1, <2>1, <2>3
  <2>4. CASE y # c /\ y # n
    BY <1>0, <1>1, <2>1, <2>4
  <2> QED
    BY <2>2, <2>3, <2>4
<1> HIDE DEF S
<1>13. \A x \in S : q[x] \in Nat
  BY <1>2 DEF S
<1>14. Tree(u, root, S, q)
  BY <1>1, <1>4, <1>5, <1>6, <1>7, <1>8, <1>9, <1>11, <1>12, <1>13 DEF Tree
<1> QED
  BY <1>14 DEF S, q

-----------------------------------------------------------------------------
(* A subtree cut off the tree. *)

(* The subtree of c is its root c and the nodes whose parent is in it.     *)
LEMMA BelowIs ==
  ASSUME NEW t, NEW root, NEW T, NEW r, Tree(t, root, T, r), NEW c \in T, c # root
  PROVE  LET D == Below(t, T, {c}) IN
         /\ D \subseteq T /\ c \in D /\ root \notin D
         /\ \A y \in T : t[y].upn \in D => y \in D
         /\ \A y \in D : y # c => t[y].upn \in D
         /\ \A y \in D : r[c] <= r[y]
         /\ t[c].upn \in T \ D
<1> DEFINE D == Below(t, T, {c})
<1>0. /\ T \subseteq 1 .. Len(t) /\ \A x \in T : r[x] \in Nat
      /\ root \in T /\ t[root].upn = 0
      /\ \A x \in T \ {root} : t[x].upn \in T /\ r[t[x].upn] < r[x]
  BY DEF Tree
<1>1. \A x \in D : x \in T
  BY DEF Below
<1>2. \A S \in SUBSET T : ClosedFrom(t, T, {c}, S) => D \subseteq S
  BY DEF Below
<1>3. ClosedFrom(t, T, {c}, D)
  BY DEF Below, ClosedFrom
<1> HIDE DEF D
<1>4. root \notin D
  <2>1. T \ {root} \in SUBSET T /\ ClosedFrom(t, T, {c}, T \ {root})
    BY <1>0 DEF ClosedFrom
  <2> QED
    BY <1>2, <2>1
<1>5. ASSUME NEW y \in D, y # c PROVE t[y].upn \in D
  <2>1. SUFFICES ASSUME t[y].upn \notin D PROVE FALSE
    OBVIOUS
  <2>2. D \ {y} \in SUBSET T
    BY <1>1
  <2>3. ClosedFrom(t, T, {c}, D \ {y})
    BY <1>3, <1>5, <2>1 DEF ClosedFrom
  <2> QED
    BY <1>2, <2>2, <2>3
<1>6. \A y \in D : r[c] <= r[y]
  <2> DEFINE S == {x \in T : r[c] <= r[x]}
  <2>1. S \in SUBSET T /\ c \in S
    BY <1>0
  <2>2. ASSUME NEW y \in T, t[y].upn \in S PROVE y \in S
    <3>1. y # root
      BY <1>0, <2>2
    <3>2. t[y].upn \in T /\ r[c] <= r[t[y].upn] /\ r[t[y].upn] < r[y]
      BY <1>0, <2>2, <3>1
    <3>3. r[c] \in Nat /\ r[y] \in Nat /\ r[t[y].upn] \in Nat
      BY <1>0, <3>2
    <3> QED
      BY <3>2, <3>3
  <2>3. ClosedFrom(t, T, {c}, S)
    BY <2>1, <2>2 DEF ClosedFrom
  <2>4. D \subseteq S
    BY <1>2, <2>1, <2>3
  <2> QED
    BY <2>4
<1>7. t[c].upn \in T \ D
  <2>1. t[c].upn \in T /\ r[t[c].upn] < r[c] /\ r[c] \in Nat /\ r[t[c].upn] \in Nat
    BY <1>0
  <2> QED
    BY <1>6, <2>1
<1> QED
  BY <1>1, <1>3, <1>4, <1>5, <1>6, <1>7 DEF ClosedFrom, D

\* u is t, in the nodes of S, with the links to c led past it.
CutOff(t, u, S, c) ==
  \A x \in S : /\ u[x].upn = t[x].upn
               /\ u[x].dwn = IF t[x].dwn = c THEN t[c].nxt ELSE t[x].dwn
               /\ u[x].nxt = IF t[x].nxt = c THEN t[c].nxt ELSE t[x].nxt

(* What is left is a tree, with the ranks it had.                          *)
LEMMA CutTree ==
  ASSUME NEW t, NEW root, NEW T, NEW r, Tree(t, root, T, r), NEW c \in T, c # root,
         NEW u, Len(u) = Len(t), CutOff(t, u, T \ Below(t, T, {c}), c)
  PROVE  Tree(u, root, T \ Below(t, T, {c}), r)
<1> DEFINE D == Below(t, T, {c})
           S == T \ D
           d == t[c].nxt
<1>0. /\ T \subseteq 1 .. Len(t) /\ Len(t) \in Nat
      /\ root \in T /\ t[root].upn = 0 /\ t[root].nxt = 0
      /\ \A x \in T : r[x] \in Nat
      /\ \A x \in T : t[x].dwn \in T \cup {0} /\ t[x].nxt \in T \cup {0}
      /\ \A x \in T : t[x].dwn # 0 => t[t[x].dwn].upn = x
      /\ \A x \in T : t[x].nxt # 0 => t[t[x].nxt].upn = t[x].upn /\ r[x] < r[t[x].nxt]
      /\ \A x \in T \ {root} : t[x].upn \in T /\ r[t[x].upn] < r[x]
      /\ \A x \in T \ {root} : \E p \in T : t[p].dwn = x \/ t[p].nxt = x
      /\ \A x, y \in T : t[x].nxt # 0 /\ t[x].nxt = t[y].nxt => x = y
      /\ \A x, y \in T : t[x].dwn # 0 => t[x].dwn # t[y].nxt
      /\ c # 0
  BY DEF Tree
<1>1. /\ D \subseteq T /\ c \in D /\ root \notin D
      /\ \A y \in T : t[y].upn \in D => y \in D
      /\ \A y \in D : y # c => t[y].upn \in D
      /\ t[c].upn \in T \ D
  BY BelowIs
<1>2. \A x \in S : /\ u[x].upn = t[x].upn
                   /\ u[x].dwn = IF t[x].dwn = c THEN d ELSE t[x].dwn
                   /\ u[x].nxt = IF t[x].nxt = c THEN d ELSE t[x].nxt
  BY DEF CutOff
<1> HIDE DEF D
<1>3. d \in S \cup {0} /\ (d # 0 => t[d].upn = t[c].upn /\ r[c] < r[d])
  <2>1. d \in T \cup {0} /\ (d # 0 => t[d].upn = t[c].upn /\ r[c] < r[d])
    BY <1>0
  <2>2. d # c
    BY <1>0
  <2> QED
    BY <1>1, <2>1, <2>2
<1>4. ASSUME NEW x \in S PROVE t[x].dwn \in S \cup {0, c} /\ t[x].nxt \in S \cup {0, c}
  <2>1. x \in T /\ x \notin D
    OBVIOUS
  <2>2. ASSUME t[x].dwn \in D PROVE t[x].dwn = c
    <3>1. t[x].dwn # 0
      BY <1>0, <1>1, <2>2
    <3>2. t[t[x].dwn].upn = x
      BY <1>0, <2>1, <3>1
    <3> QED
      BY <1>1, <2>1, <2>2, <3>2
  <2>3. ASSUME t[x].nxt \in D PROVE t[x].nxt = c
    <3>1. t[x].nxt # 0
      BY <1>0, <1>1, <2>3
    <3>2. t[t[x].nxt].upn = t[x].upn
      BY <1>0, <2>1, <3>1
    <3> QED
      BY <1>1, <2>1, <2>3, <3>2
  <2> QED
    BY <1>0, <2>1, <2>2, <2>3
<1>5. S \subseteq 1 .. Len(u) /\ Len(u) \in Nat /\ root \in S /\ u[root].upn = 0 /\ u[root].nxt = 0
  <2>1. root \in S
    BY <1>0, <1>1
  <2> QED
    BY <1>0, <1>2, <2>1
<1>6. \A x \in S : r[x] \in Nat
  BY <1>0
<1>7. \A x \in S : u[x].dwn \in S \cup {0} /\ u[x].nxt \in S \cup {0}
  BY <1>2, <1>3, <1>4
<1>8. \A x \in S : u[x].dwn # 0 => u[u[x].dwn].upn = x
  <2> SUFFICES ASSUME NEW x \in S, u[x].dwn # 0 PROVE u[u[x].dwn].upn = x
    OBVIOUS
  <2>1. u[x].dwn \in S /\ u[u[x].dwn].upn = t[u[x].dwn].upn
    BY <1>2, <1>7
  <2>2. CASE t[x].dwn = c
    <3>1. t[c].upn = x
      BY <1>0, <2>2
    <3>2. u[x].dwn = d
      BY <1>2, <2>2
    <3> QED
      BY <1>3, <2>1, <3>1, <3>2
  <2>3. CASE t[x].dwn # c
    <3>1. u[x].dwn = t[x].dwn
      BY <1>2, <2>3
    <3>2. t[t[x].dwn].upn = x
      BY <1>0, <3>1
    <3> QED
      BY <2>1, <3>1, <3>2
  <2> QED
    BY <2>2, <2>3
<1>9. \A x \in S : u[x].nxt # 0 => u[u[x].nxt].upn = u[x].upn /\ r[x] < r[u[x].nxt]
  <2> SUFFICES ASSUME NEW x \in S, u[x].nxt # 0
               PROVE  u[u[x].nxt].upn = u[x].upn /\ r[x] < r[u[x].nxt]
    OBVIOUS
  <2>1. u[x].nxt \in S /\ u[u[x].nxt].upn = t[u[x].nxt].upn /\ u[x].upn = t[x].upn
    BY <1>2, <1>7
  <2>2. CASE t[x].nxt = c
    <3>1. t[c].upn = t[x].upn /\ r[x] < r[c]
      BY <1>0, <2>2
    <3>2. u[x].nxt = d
      BY <1>2, <2>2
    <3>3. t[d].upn = t[c].upn /\ r[c] < r[d] /\ d \in S
      BY <1>3, <2>1, <3>2
    <3>4. r[x] \in Nat /\ r[c] \in Nat /\ r[d] \in Nat
      BY <1>0, <3>3
    <3> QED
      BY <2>1, <3>1, <3>2, <3>3, <3>4
  <2>3. CASE t[x].nxt # c
    <3>1. u[x].nxt = t[x].nxt
      BY <1>2, <2>3
    <3>2. t[t[x].nxt].upn = t[x].upn /\ r[x] < r[t[x].nxt]
      BY <1>0, <3>1
    <3> QED
      BY <2>1, <3>1, <3>2
  <2> QED
    BY <2>2, <2>3
<1>10. \A x \in S \ {root} : u[x].upn \in S /\ r[u[x].upn] < r[x]
  <2> SUFFICES ASSUME NEW x \in S, x # root PROVE u[x].upn \in S /\ r[u[x].upn] < r[x]
    OBVIOUS
  <2>1. t[x].upn \in T /\ r[t[x].upn] < r[x] /\ u[x].upn = t[x].upn
    BY <1>0, <1>2
  <2>2. t[x].upn \notin D
    BY <1>1
  <2> QED
    BY <2>1, <2>2
<1>11. \A x \in S \ {root} : \E p \in S : u[p].dwn = x \/ u[p].nxt = x
  <2> SUFFICES ASSUME NEW x \in S, x # root PROVE \E p \in S : u[p].dwn = x \/ u[p].nxt = x
    OBVIOUS
  <2>0. x \in T /\ x \notin D /\ x # c /\ x # 0
    BY <1>0, <1>1
  <2>1. PICK p \in T : t[p].dwn = x \/ t[p].nxt = x
    BY <1>0, <2>0
  <2>2. CASE p \in S
    BY <1>2, <2>0, <2>1, <2>2
  <2>3. CASE p = c /\ t[p].nxt = x
    <3>1. PICK b \in T : t[b].dwn = c \/ t[b].nxt = c
      BY <1>0
    <3>2. b \in S
      <4>1. CASE t[b].dwn = c
        <5>1. t[c].upn = b
          BY <1>0, <4>1
        <5> QED
          BY <1>1, <5>1
      <4>2. CASE t[b].nxt = c
        <5>1. t[c].upn = t[b].upn /\ r[b] < r[c] /\ r[c] \in Nat
          BY <1>0, <4>2
        <5>2. b # c
          BY <5>1
        <5> QED
          BY <1>1, <5>1, <5>2
      <4> QED
        BY <3>1, <4>1, <4>2
    <3>3. d = x
      BY <2>3
    <3> QED
      BY <1>2, <3>1, <3>2, <3>3
  <2>4. CASE p \in D /\ t[p].dwn = x
    <3>1. t[x].upn = p
      BY <1>0, <2>0, <2>4
    <3> QED
      BY <1>1, <2>0, <2>4, <3>1
  <2>5. CASE p \in D /\ p # c /\ t[p].nxt = x
    <3>1. t[x].upn = t[p].upn /\ t[p].upn \in D
      BY <1>0, <1>1, <2>0, <2>5
    <3> QED
      BY <1>1, <2>0, <3>1
  <2> QED
    BY <2>1, <2>2, <2>3, <2>4, <2>5
<1>12. \A x, y \in S : u[x].nxt # 0 /\ u[x].nxt = u[y].nxt => x = y
  <2> SUFFICES ASSUME NEW x \in S, NEW y \in S, u[x].nxt # 0, u[x].nxt = u[y].nxt PROVE x = y
    OBVIOUS
  <2>1. x \in T /\ y \in T /\ x # c /\ y # c
    BY <1>1
  <2>2. u[x].nxt = IF t[x].nxt = c THEN t[c].nxt ELSE t[x].nxt
    BY <1>2
  <2>3. u[y].nxt = IF t[y].nxt = c THEN t[c].nxt ELSE t[y].nxt
    BY <1>2
  <2>4. \A v, w \in T : t[v].nxt # 0 /\ t[v].nxt = t[w].nxt => v = w
    BY <1>0
  <2>5. c # 0
    BY <1>0
  <2> HIDE DEF S
  <2> QED
    BY <2>1, <2>2, <2>3, <2>4, <2>5
<1>13. \A x, y \in S : u[x].dwn # 0 => u[x].dwn # u[y].nxt
  <2> SUFFICES ASSUME NEW x \in S, NEW y \in S, u[x].dwn # 0, u[x].dwn = u[y].nxt PROVE FALSE
    OBVIOUS
  <2>1. x \in T /\ y \in T /\ x # c /\ y # c
    BY <1>1
  <2>2. u[x].dwn = IF t[x].dwn = c THEN t[c].nxt ELSE t[x].dwn
    BY <1>2
  <2>3. u[y].nxt = IF t[y].nxt = c THEN t[c].nxt ELSE t[y].nxt
    BY <1>2
  <2>4. /\ \A v, w \in T : t[v].nxt # 0 /\ t[v].nxt = t[w].nxt => v = w
        /\ \A v, w \in T : t[v].dwn # 0 => t[v].dwn # t[w].nxt
    BY <1>0
  <2>5. c # 0
    BY <1>0
  <2> HIDE DEF S
  <2> QED
    BY <2>1, <2>2, <2>3, <2>4, <2>5
<1> HIDE DEF S
<1>14. Tree(u, root, S, r)
  BY <1>5, <1>6, <1>7, <1>8, <1>9, <1>10, <1>11, <1>12, <1>13 DEF Tree
<1> QED
  BY <1>14 DEF S, D

-----------------------------------------------------------------------------
(* The nodes, as a sequence. *)

\* What TypeOK says of each of N nodes.
NodeType(N) == [upn : 0 .. N \cup {DELETED_NODE}, dwn : 0 .. N, nxt : 0 .. N,
                dat : Data \cup 0 .. MaxNodes]

LEMMA FunctionIsSeq ==
  ASSUME NEW S, NEW L \in Nat, NEW u \in [1 .. L -> S]
  PROVE  u \in Seq(S) /\ Len(u) = L
<1>1. u \in Seq(S)
  BY SeqDef
<1>2. DOMAIN u = 1 .. L /\ DOMAIN u = 1 .. Len(u) /\ Len(u) \in Nat
  BY <1>1, LenProperties
<1> QED
  BY <1>1, <1>2

\* u is t with new links and data in node n.
FieldsSet(t, u, n, up, dn, nx, da) ==
  /\ u[n].upn = up /\ u[n].dwn = dn /\ u[n].nxt = nx /\ u[n].dat = da
  /\ \A x \in 1 .. Len(t) : x # n => u[x] = t[x]

Settable(N, t, n, up, nx, da) ==
  /\ N \in Nat /\ t \in Seq(NodeType(N)) /\ n \in 1 .. Len(t)
  /\ up \in 0 .. N \cup {DELETED_NODE} /\ nx \in 0 .. N /\ da \in Data \cup 0 .. MaxNodes

SetTo(t, n, up, nx, da) == [t EXCEPT ![n].dat = da, ![n].nxt = nx, ![n].upn = up]

(* Fields of one node are assigned: the others keep theirs.                *)
LEMMA SetFields ==
  ASSUME NEW N, NEW t, NEW n, NEW up, NEW nx, NEW da, Settable(N, t, n, up, nx, da)
  PROVE  LET u == SetTo(t, n, up, nx, da) IN
         u \in Seq(NodeType(N)) /\ Len(u) = Len(t) /\ FieldsSet(t, u, n, up, t[n].dwn, nx, da)
<1> DEFINE L == Len(t)
           u == SetTo(t, n, up, nx, da)
           new == [t[n] EXCEPT !.dat = da, !.nxt = nx, !.upn = up]
<1> USE DEF Settable
<1>1. L \in Nat /\ t \in [1 .. L -> NodeType(N)]
  BY LenProperties
<1>2. t[n] \in NodeType(N)
  BY <1>1
<1>3. new \in NodeType(N)
  BY <1>2 DEF NodeType
<1>4. new.dat = da /\ new.nxt = nx /\ new.upn = up /\ new.dwn = t[n].dwn
  BY <1>2 DEF NodeType
<1>5. u = [t EXCEPT ![n] = new]
  BY <1>1, <1>2 DEF NodeType, SetTo
<1> HIDE DEF new, L, u
<1>6. u \in [1 .. L -> NodeType(N)]
  BY <1>1, <1>3, <1>5
<1>7. u \in Seq(NodeType(N)) /\ Len(u) = L
  BY <1>1, <1>6, FunctionIsSeq
<1>8. u[n] = new /\ \A x \in 1 .. L : x # n => u[x] = t[x]
  BY <1>1, <1>5 DEF L
<1> QED
  BY <1>4, <1>7, <1>8 DEF FieldsSet, L, u

Distinct(q) == \A i, j \in 1 .. Len(q) : q[i] = q[j] => i = j

(* The head of a queue leaves it.                                          *)
LEMMA HeadLeaves ==
  ASSUME NEW S, NEW q \in Seq(S), q # << >>, Distinct(q)
  PROVE  /\ Tail(q) \in Seq(S) /\ Distinct(Tail(q)) /\ Head(q) \in S
         /\ Range(Tail(q)) = Range(q) \ {Head(q)} /\ Head(q) \in Range(q)
<1> DEFINE m == Len(q) - 1
           p == Tail(q)
<1>1. m \in Nat /\ Len(q) = m + 1 /\ DOMAIN q = 1 .. m + 1
  BY EmptySeq, LenProperties
<1>2. p \in Seq(S) /\ Len(p) = m /\ \A i \in 1 .. m : p[i] = q[i + 1]
  BY HeadTailProperties
<1>3. Head(q) = q[1] /\ Head(q) \in S
  BY HeadTailProperties
<1>4. DOMAIN p = 1 .. m
  BY <1>2, LenProperties
<1> HIDE DEF p, m
<1>5. \A i, j \in 1 .. m + 1 : q[i] = q[j] => i = j
  BY <1>1 DEF Distinct
<1>6. Distinct(p)
  <2> SUFFICES ASSUME NEW i \in 1 .. m, NEW j \in 1 .. m, p[i] = p[j] PROVE i = j
    BY <1>2 DEF Distinct
  <2>1. i + 1 \in 1 .. m + 1 /\ j + 1 \in 1 .. m + 1 /\ q[i + 1] = q[j + 1]
    BY <1>1, <1>2
  <2>2. i + 1 = j + 1
    BY <1>5, <2>1
  <2> QED
    BY <2>2
<1>7. Range(p) \subseteq Range(q) \ {Head(q)}
  <2> SUFFICES ASSUME NEW i \in 1 .. m PROVE p[i] \in Range(q) \ {q[1]}
    BY <1>3, <1>4 DEF Range
  <2>1. i + 1 \in 1 .. m + 1 /\ 1 \in 1 .. m + 1 /\ i + 1 # 1 /\ p[i] = q[i + 1]
    BY <1>1, <1>2
  <2> QED
    BY <1>1, <1>5, <2>1 DEF Range
<1>8. Range(q) \ {Head(q)} \subseteq Range(p)
  <2> SUFFICES ASSUME NEW i \in 1 .. m + 1, q[i] # q[1] PROVE q[i] \in Range(p)
    BY <1>1, <1>3 DEF Range
  <2>1. i # 1
    OBVIOUS
  <2>2. i - 1 \in 1 .. m /\ (i - 1) + 1 = i
    BY <1>1, <2>1
  <2> QED
    BY <1>2, <1>4, <2>2 DEF Range
<1>9. Head(q) \in Range(q)
  BY <1>1, <1>3 DEF Range
<1>10. Range(p) = Range(q) \ {Head(q)}
  BY <1>7, <1>8
<1> QED
  BY <1>2, <1>3, <1>6, <1>9, <1>10 DEF p

(* Another node joins at the end of a queue.                               *)
LEMMA NodeJoins ==
  ASSUME NEW S, NEW q \in Seq(S), Distinct(q), NEW n \in S, n \notin Range(q)
  PROVE  LET p == Append(q, n) IN
         p \in Seq(S) /\ Distinct(p) /\ Range(p) = Range(q) \cup {n}
<1> DEFINE k == Len(q)
           p == Append(q, n)
<1>1. k \in Nat /\ DOMAIN q = 1 .. k
  BY LenProperties
<1>2. /\ p \in Seq(S) /\ Len(p) = k + 1
      /\ \A i \in 1 .. k : p[i] = q[i]
      /\ p[k + 1] = n
  BY AppendProperties
<1>3. DOMAIN p = 1 .. k + 1
  BY <1>2, LenProperties
<1>4. \A i, j \in 1 .. k : q[i] = q[j] => i = j
  BY DEF Distinct
<1> HIDE DEF p, k
<1>5. \A i \in 1 .. k + 1 : i = k + 1 \/ i \in 1 .. k
  BY <1>1
<1>6. \A i \in 1 .. k : q[i] # n
  BY <1>1 DEF Range
<1>7. Distinct(p)
  <2> SUFFICES ASSUME NEW i \in 1 .. k + 1, NEW j \in 1 .. k + 1, p[i] = p[j] PROVE i = j
    BY <1>2 DEF Distinct
  <2> QED
    BY <1>2, <1>4, <1>5, <1>6
<1>8. Range(p) = Range(q) \cup {n}
  <2>1. \A i \in 1 .. k + 1 : p[i] \in Range(q) \cup {n}
    BY <1>1, <1>2, <1>5 DEF Range
  <2>2. \A i \in 1 .. k : i \in 1 .. k + 1
    BY <1>1
  <2>3. k + 1 \in 1 .. k + 1
    BY <1>1
  <2>4. Range(q) \cup {n} \subseteq Range(p)
    BY <1>1, <1>2, <1>3, <2>2, <2>3 DEF Range
  <2> QED
    BY <1>3, <2>1, <2>4 DEF Range
<1> QED
  BY <1>2, <1>7, <1>8 DEF p

EnqAfter(f, s, ns, no, k) == IF k = 0 THEN s ELSE Enqueued(f[k - 1], ns[k], no)
IsEnqueuing(f, s, ns, no, N) == f = [k \in 0 .. N |-> EnqAfter(f, s, ns, no, k)]

(* The recursion of AllEnqueued defines a function.                        *)
LEMMA EnqueuingExists ==
  ASSUME NEW s, NEW ns, NEW no, NEW N \in Nat
  PROVE  \E f : IsEnqueuing(f, s, ns, no, N)
<1> USE DEF IsEnqueuing
<1> DEFINE Ok(f, n) == f = [k \in 0 .. n |-> EnqAfter(f, s, ns, no, k)]
           Bad == {n \in Nat : ~ \E f : Ok(f, n)}
<1>1. SUFFICES ASSUME Bad # {} PROVE FALSE
  OBVIOUS
<1>2. PICK n \in Bad : \A l \in Bad : n <= l
  BY <1>1, LeastNatural
<1>3. n # 0
  <2>1. Ok([k \in 0 .. 0 |-> s], 0)
    BY DEF EnqAfter
  <2> QED
    BY <2>1, <1>2
<1>4. n \in Nat /\ n - 1 \in Nat /\ ~ (n <= n - 1)
  BY <1>3
<1>5. PICK f : Ok(f, n - 1)
  BY <1>2, <1>4
<1>6. PICK g : g = [k \in 0 .. n |-> IF k = n THEN EnqAfter(f, s, ns, no, n) ELSE f[k]]
  OBVIOUS
<1>7. Ok(g, n)
  <2>1. g[n] = EnqAfter(f, s, ns, no, n) /\ \A k \in 0 .. n - 1 : g[k] = f[k]
    BY <1>4, <1>6
  <2>2. \A k \in 0 .. n - 1 : f[k] = EnqAfter(f, s, ns, no, k)
    BY <1>5
  <2>3. \A k \in 0 .. n - 1 : k = 0 \/ k - 1 \in 0 .. n - 1
    BY <1>4
  <2>4. \A k \in 0 .. n - 1 : g[k] = EnqAfter(g, s, ns, no, k)
    BY <2>1, <2>2, <2>3 DEF EnqAfter
  <2>5. n - 1 \in 0 .. n - 1
    BY <1>4
  <2>6. g[n] = EnqAfter(g, s, ns, no, n)
    BY <2>1, <2>5, <1>3 DEF EnqAfter
  <2>7. \A k \in 0 .. n : k = n \/ k \in 0 .. n - 1
    BY <1>4
  <2> QED
    BY <2>4, <2>6, <2>7, <1>6
<1> QED
  BY <1>2, <1>7

\* s holds nodes of S, each once, in its queue or passed over.
Waiting(s, S) ==
  /\ s.que \in Seq(S) /\ Distinct(s.que)
  /\ s.passed \subseteq S /\ s.passed \cap Range(s.que) = {}

Waits(s) == Range(s.que) \cup s.passed

(* One more node is in the queue, or passed over.                          *)
LEMMA OneEnqueued ==
  ASSUME NEW S, NEW s, Waiting(s, S), NEW n \in S, n \notin Waits(s), NEW no
  PROVE  LET t == Enqueued(s, n, no) IN
         Waiting(t, S) /\ Waits(t) = Waits(s) \cup {n}
<1> DEFINE t == Enqueued(s, n, no)
           q == s.que
           p == Append(q, n)
<1>1. q \in Seq(S) /\ Distinct(q) /\ n \notin Range(q)
  BY DEF Waiting, Waits
<1>2. p \in Seq(S) /\ Distinct(p) /\ Range(p) = Range(q) \cup {n}
  <2> HIDE DEF q
  <2> QED
    BY <1>1, NodeJoins
<1>3. CASE n \in no /\ Len(s.que) >= QueRoom
  <2>1. t.que = q /\ t.passed = s.passed \cup {n}
    BY <1>3 DEF Enqueued
  <2> HIDE DEF t, p
  <2> QED
    BY <1>1, <2>1 DEF Waiting, Waits, t
<1>4. CASE ~ (n \in no /\ Len(s.que) >= QueRoom)
  <2>1. t.que = p /\ t.passed = s.passed
    BY <1>4 DEF Enqueued
  <2> HIDE DEF t, p
  <2> QED
    BY <1>1, <1>2, <2>1 DEF Waiting, Waits, t
<1> QED
  BY <1>3, <1>4

(* So are all of a list of others.                                         *)
LEMMA AllAreEnqueued ==
  ASSUME NEW S, NEW s, Waiting(s, S), NEW ns \in Seq(S), Distinct(ns),
         Range(ns) \cap Waits(s) = {}, NEW no
  PROVE  LET t == AllEnqueued(s, ns, no) IN
         Waiting(t, S) /\ Waits(t) = Waits(s) \cup Range(ns)
<1> DEFINE L == Len(ns)
           f == CHOOSE g : IsEnqueuing(g, s, ns, no, L)
           First(k) == {ns[i] : i \in 1 .. k}
           Right(k) == Waiting(f[k], S) /\ Waits(f[k]) = Waits(s) \cup First(k)
           Bad == {k \in 0 .. L : ~ Right(k)}
<1>1. L \in Nat /\ DOMAIN ns = 1 .. L /\ \A i \in 1 .. L : ns[i] \in S
  BY LenProperties, ElementOfSeq
<1>2. AllEnqueued(s, ns, no) = f[L]
  BY DEF AllEnqueued, EnqAfter, IsEnqueuing
<1>3. IsEnqueuing(f, s, ns, no, L)
  <2>1. L \in Nat
    BY <1>1
  <2> HIDE DEF L
  <2>2. \E g : IsEnqueuing(g, s, ns, no, L)
    BY <2>1, EnqueuingExists
  <2> QED
    BY <2>2
<1>4. \A i, j \in 1 .. L : ns[i] = ns[j] => i = j
  BY DEF Distinct
<1> HIDE DEF f, L
<1>5. \A k \in 0 .. L : f[k] = EnqAfter(f, s, ns, no, k)
  BY <1>3 DEF IsEnqueuing
<1>6. Bad = {}
  <2>1. SUFFICES ASSUME Bad # {} PROVE FALSE
    OBVIOUS
  <2>2. PICK k \in Bad : \A l \in Bad : k <= l
    <3>1. Bad \subseteq Nat
      OBVIOUS
    <3> HIDE DEF Bad
    <3> QED
      BY <2>1, <3>1, LeastNatural
  <2>3. k \in 0 .. L /\ ~ Right(k)
    OBVIOUS
  <2>4. CASE k = 0
    <3>1. f[k] = s
      BY <1>5, <2>3, <2>4 DEF EnqAfter
    <3>2. First(k) = {}
      BY <2>4
    <3> HIDE DEF First
    <3> QED
      BY <2>3, <3>1, <3>2
  <2>5. CASE k # 0
    <3>1. k - 1 \in 0 .. L /\ ~ (k <= k - 1) /\ k \in 1 .. L /\ (k - 1) + 1 = k
      BY <1>1, <2>3, <2>5
    <3>2. Right(k - 1)
      BY <2>2, <3>1
    <3>3. f[k] = Enqueued(f[k - 1], ns[k], no)
      BY <1>5, <2>3, <2>5 DEF EnqAfter
    <3>4. ns[k] \in S /\ ns[k] \notin Waits(s)
      BY <1>1, <3>1 DEF Range
    <3>5. ns[k] \notin First(k - 1)
      <4> SUFFICES ASSUME NEW i \in 1 .. k - 1, ns[i] = ns[k] PROVE FALSE
        OBVIOUS
      <4>1. i \in 1 .. L /\ i # k
        BY <1>1, <3>1
      <4> QED
        BY <1>4, <3>1, <4>1
    <3>6. First(k) = First(k - 1) \cup {ns[k]}
      <4>1. \A i \in 1 .. k : i = k \/ i \in 1 .. k - 1
        BY <3>1
      <4>2. \A i \in 1 .. k - 1 : i \in 1 .. k
        BY <3>1
      <4>3. k \in 1 .. k
        BY <3>1
      <4> QED
        BY <4>1, <4>2, <4>3
    <3> HIDE DEF First
    <3>7. ns[k] \notin Waits(f[k - 1])
      BY <3>2, <3>4, <3>5
    <3>8. Waiting(f[k], S) /\ Waits(f[k]) = Waits(f[k - 1]) \cup {ns[k]}
      <4> DEFINE v == f[k - 1]
                 n == ns[k]
      <4>1. Waiting(v, S) /\ n \in S /\ n \notin Waits(v)
        BY <3>2, <3>4, <3>7
      <4> HIDE DEF v, n
      <4>2. Waiting(Enqueued(v, n, no), S) /\ Waits(Enqueued(v, n, no)) = Waits(v) \cup {n}
        BY <4>1, OneEnqueued
      <4> QED
        BY <3>3, <4>2 DEF v, n
    <3> QED
      BY <2>3, <3>2, <3>6, <3>8
  <2> QED
    BY <2>4, <2>5
<1>7. Right(L)
  BY <1>1, <1>6
<1>8. First(L) = Range(ns)
  BY <1>1 DEF Range
<1> HIDE DEF First
<1> QED
  BY <1>2, <1>7, <1>8

-----------------------------------------------------------------------------
(* The loop that frees a subtree. *)

\* A tree T and free nodes F of t; c, not the root, is pruned.
Pruned(t, root, T, F, c, r) ==
  /\ Tree(t, root, T, r) /\ c \in T /\ c # root
  /\ T \cap F = {} /\ T \cup F \subseteq 1 .. Len(t) /\ Len(t) <= MaxNodes

\* Before a turn R is what is left of the subtree: its nodes whose parent is
\* freed, or which have none, are in the queue or passed over.  u are the nodes
\* after detaching.
Turning(t, u, T, F, c, s, R) ==
  LET D == Below(t, T, {c}) IN
  /\ R \subseteq D
  /\ Waiting(s, R)
  /\ \A x \in R : x \in Waits(s) <=> x = c \/ t[x].upn \notin R
  /\ \A x \in D \ R : x = c \/ t[x].upn \notin R
  /\ s.node \in Seq(NodeType(Len(t))) /\ Len(s.node) = Len(t)
  /\ \A x \in R : s.node[x].dwn = t[x].dwn /\ s.node[x].nxt = t[x].nxt
  /\ \A x \in T \ D : s.node[x] = u[x]
  /\ FreeList(s.node, s.lst, F \cup (D \ R))

(* A turn frees the node at the head of the queue.                         *)
LEMMA TurnFrees ==
  ASSUME NEW t, NEW root, NEW T, NEW F, NEW c, NEW r, Pruned(t, root, T, F, c, r),
         NEW u, NEW s, NEW R, Turning(t, u, T, F, c, s, R), s.que # << >>, NEW no
  PROVE  Head(s.que) \in R /\ Turning(t, u, T, F, c, FreeOne(s, no), R \ {Head(s.que)})
<1> DEFINE D == Below(t, T, {c})
           N == Len(t)
           n == Head(s.que)
           len == IF s.lst = 0 THEN 1 ELSE 1 + s.node[s.lst].dat
           G == F \cup (D \ R)
           kids == Chain(s.node, s.node[n].dwn)
           C == Kids(t, T, n)
           v == FreeOne(s, no).node
           s1 == [que |-> Tail(s.que), passed |-> s.passed]
           s2 == AllEnqueued(s1, kids, no)
           Q == R \ {n}
<1>1. /\ Tree(t, root, T, r) /\ c \in T /\ c # root
      /\ T \cap F = {} /\ T \cup F \subseteq 1 .. N /\ N <= MaxNodes /\ N \in Nat
  BY DEF Pruned, Tree
<1>2. /\ D \subseteq T /\ c \in D
      /\ \A y \in T : t[y].upn \in D => y \in D
      /\ t[c].upn \in T \ D
  BY <1>1, BelowIs
<1>3. /\ R \subseteq D
      /\ Waiting(s, R)
      /\ \A x \in R : x \in Waits(s) <=> x = c \/ t[x].upn \notin R
      /\ \A x \in D \ R : x = c \/ t[x].upn \notin R
      /\ s.node \in Seq(NodeType(N)) /\ Len(s.node) = N
      /\ \A x \in R : s.node[x].dwn = t[x].dwn /\ s.node[x].nxt = t[x].nxt
      /\ \A x \in T \ D : s.node[x] = u[x]
      /\ FreeList(s.node, s.lst, G)
  BY DEF Turning
<1>4. /\ n \in R /\ n \in Range(s.que)
      /\ Tail(s.que) \in Seq(R) /\ Distinct(Tail(s.que))
      /\ Range(Tail(s.que)) = Range(s.que) \ {n}
  <2> DEFINE q == s.que
  <2>1. q \in Seq(R) /\ Distinct(q) /\ q # << >>
    BY <1>3 DEF Waiting
  <2> HIDE DEF q
  <2>2. /\ Tail(q) \in Seq(R) /\ Distinct(Tail(q)) /\ Head(q) \in R
        /\ Range(Tail(q)) = Range(q) \ {Head(q)} /\ Head(q) \in Range(q)
    BY <2>1, HeadLeaves
  <2> QED
    BY <2>2 DEF q
<1>5. /\ FreeOne(s, no).lst = n
      /\ FreeOne(s, no).que = s2.que /\ FreeOne(s, no).passed = s2.passed
      /\ v = [s.node EXCEPT ![n].dat = len, ![n].nxt = s.lst, ![n].upn = DELETED_NODE]
  BY DEF FreeOne
<1> HIDE DEF D, N, n, v, s2, kids, len
<1>6. n \in T /\ n \in 1 .. N /\ n \notin G /\ n # 0
  BY <1>1, <1>2, <1>3, <1>4
\* The children of n are in R, and wait nowhere yet.
<1>7. C \subseteq R /\ n \notin C /\ c \notin C
  <2> SUFFICES ASSUME NEW x \in C PROVE x \in R /\ x # n /\ x # c
    OBVIOUS
  <2>1. x \in T /\ t[x].upn = n
    BY DEF Kids
  <2>2. x \in D /\ x # c
    BY <1>2, <1>3, <1>4, <2>1
  <2>3. x # n
    <3>1. x # root /\ r[x] \in Nat
      BY <1>1, <1>6, <2>1 DEF Tree
    <3>2. r[n] < r[x]
      BY <1>1, <2>1, <3>1 DEF Tree
    <3> QED
      BY <3>1, <3>2
  <2> QED
    BY <1>3, <1>4, <2>1, <2>2, <2>3
<1>8. Lists(s.node, t[n].dwn, C, kids)
  <2>1. Links(t, t[n].dwn, C, r)
    BY <1>1, <1>6, KidLinks
  <2>2. \A x \in C : s.node[x].nxt = t[x].nxt
    BY <1>3, <1>7
  <2>3. Links(s.node, t[n].dwn, C, r)
    BY <1>1, <1>3, <2>1, <2>2 DEF Links, N
  <2>4. kids = Chain(s.node, t[n].dwn)
    BY <1>3, <1>4 DEF kids
  <2> QED
    BY <2>3, <2>4, ChainLists
<1>9. kids \in Seq(R) /\ Distinct(kids) /\ Range(kids) = C
  <2>1. kids \in Seq(C) /\ Distinct(kids) /\ Range(kids) = C
    BY <1>8 DEF Lists, Follows, Distinct
  <2> QED
    BY <1>7, <2>1, SeqMonotonic
<1>10. Waits(s) \cap C = {}
  <2> SUFFICES ASSUME NEW x \in C PROVE x \notin Waits(s)
    OBVIOUS
  <2>1. x \in R /\ x # c /\ t[x].upn = n
    BY <1>7 DEF Kids
  <2> QED
    BY <1>3, <1>4, <2>1
<1>11. Waiting(s1, R) /\ Waits(s1) = Waits(s) \ {n} /\ n \in Waits(s)
  <2>1. s1.que = Tail(s.que) /\ s1.passed = s.passed
    OBVIOUS
  <2> HIDE DEF s1
  <2>2. n \notin s.passed
    BY <1>3, <1>4 DEF Waiting
  <2> QED
    BY <1>3, <1>4, <2>1, <2>2 DEF Waiting, Waits
<1>25. Waiting(s2, R) /\ Waits(s2) = (Waits(s) \ {n}) \cup C
  <2> HIDE DEF s1
  <2>1. Range(kids) \cap Waits(s1) = {}
    BY <1>9, <1>10, <1>11
  <2>2. Waiting(s2, R) /\ Waits(s2) = Waits(s1) \cup Range(kids)
    BY <1>9, <1>11, <2>1, AllAreEnqueued DEF s2
  <2> QED
    BY <1>9, <1>11, <2>2
<1> HIDE DEF s1
<1>12. Waiting(s2, Q)
  <2> DEFINE que == s2.que
  <2>1. que \in Seq(R) /\ Range(que) \subseteq Waits(s2) /\ s2.passed \subseteq Waits(s2)
    BY <1>25 DEF Waiting, Waits
  <2>2. n \notin Waits(s2)
    BY <1>7, <1>25
  <2> HIDE DEF que
  <2>3. Len(que) \in Nat /\ que \in [1 .. Len(que) -> R] /\ DOMAIN que = 1 .. Len(que)
    BY <2>1, LenProperties
  <2>4. \A i \in 1 .. Len(que) : que[i] \in Range(que) /\ que[i] \in R
    BY <2>3 DEF Range
  <2>5. \A i \in 1 .. Len(que) : que[i] \in Q
    BY <2>1, <2>2, <2>4
  <2>6. que \in [1 .. Len(que) -> Q]
    BY <2>3, <2>5
  <2>7. que \in Seq(Q)
    BY <2>3, <2>6, FunctionIsSeq
  <2>8. s2.passed \subseteq Q
    BY <1>25, <2>1, <2>2 DEF Waiting
  <2> QED
    BY <1>25, <2>7, <2>8 DEF Waiting, que
<1>13. \A x \in Q : x \in Waits(s2) <=> x = c \/ t[x].upn \notin Q
  <2> SUFFICES ASSUME NEW x \in Q PROVE x \in Waits(s2) <=> x = c \/ t[x].upn \notin Q
    OBVIOUS
  <2>1. x \in R /\ x # n /\ x \in T
    BY <1>2, <1>3
  <2>2. x \in Waits(s2) <=> x \in Waits(s) \/ x \in C
    BY <1>25, <2>1
  <2>3. x \in Waits(s) <=> x = c \/ t[x].upn \notin R
    BY <1>3, <2>1
  <2>4. x \in C <=> t[x].upn = n
    BY <2>1 DEF Kids
  <2>5. t[x].upn \notin Q <=> t[x].upn \notin R \/ t[x].upn = n
    OBVIOUS
  <2> QED
    BY <2>2, <2>3, <2>4, <2>5
<1>14. \A x \in D \ Q : x = c \/ t[x].upn \notin Q
  <2> SUFFICES ASSUME NEW x \in D \ Q PROVE x = c \/ t[x].upn \notin Q
    OBVIOUS
  <2>1. CASE x = n
    BY <1>3, <1>4, <1>11, <2>1
  <2>2. CASE x # n
    BY <1>3, <2>2
  <2> QED
    BY <2>1, <2>2
\* The node goes to the free list.
<1>15. F \cup (D \ Q) = G \cup {n}
  BY <1>3, <1>4
<1>fin. IsFiniteSet(1 .. N) /\ Cardinality(1 .. N) = N
  BY <1>1, FS_Interval
<1>16. len \in 1 .. N /\ s.lst \in 0 .. N
  <2>1. G \cup {n} \in SUBSET (1 .. N) /\ G \in SUBSET (1 .. N)
    BY <1>1, <1>2, <1>6
  <2>2. IsFiniteSet(G) /\ Cardinality(G) \in Nat /\ Cardinality(G \cup {n}) <= N
    BY <1>fin, <2>1, FS_Subset, FS_CardinalityType
  <2>3. Cardinality(G \cup {n}) = Cardinality(G) + 1
    BY <1>6, <2>2, FS_AddElement
  <2>4. s.lst \in G \cup {0} /\ (s.lst # 0 => s.node[s.lst].dat = Cardinality(G))
    BY <1>3 DEF FreeList
  <2>5. len = 1 \/ len = 1 + Cardinality(G)
    BY <2>4 DEF len
  <2>6. len \in 1 .. N
    BY <1>1, <2>2, <2>3, <2>5
  <2> QED
    BY <1>1, <2>1, <2>4, <2>6
<1>17. /\ v \in Seq(NodeType(N)) /\ Len(v) = N
       /\ FieldsSet(s.node, v, n, DELETED_NODE, s.node[n].dwn, s.lst, len)
  <2>1. len \in Data \cup 0 .. MaxNodes
    BY <1>1, <1>16, ArbAssumption
  <2>2. DELETED_NODE \in 0 .. N \cup {DELETED_NODE} /\ n \in 1 .. Len(s.node)
    BY <1>3, <1>6
  <2>3. s.node \in Seq(NodeType(N)) /\ N \in Nat /\ s.lst \in 0 .. N /\ Len(s.node) = N
    BY <1>1, <1>3, <1>16
  <2>4. v = [s.node EXCEPT ![n].dat = len, ![n].nxt = s.lst, ![n].upn = DELETED_NODE]
    BY <1>5
  <2>5. Settable(N, s.node, n, DELETED_NODE, s.lst, len)
    BY <2>1, <2>2, <2>3 DEF Settable
  <2>6. v = SetTo(s.node, n, DELETED_NODE, s.lst, len)
    BY <2>4 DEF SetTo
  <2> QED
    BY <2>3, <2>5, <2>6, SetFields
<1>18. v[n].nxt = s.lst /\ v[n].dat = len /\ \A x \in 1 .. N : x # n => v[x] = s.node[x]
  BY <1>3, <1>17 DEF FieldsSet
<1>19. FreeList(v, n, G \cup {n})
  <2>1. n \in 1 .. Len(s.node) /\ Len(v) = Len(s.node)
    BY <1>3, <1>6, <1>17
  <2>2. G \subseteq 1 .. N
    BY <1>1, <1>2
  <2>3. \A f \in G : v[f].dat = s.node[f].dat /\ v[f].nxt = s.node[f].nxt
    BY <1>6, <1>18, <2>2
  <2>4. v[n].dat = IF s.lst = 0 THEN 1 ELSE 1 + s.node[s.lst].dat
    BY <1>18 DEF len
  <2>5. FreeList(s.node, s.lst, G)
    BY <1>3
  <2> HIDE DEF G
  <2> QED
    BY <1>6, <1>18, <2>1, <2>3, <2>4, <2>5, FreePut
<1>20. \A x \in Q : v[x].dwn = t[x].dwn /\ v[x].nxt = t[x].nxt
  <2> SUFFICES ASSUME NEW x \in Q PROVE v[x].dwn = t[x].dwn /\ v[x].nxt = t[x].nxt
    OBVIOUS
  <2>1. x \in 1 .. N /\ x # n /\ x \in R
    BY <1>1, <1>2, <1>3
  <2> QED
    BY <1>3, <1>18, <2>1
<1>21. \A x \in T \ D : v[x] = u[x]
  <2> SUFFICES ASSUME NEW x \in T \ D PROVE v[x] = u[x]
    OBVIOUS
  <2>1. x \in 1 .. N /\ x # n
    BY <1>1, <1>3, <1>4
  <2> QED
    BY <1>3, <1>18, <2>1
<1>22. FreeList(v, n, F \cup (D \ Q))
  BY <1>15, <1>19
<1>23. Q \subseteq D
  BY <1>3
<1>24. /\ FreeOne(s, no).que = s2.que /\ FreeOne(s, no).passed = s2.passed
       /\ FreeOne(s, no).node = v /\ FreeOne(s, no).lst = n
  BY <1>5 DEF v
<1> DEFINE e == FreeOne(s, no)
<1> HIDE DEF Q, e
<1>26. Waiting(e, Q) /\ Waits(e) = Waits(s2)
  BY <1>12, <1>24 DEF Waiting, Waits, e
<1>27. Turning(t, u, T, F, c, e, Q)
  BY <1>13, <1>14, <1>17, <1>20, <1>21, <1>22, <1>23, <1>24, <1>26 DEF Turning, D, N, e
<1> QED
  BY <1>4, <1>27 DEF Q, n, e

(* When the queue is empty, the nodes passed over and those below them are *)
(* left.                                                                   *)
LEMMA EmptyQueue ==
  ASSUME NEW t, NEW root, NEW T, NEW F, NEW c, NEW r, Pruned(t, root, T, F, c, r),
         NEW u, NEW s, NEW R, Turning(t, u, T, F, c, s, R), s.que = << >>
  PROVE  R = Below(t, T, s.passed)
<1> DEFINE D == Below(t, T, {c})
           B == Below(t, T, s.passed)
<1>1. /\ Tree(t, root, T, r) /\ c \in T /\ c # root
      /\ \A x \in T : r[x] \in Nat
      /\ root \in T
      /\ \A x \in T \ {root} : t[x].upn \in T /\ r[t[x].upn] < r[x]
  BY DEF Pruned, Tree
<1>2. /\ D \subseteq T /\ root \notin D
      /\ \A y \in T : t[y].upn \in D => y \in D
      /\ t[c].upn \notin D
  BY <1>1, BelowIs
<1>3. /\ R \subseteq D /\ Waiting(s, R)
      /\ \A x \in R : x \in Waits(s) <=> x = c \/ t[x].upn \notin R
      /\ \A x \in D \ R : x = c \/ t[x].upn \notin R
  BY DEF Turning
<1> HIDE DEF D
<1>4. Waits(s) = s.passed /\ s.passed \subseteq R
  <2>1. Range(s.que) = {}
    BY DEF Range
  <2> QED
    BY <1>3, <2>1 DEF Waits, Waiting
<1>5. B \subseteq R
  <2>1. R \in SUBSET T
    BY <1>2, <1>3
  <2>2. ASSUME NEW y \in T, t[y].upn \in R PROVE y \in R
    <3>1. y \in D /\ y # c
      BY <1>2, <1>3, <2>2
    <3> QED
      BY <1>3, <2>2, <3>1
  <2>3. ClosedFrom(t, T, s.passed, R)
    BY <1>4, <2>2 DEF ClosedFrom
  <2> QED
    BY <2>1, <2>3 DEF Below
<1>6. R \subseteq B
  <2>1. B \subseteq T /\ s.passed \subseteq B /\ \A y \in T : t[y].upn \in B => y \in B
    BY <1>2, <1>3, <1>4 DEF Below, ClosedFrom
  <2> HIDE DEF B
  <2>2. SUFFICES ASSUME R \ B # {} PROVE FALSE
    OBVIOUS
  <2>3. R \ B \subseteq T
    BY <1>2, <1>3
  <2>4. PICK n \in R \ B : \A m \in R \ B : r[n] <= r[m]
    <3> DEFINE M == R \ B
    <3>1. M \subseteq T /\ M # {}
      BY <2>2, <2>3
    <3> HIDE DEF M
    <3>2. \E n \in M : \A m \in M : r[n] <= r[m]
      BY <1>1, <3>1, LeastRank
    <3> QED
      BY <3>2 DEF M
  <2>5. n \in T \ {root} /\ t[n].upn \in T /\ r[t[n].upn] < r[n]
    BY <1>1, <1>2, <1>3, <2>4
  <2>6. t[n].upn \notin R \ B
    <3>1. r[n] \in Nat /\ r[t[n].upn] \in Nat
      BY <1>1, <2>5
    <3> QED
      BY <2>4, <2>5, <3>1
  <2>7. t[n].upn \notin B
    BY <2>1, <2>4, <2>5
  <2>8. n \in s.passed
    BY <1>3, <1>4, <2>4, <2>6, <2>7
  <2> QED
    BY <2>1, <2>4, <2>8
<1> QED
  BY <1>5, <1>6

TurnAfter(f, s0, k, no) ==
  IF k = 0 THEN s0
  ELSE LET s == f[k - 1] IN IF s.que = << >> THEN s ELSE FreeOne(s, no)
AreTurns(f, s0, no, N) == f = [k \in 0 .. N |-> TurnAfter(f, s0, k, no)]

(* The recursion of Freed defines a function, up to any number of turns.   *)
LEMMA TurnsExist ==
  ASSUME NEW s0, NEW no, NEW N \in Nat
  PROVE  \E f : AreTurns(f, s0, no, N)
<1> USE DEF AreTurns
<1> DEFINE Ok(f, n) == f = [k \in 0 .. n |-> TurnAfter(f, s0, k, no)]
           Bad == {n \in Nat : ~ \E f : Ok(f, n)}
<1>1. SUFFICES ASSUME Bad # {} PROVE FALSE
  OBVIOUS
<1>2. PICK n \in Bad : \A l \in Bad : n <= l
  BY <1>1, LeastNatural
<1>3. n # 0
  <2>1. Ok([k \in 0 .. 0 |-> s0], 0)
    BY DEF TurnAfter
  <2> QED
    BY <2>1, <1>2
<1>4. n \in Nat /\ n - 1 \in Nat /\ ~ (n <= n - 1)
  BY <1>3
<1>5. PICK f : Ok(f, n - 1)
  BY <1>2, <1>4
<1>6. PICK g : g = [k \in 0 .. n |-> IF k = n THEN TurnAfter(f, s0, n, no) ELSE f[k]]
  OBVIOUS
<1>7. Ok(g, n)
  <2>1. g[n] = TurnAfter(f, s0, n, no) /\ \A k \in 0 .. n - 1 : g[k] = f[k]
    BY <1>4, <1>6
  <2>2. \A k \in 0 .. n - 1 : f[k] = TurnAfter(f, s0, k, no)
    BY <1>5
  <2>3. \A k \in 0 .. n - 1 : k = 0 \/ k - 1 \in 0 .. n - 1
    BY <1>4
  <2>4. \A k \in 0 .. n - 1 : g[k] = TurnAfter(g, s0, k, no)
    BY <2>1, <2>2, <2>3 DEF TurnAfter
  <2>5. n - 1 \in 0 .. n - 1
    BY <1>4
  <2>6. g[n] = TurnAfter(g, s0, n, no)
    BY <2>1, <2>5, <1>3 DEF TurnAfter
  <2>7. \A k \in 0 .. n : k = n \/ k \in 0 .. n - 1
    BY <1>4
  <2> QED
    BY <2>4, <2>6, <2>7, <1>6
<1> QED
  BY <1>2, <1>7

(* As many turns as there are nodes empty the queue.                       *)
LEMMA TurnsEnd ==
  ASSUME NEW t, NEW root, NEW T, NEW F, NEW c, NEW r, Pruned(t, root, T, F, c, r),
         NEW u, NEW s0, Turning(t, u, T, F, c, s0, Below(t, T, {c})), NEW no,
         NEW f, AreTurns(f, s0, no, Len(t))
  PROVE  LET s == f[Len(t)] IN
         Turning(t, u, T, F, c, s, Below(t, T, s.passed)) /\ s.que = << >>
<1> DEFINE N == Len(t)
           D == Below(t, T, {c})
           Left(s, R, k) == /\ Turning(t, u, T, F, c, s, R)
                            /\ s.que = << >> \/ Cardinality(R) <= N - k
           Right(k) == \E R : Left(f[k], R, k)
           Bad == {k \in 0 .. N : ~ Right(k)}
<1>1. N \in Nat /\ T \subseteq 1 .. N /\ Tree(t, root, T, r) /\ c \in T /\ c # root
  BY DEF Pruned, Tree
<1>2. D \subseteq T
  BY <1>1, BelowIs
<1>4. \A k \in 0 .. N : f[k] = TurnAfter(f, s0, k, no)
  BY DEF AreTurns
<1> HIDE DEF N
<1>3. ASSUME NEW R \in SUBSET D PROVE IsFiniteSet(R) /\ Cardinality(R) \in Nat /\ Cardinality(R) <= N
  <2>1. R \in SUBSET (1 .. N)
    BY <1>1, <1>2
  <2>2. IsFiniteSet(1 .. N) /\ Cardinality(1 .. N) = N
    <3>1. N \in Nat
      BY <1>1
    <3> QED
      BY <3>1, FS_Interval
  <2> QED
    BY <2>1, <2>2, FS_Subset, FS_CardinalityType
<1>5. ASSUME NEW s, NEW R, Turning(t, u, T, F, c, s, R) PROVE R \in SUBSET D /\ s.que \in Seq(R)
  BY <1>5 DEF Turning, Waiting
<1>6. Bad = {}
  <2>1. SUFFICES ASSUME Bad # {} PROVE FALSE
    OBVIOUS
  <2>2. PICK k \in Bad : \A l \in Bad : k <= l
    <3>1. Bad \subseteq Nat
      OBVIOUS
    <3> HIDE DEF Bad
    <3> QED
      BY <2>1, <3>1, LeastNatural
  <2>3. k \in 0 .. N /\ ~ Right(k)
    OBVIOUS
  <2>4. CASE k = 0
    <3>1. f[0] = s0
      BY <1>4, <2>3, <2>4 DEF TurnAfter
    <3>2. Cardinality(D) <= N - 0
      <4>1. D \in SUBSET D /\ N \in Nat
        BY <1>1
      <4>2. Cardinality(D) \in Nat /\ Cardinality(D) <= N
        BY <1>3, <4>1
      <4> QED
        BY <4>1, <4>2
    <3>4. Turning(t, u, T, F, c, f[0], D)
      BY <3>1
    <3> HIDE DEF D
    <3>3. Left(f[0], D, 0)
      BY <3>2, <3>4
    <3> QED
      BY <2>3, <2>4, <3>3
  <2>5. CASE k # 0
    <3>1. k - 1 \in 0 .. N /\ ~ (k <= k - 1)
      BY <1>1, <2>3, <2>5
    <3>2. Right(k - 1)
      BY <2>2, <3>1
    <3> DEFINE s == f[k - 1]
    <3>3. PICK R : Left(s, R, k - 1)
      BY <3>2
    <3>4. f[k] = IF s.que = << >> THEN s ELSE FreeOne(s, no)
      BY <1>4, <2>3, <2>5 DEF TurnAfter
    <3> HIDE DEF s
    <3>5. /\ Turning(t, u, T, F, c, s, R)
          /\ s.que = << >> \/ Cardinality(R) <= N - (k - 1)
      BY <3>3
    <3>6. R \in SUBSET D
      BY <1>5, <3>5
    <3>7. IsFiniteSet(R) /\ Cardinality(R) \in Nat
      BY <1>3, <3>6
    <3>8. CASE s.que = << >>
      <4>1. f[k] = s
        BY <3>4, <3>8
      <4>2. Left(f[k], R, k)
        BY <3>5, <3>8, <4>1
      <4> QED
        BY <2>3, <4>2
    <3>9. CASE s.que # << >>
      <4>1. Head(s.que) \in R /\ Turning(t, u, T, F, c, FreeOne(s, no), R \ {Head(s.que)})
        BY <3>5, <3>9, TurnFrees
      <4>2. Cardinality(R \ {Head(s.que)}) = Cardinality(R) - 1
        BY <3>7, <4>1, FS_RemoveElement
      <4>3. Cardinality(R \ {Head(s.que)}) <= N - k
        BY <1>1, <2>3, <3>5, <3>7, <3>9, <4>2
      <4>4. f[k] = FreeOne(s, no)
        BY <3>4, <3>9
      <4>5. Left(f[k], R \ {Head(s.que)}, k)
        BY <4>1, <4>3, <4>4
      <4> QED
        BY <2>3, <4>5
    <3> QED
      BY <3>8, <3>9
  <2> QED
    BY <2>4, <2>5
<1>11. Right(N)
  <2>1. N \in 0 .. N /\ N \notin Bad
    BY <1>1, <1>6
  <2> HIDE DEF Right
  <2> QED
    BY <2>1
<1>7. PICK R : Left(f[N], R, N)
  BY <1>11
<1> DEFINE s == f[N]
<1>8. Turning(t, u, T, F, c, s, R) /\ (s.que = << >> \/ Cardinality(R) <= N - N)
  BY <1>7
<1>9. s.que = << >>
  <2>1. SUFFICES ASSUME Cardinality(R) <= N - N PROVE s.que = << >>
    BY <1>8
  <2> DEFINE q == s.que
  <2>2. R \in SUBSET D
    BY <1>5, <1>8
  <2>3. IsFiniteSet(R) /\ Cardinality(R) = 0
    <3>1. IsFiniteSet(R) /\ Cardinality(R) \in Nat
      BY <1>3, <2>2
    <3>2. N \in Nat
      BY <1>1
    <3> QED
      BY <2>1, <3>1, <3>2
  <2>4. q \in Seq({})
    BY <1>5, <1>8, <2>3, FS_EmptySet
  <2> HIDE DEF q
  <2>5. \A i \in 1 .. Len(q) : q[i] \in {}
    BY <2>4, ElementOfSeq
  <2>6. q # << >> => Len(q) \in Nat \ {0}
    BY <2>4, EmptySeq
  <2>7. q # << >> => 1 \in 1 .. Len(q)
    BY <2>6
  <2> QED
    BY <2>5, <2>7 DEF q
<1>10. R = Below(t, T, s.passed)
  <2> HIDE DEF s
  <2> QED
    BY <1>8, <1>9, EmptyQueue
<1> QED
  BY <1>8, <1>9, <1>10 DEF N

-----------------------------------------------------------------------------
(* The invariant. *)

\* The tree T, the free nodes F and the lost nodes X are all of the nodes.
Shape(t, root, l, c, T, F, r, X) ==
  /\ Tree(t, root, T, r) /\ FreeList(t, l, F)
  /\ T \cup F \cup X = 1 .. Len(t) /\ T \cap F = {} /\ (T \cup F) \cap X = {}
  /\ c \in T

NoNodes == node = << >> /\ fst = 0 /\ lst = 0 /\ cur = 0 /\ lost = {}

IInv ==
  /\ TypeOK
  /\ NoNodes \/ \E T, F, r : Shape(node, fst, lst, cur, T, F, r, lost)

(* Links past the detached node, and nothing else, change.                 *)
LEMMA DetachedIs ==
  ASSUME TypeOK, NEW T, NEW F, NEW r, Shape(node, fst, lst, cur, T, F, r, lost), cur # fst
  PROVE  /\ DetachFinds
         /\ CutOff(node, Detached, T \ Below(node, T, {cur}), cur)
         /\ Detached \in Seq(NodeType(Len(node))) /\ Len(Detached) = Len(node)
         /\ \A x \in Below(node, T, {cur}) :
              Detached[x].dwn = node[x].dwn /\ Detached[x].nxt = node[x].nxt
         /\ \A x \in F : Detached[x] = node[x]
         /\ \A x \in T : Detached[x].dat = node[x].dat
<1> DEFINE N == Len(node)
           D == Below(node, T, {cur})
           sib == Siblings
           up == node[cur].upn
           d == node[cur].nxt
           i == CHOOSE j \in DOMAIN sib : sib[j] = cur
           u == Detached
<1>1. /\ Tree(node, fst, T, r) /\ FreeList(node, lst, F) /\ cur \in T
      /\ T \cup F \subseteq 1 .. N /\ T \cap F = {} /\ T \subseteq 1 .. N /\ N \in Nat
      /\ \A x \in T : node[x].dwn \in T \cup {0} /\ node[x].nxt \in T \cup {0}
      /\ \A x \in T : node[x].dwn # 0 => node[node[x].dwn].upn = x
      /\ \A x \in T : node[x].nxt # 0 => node[node[x].nxt].upn = node[x].upn /\ r[x] < r[node[x].nxt]
      /\ \A x \in T \ {fst} : node[x].upn \in T /\ r[node[x].upn] < r[x]
      /\ \A x, y \in T : node[x].nxt # 0 /\ node[x].nxt = node[y].nxt => x = y
      /\ \A x, y \in T : node[x].dwn # 0 => node[x].dwn # node[y].nxt
      /\ \A x \in T : r[x] \in Nat
  BY DEF Shape, Tree
<1>2. node \in Seq(NodeType(N)) /\ \A x \in 1 .. N : node[x] \in NodeType(N)
  <2>1. node \in Seq(NodeType(N))
    BY DEF TypeOK, NodeType, NodeOrNone
  <2> QED
    BY <2>1, ElementOfSeq
<1>3. /\ D \subseteq T /\ cur \in D /\ up \in T \ D
      /\ \A y \in T : node[y].upn \in D => y \in D
      /\ \A y \in D : y # cur => node[y].upn \in D
  BY <1>1, BelowIs
<1> DEFINE C == Kids(node, T, up)
<1>4. Lists(node, node[up].dwn, C, sib)
  BY <1>1, <1>3, KidLists DEF Siblings
<1>5. cur \in C
  BY <1>1 DEF Kids
<1>6. /\ sib \in Seq(C) /\ (node[up].dwn # 0 => sib[1] = node[up].dwn)
      /\ (node[up].dwn = 0 <=> sib = << >>)
      /\ \A k \in 1 .. Len(sib) - 1 : node[sib[k]].nxt = sib[k + 1]
      /\ Range(sib) = C
  BY <1>4 DEF Lists, Follows
<1>7. DOMAIN sib = 1 .. Len(sib) /\ Len(sib) \in Nat
  BY <1>6, LenProperties
<1>8. DetachFinds
  <2>1. up \in NodeIds
    BY <1>1, <1>3 DEF NodeIds
  <2> QED
    BY <1>5, <1>6, <2>1 DEF DetachFinds
<1>9. u = IF i = 1 THEN [[node EXCEPT ![cur].upn = DELETED_NODE] EXCEPT ![up].dwn = d]
          ELSE [[node EXCEPT ![cur].upn = DELETED_NODE] EXCEPT ![sib[i - 1]].nxt = d]
  BY DEF Detached
<1> HIDE DEF sib, u
<1>10. i \in 1 .. Len(sib) /\ sib[i] = cur
  BY <1>5, <1>6, <1>7 DEF Range
<1> HIDE DEF i, D, N, up, d
<1>11. cur \in 1 .. N /\ up \in 1 .. N /\ up # cur /\ up \in T /\ cur # 0 /\ d \in 0 .. N
  BY <1>1, <1>3 DEF d
\* The link to cur is the parent's, or that of the node to its left.
<1> DEFINE Good == /\ CutOff(node, u, T \ D, cur)
                   /\ u \in Seq(NodeType(N)) /\ Len(u) = N
                   /\ \A x \in D : u[x].dwn = node[x].dwn /\ u[x].nxt = node[x].nxt
                   /\ \A x \in F : u[x] = node[x]
                   /\ \A x \in T : u[x].dat = node[x].dat
<1>12. ASSUME i = 1 PROVE Good
  <2>1. node[up].dwn = cur
    <3>1. sib # << >>
      BY <1>7, <1>10
    <3> QED
      BY <1>6, <1>10, <1>12, <3>1
  <2>2. \A x \in T : (node[x].dwn = cur <=> x = up) /\ node[x].nxt # cur
    BY <1>1, <1>11, <2>1 DEF up
  <2>3. u = [[node EXCEPT ![cur].upn = DELETED_NODE] EXCEPT ![up].dwn = d]
    BY <1>9, <1>12
  <2>4. /\ node \in [1 .. N -> NodeType(N)]
    BY <1>2, LenProperties DEF N
  <2>5. u \in [1 .. N -> NodeType(N)]
    <3> DEFINE a == [node[cur] EXCEPT !.upn = DELETED_NODE]
               b == [node[up] EXCEPT !.dwn = d]
    <3>1. node[cur] \in NodeType(N) /\ node[up] \in NodeType(N)
      BY <1>2, <1>11
    <3>2. a \in NodeType(N) /\ b \in NodeType(N)
      BY <1>11, <3>1 DEF NodeType
    <3>3. u = [[node EXCEPT ![cur] = a] EXCEPT ![up] = b]
      BY <1>11, <2>3, <2>4, <3>1 DEF NodeType
    <3> HIDE DEF a, b
    <3> QED
      BY <1>11, <2>4, <3>2, <3>3
  <2>6. /\ u[up].upn = node[up].upn /\ u[up].nxt = node[up].nxt /\ u[up].dwn = d
        /\ u[cur].dwn = node[cur].dwn /\ u[cur].nxt = node[cur].nxt
        /\ u[up].dat = node[up].dat /\ u[cur].dat = node[cur].dat
        /\ \A x \in 1 .. N : x # up /\ x # cur => u[x] = node[x]
    BY <1>2, <1>11, <2>3, <2>4 DEF NodeType
  <2>7. CutOff(node, u, T \ D, cur)
    <3>1. ASSUME NEW x \in T \ D, x # up PROVE u[x] = node[x]
      BY <1>1, <1>3, <2>6, <3>1
    <3>2. ASSUME NEW x \in T \ D
          PROVE  /\ u[x].upn = node[x].upn
                 /\ u[x].dwn = IF node[x].dwn = cur THEN d ELSE node[x].dwn
                 /\ u[x].nxt = IF node[x].nxt = cur THEN d ELSE node[x].nxt
      BY <2>1, <2>2, <2>6, <3>1
    <3> QED
      BY <3>2 DEF CutOff, d
  <2>8. \A x \in D : u[x].dwn = node[x].dwn /\ u[x].nxt = node[x].nxt
    BY <1>1, <1>3, <2>6
  <2>9. \A x \in F : u[x] = node[x]
    BY <1>1, <1>3, <2>6
  <2>10. u \in Seq(NodeType(N)) /\ Len(u) = N
    BY <1>1, <2>5, FunctionIsSeq
  <2>11. \A x \in T : u[x].dat = node[x].dat
    BY <1>1, <2>6
  <2> QED
    BY <2>7, <2>8, <2>9, <2>10, <2>11
<1>13. ASSUME i # 1 PROVE Good
  <2> DEFINE p == sib[i - 1]
  <2>0. i - 1 \in 1 .. Len(sib) - 1 /\ i - 1 \in 1 .. Len(sib) /\ (i - 1) + 1 = i
    BY <1>7, <1>10, <1>13
  <2>1. p \in T /\ node[p].upn = up /\ node[p].nxt = cur
    <3>1. p \in C
      BY <1>6, <1>7, <2>0 DEF Range
    <3> QED
      BY <1>6, <1>10, <2>0, <3>1 DEF Kids
  <2>2. u = [[node EXCEPT ![cur].upn = DELETED_NODE] EXCEPT ![p].nxt = d]
    BY <1>9, <1>13
  <2> HIDE DEF p
  <2>3. p # cur /\ p \in T \ D /\ p \in 1 .. N
    <3>1. r[p] < r[cur] /\ r[p] \in Nat
      BY <1>1, <1>11, <2>1
    <3>2. p # cur
      BY <3>1
    <3> QED
      BY <1>1, <1>3, <2>1, <3>2
  <2>4. \A x \in T : (node[x].nxt = cur <=> x = p) /\ node[x].dwn # cur
    BY <1>1, <1>11, <2>1
  <2>5. node \in [1 .. N -> NodeType(N)]
    BY <1>2, LenProperties DEF N
  <2>6. u \in [1 .. N -> NodeType(N)]
    <3> DEFINE a == [node[cur] EXCEPT !.upn = DELETED_NODE]
               b == [node[p] EXCEPT !.nxt = d]
    <3>1. node[cur] \in NodeType(N) /\ node[p] \in NodeType(N)
      BY <1>2, <1>11, <2>3
    <3>2. a \in NodeType(N) /\ b \in NodeType(N)
      BY <1>11, <3>1 DEF NodeType
    <3>3. u = [[node EXCEPT ![cur] = a] EXCEPT ![p] = b]
      BY <1>11, <2>2, <2>3, <2>5, <3>1 DEF NodeType
    <3> HIDE DEF a, b
    <3> QED
      BY <1>11, <2>3, <2>5, <3>2, <3>3
  <2>7. /\ u[p].upn = node[p].upn /\ u[p].dwn = node[p].dwn /\ u[p].nxt = d
        /\ u[cur].dwn = node[cur].dwn /\ u[cur].nxt = node[cur].nxt
        /\ u[p].dat = node[p].dat /\ u[cur].dat = node[cur].dat
        /\ \A x \in 1 .. N : x # p /\ x # cur => u[x] = node[x]
    BY <1>2, <1>11, <2>2, <2>3, <2>5 DEF NodeType
  <2>8. CutOff(node, u, T \ D, cur)
    <3>1. ASSUME NEW x \in T \ D, x # p PROVE u[x] = node[x]
      BY <1>1, <1>3, <2>7, <3>1
    <3>2. ASSUME NEW x \in T \ D
          PROVE  /\ u[x].upn = node[x].upn
                 /\ u[x].dwn = IF node[x].dwn = cur THEN d ELSE node[x].dwn
                 /\ u[x].nxt = IF node[x].nxt = cur THEN d ELSE node[x].nxt
      BY <2>1, <2>4, <2>7, <3>1
    <3> QED
      BY <3>2 DEF CutOff, d
  <2>9. \A x \in D : u[x].dwn = node[x].dwn /\ u[x].nxt = node[x].nxt
    BY <1>1, <1>3, <2>3, <2>7
  <2>10. \A x \in F : u[x] = node[x]
    BY <1>1, <1>3, <2>3, <2>7
  <2>11. u \in Seq(NodeType(N)) /\ Len(u) = N
    BY <1>1, <2>6, FunctionIsSeq
  <2>12. \A x \in T : u[x].dat = node[x].dat
    BY <1>1, <2>7
  <2> QED
    BY <2>8, <2>9, <2>10, <2>11, <2>12
<1>14. Good
  BY <1>12, <1>13
<1> QED
  BY <1>8, <1>14 DEF u, D, N

LEMMA TypeGrows ==
  ASSUME NEW N \in Nat, NEW M \in Nat, N <= M
  PROVE  NodeType(N) \subseteq NodeType(M)
<1>1. 0 .. N \subseteq 0 .. M
  OBVIOUS
<1> QED
  BY <1>1 DEF NodeType

\* w is node with a node n that is not in the tree any more or not yet; G is
\* what is left of the free list, from l on.
NewReady(w, n, l, T, G) ==
  /\ w \in Seq(NodeType(Len(w))) /\ Len(w) \in Nat /\ Len(node) <= Len(w) /\ Len(w) <= MaxNodes
  /\ n \in 1 .. Len(w) /\ n \notin T /\ w[n].dwn = 0
  /\ FreeList(w, l, G) /\ n \notin G /\ T \cap G = {}
  /\ T \cup {n} \cup G \cup lost = 1 .. Len(w) /\ (T \cup {n} \cup G) \cap lost = {}
  /\ \A x \in 1 .. Len(node) : w[x] = node[x]

(* A careful caller gets a node that is not in use.                        *)
LEMMA NewNodeIsReady ==
  ASSUME Careful, TypeOK, MayAdd, NEW T, NEW F, NEW r, Shape(node, fst, lst, cur, T, F, r, lost)
  PROVE  NewReady(WithNew, NewNode, NewLst, T, F \ {NewNode})
<1> DEFINE N == Len(node)
<1>1. /\ node \in Seq(NodeType(N)) /\ N <= MaxNodes /\ N \in Nat /\ lst \in 0 .. N /\ cur \in 0 .. N
      /\ MaxNodes \in Nat
  BY ArbAssumption, LenProperties DEF TypeOK, NodeType, NodeOrNone
<1>2. /\ T \cup F \cup lost = 1 .. N /\ T \cap F = {} /\ FreeList(node, lst, F)
      /\ (T \cup F) \cap lost = {}
  BY DEF Shape
<1> HIDE DEF N
<1>3. CASE lst > 0
  <2>1. WithNew = node /\ NewNode = lst /\ NewLst = node[lst].nxt /\ node[lst].dwn = 0
    BY <1>3 DEF WithNew, NewNode, NewLst, FromFreeList, MayAdd
  <2>2. lst # 0 /\ lst \in F
    BY <1>2, <1>3 DEF FreeList
  <2>3. FreeList(node, node[lst].nxt, F \ {lst})
    BY <1>2, <2>2, FreeTake
  <2>4. lst \in 1 .. N /\ lst \notin T
    BY <1>2, <2>2
  <2> QED
    BY <1>1, <1>2, <2>1, <2>2, <2>3, <2>4 DEF NewReady, N
<1>4. CASE ~ (lst > 0)
  <2> DEFINE e == [upn |-> cur, dwn |-> 0, nxt |-> 0, dat |-> 0]
             w == Append(node, e)
  <2>1. N < MaxNodes
    BY <1>4 DEF MayAdd, FromFreeList, N
  <2>2. WithNew = w /\ NewNode = N + 1 /\ NewLst = lst
    BY <1>1, <1>4, <2>1 DEF WithNew, NewNode, NewLst, FromFreeList, N
  <2>3. lst = 0 /\ F = {}
    BY <1>1, <1>2, <1>4 DEF FreeList
  <2>4. node \in Seq(NodeType(N + 1))
    BY <1>1, TypeGrows, SeqMonotonic
  <2>5. e \in NodeType(N + 1)
    BY <1>1 DEF NodeType
  <2> HIDE DEF e
  <2>6. w \in Seq(NodeType(N + 1)) /\ Len(w) = N + 1 /\ w[N + 1] = e /\ \A x \in 1 .. N : w[x] = node[x]
    BY <2>4, <2>5, AppendProperties DEF N
  <2> HIDE DEF w
  <2>7. w[N + 1].dwn = 0
    BY <2>6 DEF e
  <2>8. FreeList(w, 0, {})
    BY <1>1, <2>6 DEF FreeList
  <2>9. T \cup lost = 1 .. N /\ T \cap lost = {}
    BY <1>2, <2>3
  <2>10. N + 1 \in 1 .. N + 1 /\ N + 1 \notin T
         /\ T \cup {N + 1} \cup {} \cup lost = 1 .. N + 1
         /\ (T \cup {N + 1} \cup {}) \cap lost = {}
         /\ N + 1 \in Nat /\ N <= N + 1 /\ N + 1 <= MaxNodes
    BY <1>1, <2>1, <2>9
  <2>11. F \ {NewNode} = {}
    BY <2>3
  <2>12. NewReady(w, N + 1, 0, T, {})
    BY <2>6, <2>7, <2>8, <2>10 DEF NewReady, N
  <2> QED
    BY <2>2, <2>3, <2>11, <2>12
<1> QED
  BY <1>3, <1>4

(* The current node gets a new first child.                                *)
LEMMA AddChildMakes ==
  ASSUME Careful, TypeOK, AddNode, NEW T, NEW F, NEW r, Shape(node, fst, lst, cur, T, F, r, lost)
  PROVE  LET n == NewNode IN
         /\ TypeOK' /\ fst' = fst /\ cur' = n /\ fst # 0 /\ n \in 1 .. MaxNodes
         /\ ChildAdded(node, node', T, cur, n)
         /\ \A x \in T : node'[x].dat = node[x].dat
         /\ Shape(node', fst', lst', cur', T \cup {n}, F \ {n}, Between(r, T, cur, n), lost')
<1> DEFINE w == WithNew
           n == NewNode
           L == Len(w)
           G == F \ {n}
           u == node'
           S == T \cup {n}
           q == Between(r, T, cur, n)
<1>1. Tree(node, fst, T, r) /\ cur \in T /\ T \subseteq 1 .. Len(node) /\ Len(node) \in Nat /\ fst \in T
  BY DEF Shape, Tree
<1>2. NewReady(w, n, NewLst, T, G)
  BY NewNodeIsReady DEF AddNode
<1>3. /\ lst' = NewLst /\ cur' = n /\ fst' = fst /\ lost' = lost
      /\ u = [w EXCEPT ![n].upn = cur, ![n].nxt = w[cur].dwn, ![cur].dwn = n]
  BY <1>1 DEF AddNode
<1> HIDE DEF w, n, L, G, u
<1>4. /\ w \in Seq(NodeType(L)) /\ L \in Nat /\ Len(node) <= L /\ L <= MaxNodes
      /\ n \in 1 .. L /\ n \notin T /\ w[n].dwn = 0
      /\ FreeList(w, NewLst, G) /\ n \notin G /\ T \cap G = {}
      /\ T \cup {n} \cup G \cup lost = 1 .. L /\ (T \cup {n} \cup G) \cap lost = {}
      /\ \A x \in 1 .. Len(node) : w[x] = node[x]
  BY <1>2 DEF NewReady, L
<1>5. w \in [1 .. L -> NodeType(L)] /\ cur \in 1 .. L /\ cur # n
  BY <1>1, <1>4, LenProperties DEF L
<1>6. u \in [1 .. L -> NodeType(L)]
  <2> DEFINE a == [w[n] EXCEPT !.upn = cur, !.nxt = w[cur].dwn]
             b == [w[cur] EXCEPT !.dwn = n]
  <2>1. w[n] \in NodeType(L) /\ w[cur] \in NodeType(L) /\ n \in 0 .. L /\ cur \in 0 .. L
    BY <1>4, <1>5
  <2>2. a \in NodeType(L) /\ b \in NodeType(L)
    BY <2>1 DEF NodeType
  <2>3. u = [[w EXCEPT ![n] = a] EXCEPT ![cur] = b]
    BY <1>3, <1>4, <1>5, <2>1 DEF NodeType
  <2> HIDE DEF a, b
  <2> QED
    BY <1>5, <2>2, <2>3
<1>7. u \in Seq(NodeType(L)) /\ Len(u) = L
  BY <1>4, <1>6, FunctionIsSeq
<1>8. /\ u[n].upn = cur /\ u[n].nxt = w[cur].dwn /\ u[n].dwn = 0
      /\ u[cur].upn = w[cur].upn /\ u[cur].nxt = w[cur].nxt /\ u[cur].dwn = n
      /\ \A x \in 1 .. L : x # n /\ x # cur => u[x] = w[x]
  BY <1>3, <1>4, <1>5 DEF NodeType
<1>9. ChildAdded(node, u, T, cur, n)
  <2>1. w[cur] = node[cur]
    BY <1>1, <1>4
  <2>2. ASSUME NEW x \in T
        PROVE  /\ u[x].upn = node[x].upn /\ u[x].nxt = node[x].nxt
               /\ u[x].dwn = IF x = cur THEN n ELSE node[x].dwn
    <3>1. x \in 1 .. L /\ x # n /\ w[x] = node[x]
      BY <1>1, <1>4
    <3> QED
      BY <1>8, <3>1
  <2> QED
    BY <1>4, <1>7, <1>8, <2>1, <2>2 DEF ChildAdded
<1>10. Tree(u, fst, S, q)
  BY <1>1, <1>9, ChildTree
<1>11. FreeList(u, NewLst, G)
  <2>1. \A f \in G : u[f].dat = w[f].dat /\ u[f].nxt = w[f].nxt
    BY <1>1, <1>4, <1>8
  <2>2. Len(u) \in Nat /\ Len(w) <= Len(u)
    BY <1>4, <1>7 DEF L
  <2> QED
    BY <1>4, <2>1, <2>2, FreeSame
<1>12. NewLst \in 0 .. L /\ fst \in 0 .. L /\ n \in 0 .. L /\ lost \subseteq 1 .. L
  <2>1. NewLst \in G \cup {0}
    BY <1>4 DEF FreeList
  <2> QED
    BY <1>1, <1>4, <2>1
<1>13. TypeOK'
  BY <1>3, <1>4, <1>7, <1>12 DEF TypeOK, NodeType, NodeIds, NodeOrNone, u
<1>14. /\ S \cup G \cup lost = 1 .. L /\ S \cap G = {} /\ n \in S
       /\ (S \cup G) \cap lost = {}
  BY <1>4
<1> HIDE DEF S, q
<1>15. Shape(u, fst, NewLst, n, S, G, q, lost)
  BY <1>7, <1>10, <1>11, <1>14 DEF Shape
<1>16. \A x \in T : u[x].dat = node[x].dat
  <2>1. u[cur].dat = w[cur].dat
    BY <1>3, <1>4, <1>5 DEF NodeType
  <2>2. ASSUME NEW x \in T PROVE u[x].dat = node[x].dat
    <3>1. x \in 1 .. L /\ x # n /\ w[x] = node[x]
      BY <1>1, <1>4
    <3>2. x # cur => u[x] = w[x]
      BY <1>8, <3>1
    <3> QED
      BY <2>1, <3>1, <3>2
  <2> QED
    BY <2>2
<1>17. n \in 1 .. MaxNodes /\ fst # 0
  <2>1. n \in 1 .. L /\ L <= MaxNodes /\ L \in Nat /\ MaxNodes \in Nat
    BY <1>4, ArbAssumption
  <2>2. fst \in 1 .. Len(node)
    BY <1>1
  <2> QED
    BY <2>1, <2>2
<1> QED
  BY <1>3, <1>9, <1>13, <1>15, <1>16, <1>17 DEF u, n, G, S, q

(* The first node.                                                         *)
LEMMA RootMakes ==
  ASSUME TypeOK, NoNodes, AddNode
  PROVE  /\ TypeOK' /\ fst' = 1 /\ cur' = 1 /\ 1 \in 1 .. MaxNodes
         /\ node'[1].dwn = 0 /\ Len(node') = 1
         /\ \E r : Shape(node', fst', lst', cur', {1}, {}, r, lost')
<1> DEFINE e == [upn |-> 0, dwn |-> 0, nxt |-> 0, dat |-> 0]
           r == [x \in {1} |-> 0]
<1>0. MaxNodes \in Nat \ {0}
  BY ArbAssumption
<1>1. node = << >> /\ Len(node) = 0 /\ fst = 0 /\ lst = 0 /\ cur = 0 /\ lost = {}
  BY DEF NoNodes
<1>2. NewNode = 1 /\ NewLst = 0 /\ WithNew = << e >>
  BY <1>0, <1>1 DEF NewNode, NewLst, WithNew, FromFreeList
<1>3. fst' = 1 /\ lst' = 0 /\ cur' = 1 /\ node' = << e >> /\ lost' = {}
  BY <1>1, <1>2 DEF AddNode
<1>4. Len(node') = 1 /\ node'[1] = e /\ node' \in Seq(NodeType(1))
  BY <1>0, <1>3 DEF NodeType
<1>5. TypeOK'
  BY <1>0, <1>3, <1>4 DEF TypeOK, NodeType, NodeIds, NodeOrNone
<1>6. Tree(node', 1, {1}, r)
  BY <1>4 DEF Tree
<1>7. FreeList(node', 0, {})
  BY <1>4 DEF FreeList
<1>8. 1 \in 1 .. MaxNodes
  BY <1>0
<1> HIDE DEF r
<1>9. Shape(node', fst', lst', cur', {1}, {}, r, lost')
  BY <1>3, <1>4, <1>6, <1>7 DEF Shape
<1> QED
  BY <1>3, <1>4, <1>5, <1>8, <1>9

(* The root is made, or a first child.                                     *)
LEMMA AddNodeStep ==
  ASSUME Careful, IInv, AddNode
  PROVE  IInv'
<1>0. MaxNodes \in Nat \ {0} /\ TypeOK
  BY ArbAssumption DEF IInv
<1>1. CASE NoNodes
  BY <1>0, <1>1, RootMakes DEF IInv
<1>2. ASSUME NEW T, NEW F, NEW r, Shape(node, fst, lst, cur, T, F, r, lost)
      PROVE  IInv'
  BY <1>0, <1>2, AddChildMakes DEF IInv
<1> QED
  BY <1>1, <1>2 DEF IInv

(* The current node gets a new right neighbour.                            *)
LEMMA AddSiblingMakes ==
  ASSUME Careful, TypeOK, AddSibling, NEW T, NEW F, NEW r, Shape(node, fst, lst, cur, T, F, r, lost)
  PROVE  LET n == NewNode IN
         /\ TypeOK' /\ fst' = fst /\ cur' = n /\ cur # fst /\ n \in 1 .. MaxNodes
         /\ SiblingAdded(node, node', T, cur, n)
         /\ \A x \in T : node'[x].dat = node[x].dat
         /\ Shape(node', fst', lst', cur', T \cup {n}, F \ {n}, Between(r, T, cur, n), lost')
<1>0. cur # fst
  BY DEF AddSibling
<1> DEFINE w == WithNew
           n == NewNode
           L == Len(w)
           G == F \ {n}
           u == node'
           S == T \cup {n}
           q == Between(r, T, cur, n)
<1>2. Tree(node, fst, T, r) /\ cur \in T /\ T \subseteq 1 .. Len(node) /\ Len(node) \in Nat /\ fst \in T
  BY DEF Shape, Tree
<1>3. NewReady(w, n, NewLst, T, G)
  BY NewNodeIsReady DEF AddSibling
<1>4. /\ lst' = NewLst /\ cur' = n /\ fst' = fst /\ lost' = lost
      /\ u = [w EXCEPT ![n].upn = w[cur].upn, ![n].nxt = w[cur].nxt, ![cur].nxt = n]
  BY DEF AddSibling
<1> HIDE DEF w, n, L, G, u
<1>5. /\ w \in Seq(NodeType(L)) /\ L \in Nat /\ Len(node) <= L /\ L <= MaxNodes
      /\ n \in 1 .. L /\ n \notin T /\ w[n].dwn = 0
      /\ FreeList(w, NewLst, G) /\ n \notin G /\ T \cap G = {}
      /\ T \cup {n} \cup G \cup lost = 1 .. L /\ (T \cup {n} \cup G) \cap lost = {}
      /\ \A x \in 1 .. Len(node) : w[x] = node[x]
  BY <1>3 DEF NewReady, L
<1>6. w \in [1 .. L -> NodeType(L)] /\ cur \in 1 .. L /\ cur # n
  BY <1>2, <1>5, LenProperties DEF L
<1>7. u \in [1 .. L -> NodeType(L)]
  <2> DEFINE a == [w[n] EXCEPT !.upn = w[cur].upn, !.nxt = w[cur].nxt]
             b == [w[cur] EXCEPT !.nxt = n]
  <2>1. w[n] \in NodeType(L) /\ w[cur] \in NodeType(L) /\ n \in 0 .. L
    BY <1>5, <1>6
  <2>2. a \in NodeType(L) /\ b \in NodeType(L)
    BY <2>1 DEF NodeType
  <2>3. u = [[w EXCEPT ![n] = a] EXCEPT ![cur] = b]
    BY <1>4, <1>5, <1>6, <2>1 DEF NodeType
  <2> HIDE DEF a, b
  <2> QED
    BY <1>6, <2>2, <2>3
<1>8. u \in Seq(NodeType(L)) /\ Len(u) = L
  BY <1>5, <1>7, FunctionIsSeq
<1>9. /\ u[n].upn = w[cur].upn /\ u[n].nxt = w[cur].nxt /\ u[n].dwn = 0
      /\ u[cur].upn = w[cur].upn /\ u[cur].dwn = w[cur].dwn /\ u[cur].nxt = n
      /\ \A x \in 1 .. L : x # n /\ x # cur => u[x] = w[x]
  <2>1. /\ w \in [1 .. L -> NodeType(L)] /\ n \in 1 .. L /\ cur \in 1 .. L /\ cur # n
        /\ w[n].dwn = 0
        /\ u = [w EXCEPT ![n].upn = w[cur].upn, ![n].nxt = w[cur].nxt, ![cur].nxt = n]
    BY <1>4, <1>5, <1>6
  <2> QED
    BY <2>1 DEF NodeType
<1>10. SiblingAdded(node, u, T, cur, n)
  <2>1. w[cur] = node[cur]
    BY <1>2, <1>5
  <2>2. ASSUME NEW x \in T
        PROVE  /\ u[x].upn = node[x].upn /\ u[x].dwn = node[x].dwn
               /\ u[x].nxt = IF x = cur THEN n ELSE node[x].nxt
    <3>1. x \in 1 .. L /\ x # n /\ w[x] = node[x]
      BY <1>2, <1>5
    <3> QED
      BY <1>9, <3>1
  <2> QED
    BY <1>5, <1>8, <1>9, <2>1, <2>2 DEF SiblingAdded
<1>11. Tree(u, fst, S, q)
  BY <1>0, <1>2, <1>10, SiblingTree
<1>12. FreeList(u, NewLst, G)
  <2>1. \A f \in G : u[f].dat = w[f].dat /\ u[f].nxt = w[f].nxt
    BY <1>2, <1>5, <1>9
  <2>2. Len(u) \in Nat /\ Len(w) <= Len(u)
    BY <1>5, <1>8 DEF L
  <2> QED
    BY <1>5, <2>1, <2>2, FreeSame
<1>13. NewLst \in 0 .. L /\ fst \in 0 .. L /\ n \in 0 .. L /\ lost \subseteq 1 .. L
  <2>1. NewLst \in G \cup {0}
    BY <1>5 DEF FreeList
  <2> QED
    BY <1>2, <1>5, <2>1
<1>14. TypeOK'
  BY <1>4, <1>5, <1>8, <1>13 DEF TypeOK, NodeType, NodeIds, NodeOrNone, u
<1>15. /\ S \cup G \cup lost = 1 .. L /\ S \cap G = {} /\ n \in S
       /\ (S \cup G) \cap lost = {}
  BY <1>5
<1> HIDE DEF S, q
<1>16. Shape(u, fst, NewLst, n, S, G, q, lost)
  BY <1>8, <1>11, <1>12, <1>15 DEF Shape
<1>17. \A x \in T : u[x].dat = node[x].dat
  <2>1. u[cur].dat = w[cur].dat
    BY <1>4, <1>5, <1>6 DEF NodeType
  <2>2. ASSUME NEW x \in T PROVE u[x].dat = node[x].dat
    <3>1. x \in 1 .. L /\ x # n /\ w[x] = node[x]
      BY <1>2, <1>5
    <3>2. x # cur => u[x] = w[x]
      BY <1>9, <3>1
    <3> QED
      BY <2>1, <3>1, <3>2
  <2> QED
    BY <2>2
<1>18. n \in 1 .. MaxNodes
  <2>1. n \in 1 .. L /\ L <= MaxNodes /\ L \in Nat /\ MaxNodes \in Nat
    BY <1>5, ArbAssumption
  <2> QED
    BY <2>1
<1> QED
  BY <1>0, <1>4, <1>10, <1>14, <1>16, <1>17, <1>18 DEF u, n, G, S, q

LEMMA AddSiblingStep ==
  ASSUME Careful, IInv, AddSibling
  PROVE  IInv'
<1>1. TypeOK /\ fst # 0
  BY DEF IInv, AddSibling
<1>2. PICK T, F, r : Shape(node, fst, lst, cur, T, F, r, lost)
  BY <1>1 DEF IInv, NoNodes
<1> QED
  BY <1>1, <1>2, AddSiblingMakes DEF IInv

(* A subtree is cut off; its nodes become free, but for those passed over  *)
(* and the ones below them.                                                *)
LEMMA PruneMakes ==
  ASSUME TypeOK, PruneSubtree, NEW T, NEW F, NEW r, Shape(node, fst, lst, cur, T, F, r, lost)
  PROVE  LET D == Below(node, T, {cur}) IN
         /\ TypeOK' /\ fst' = fst /\ cur' = node[cur].upn /\ cur # fst
         /\ CutOff(node, node', T \ D, cur)
         /\ \A x \in T \ D : node'[x].dat = node[x].dat
         /\ Len(node') = Len(node)
         /\ \E G : Shape(node', fst', lst', cur', T \ D, G, r, lost')
<1>0. cur # fst
  BY DEF PruneSubtree
<1> DEFINE N == Len(node)
           D == Below(node, T, {cur})
           u == Detached
           S == T \ D
<1>20. TreeNodes = T
  BY TreeNodesIs DEF Shape
<1>21. PICK no : /\ node' = Freed(no).node /\ lst' = Freed(no).lst
                 /\ lost' = lost \cup Below(node, T, Freed(no).passed)
  BY <1>20 DEF PruneSubtree
<1> DEFINE s0 == LoopStart(no)
           f == CHOOSE g : AreTurns(g, s0, no, N)
           s == f[N]
           B == Below(node, T, s.passed)
           G == F \cup (D \ B)
<1>2. /\ Tree(node, fst, T, r) /\ FreeList(node, lst, F) /\ cur \in T
      /\ T \cup F \cup lost = 1 .. N /\ T \cap F = {} /\ N \in Nat /\ fst \in T
      /\ (T \cup F) \cap lost = {}
  BY DEF Shape, Tree
<1>3. N <= MaxNodes /\ MaxNodes \in Nat
  BY ArbAssumption DEF TypeOK
<1>4. Pruned(node, fst, T, F, cur, r)
  BY <1>0, <1>2, <1>3 DEF Pruned
<1>5. /\ D \subseteq T /\ cur \in D /\ fst \notin D /\ node[cur].upn \in T \ D
      /\ \A y \in D : y # cur => node[y].upn \in D
  BY <1>0, <1>2, BelowIs
<1>6. /\ CutOff(node, u, S, cur)
      /\ u \in Seq(NodeType(N)) /\ Len(u) = N
      /\ \A x \in D : u[x].dwn = node[x].dwn /\ u[x].nxt = node[x].nxt
      /\ \A x \in F : u[x] = node[x]
      /\ \A x \in T : u[x].dat = node[x].dat
  BY <1>0, DetachedIs
<1>7. AreTurns(f, s0, no, N)
  <2>1. N \in Nat
    BY <1>2
  <2> HIDE DEF s0, N
  <2>2. \E g : AreTurns(g, s0, no, N)
    BY <2>1, TurnsExist
  <2> QED
    BY <2>2
<1>8. Freed(no) = s
  BY DEF Freed, TurnAfter, AreTurns
<1>9. /\ node' = s.node /\ lst' = s.lst /\ cur' = node[cur].upn /\ fst' = fst
      /\ lost' = lost \cup B
  BY <1>8, <1>21 DEF PruneSubtree
<1> HIDE DEF f
<1>10. Turning(node, u, T, F, cur, s0, D)
  <2>1. FreeList(u, lst, F \cup (D \ D))
    <3>1. FreeList(u, lst, F)
      BY <1>2, <1>6, FreeSame
    <3>2. F \cup (D \ D) = F
      OBVIOUS
    <3> QED
      BY <3>1, <3>2
  <2>2. << cur >> \in Seq(D) /\ Distinct(<< cur >>) /\ Range(<< cur >>) = {cur}
    BY <1>5 DEF Distinct, Range
  <2>3. << >> \in Seq(D) /\ Distinct(<< >>) /\ Range(<< >>) = {}
    BY DEF Distinct, Range
  <2>4. s0.node = u /\ s0.lst = lst
    BY DEF LoopStart
  <2>5. Waiting(s0, D) /\ Waits(s0) = {cur}
    <3>1. CASE cur \in no
      <4>1. s0.que = << >> /\ s0.passed = {cur}
        BY <3>1 DEF LoopStart
      <4> HIDE DEF s0
      <4> QED
        BY <1>5, <2>3, <4>1 DEF Waiting, Waits
    <3>2. CASE cur \notin no
      <4>1. s0.que = << cur >> /\ s0.passed = {}
        BY <3>2 DEF LoopStart
      <4> HIDE DEF s0
      <4> QED
        BY <1>5, <2>2, <4>1 DEF Waiting, Waits
    <3> QED
      BY <3>1, <3>2
  <2>6. \A x \in D : x \in Waits(s0) <=> x = cur \/ node[x].upn \notin D
    BY <1>5, <2>5
  <2> HIDE DEF s0, u
  <2> QED
    BY <1>6, <2>1, <2>4, <2>5, <2>6 DEF Turning
<1> HIDE DEF u, s0
<1>11. Turning(node, u, T, F, cur, s, B)
  <2> HIDE DEF D
  <2> USE DEF D
  <2>1. /\ Turning(node, u, T, F, cur, f[Len(node)], Below(node, T, f[Len(node)].passed))
        /\ f[Len(node)].que = << >>
    BY <1>4, <1>7, <1>10, TurnsEnd
  <2> QED
    BY <2>1
<1> HIDE DEF s
<1>12. /\ s.node \in Seq(NodeType(N)) /\ Len(s.node) = N
       /\ \A x \in S : s.node[x] = u[x]
       /\ FreeList(s.node, s.lst, G)
       /\ B \subseteq D
  BY <1>11 DEF Turning
<1> HIDE DEF B
<1>13. Tree(s.node, fst, S, r)
  <2>1. CutOff(node, s.node, S, cur)
    BY <1>6, <1>12 DEF CutOff
  <2> QED
    BY <1>0, <1>2, <1>12, <2>1, CutTree
<1>14. /\ S \cup G \cup (lost \cup B) = 1 .. N /\ S \cap G = {}
       /\ (S \cup G) \cap (lost \cup B) = {}
  BY <1>2, <1>5, <1>12
<1>15. node[cur].upn \in S
  BY <1>5
<1>19. CutOff(node, s.node, S, cur) /\ \A x \in S : s.node[x].dat = node[x].dat
  BY <1>6, <1>12 DEF CutOff
<1> HIDE DEF D, S, N, G
<1>16. Shape(s.node, fst, s.lst, node[cur].upn, S, G, r, lost \cup B)
  <2>1. /\ FreeList(s.node, s.lst, G) /\ Len(s.node) = N
        /\ Tree(s.node, fst, S, r) /\ node[cur].upn \in S
    BY <1>12, <1>13, <1>15
  <2> QED
    BY <1>14, <2>1 DEF Shape
<1>17. /\ fst \in 0 .. N /\ s.lst \in 0 .. N /\ node[cur].upn \in 0 .. N
       /\ lost \cup B \subseteq 1 .. N
  <2>1. s.lst \in G \cup {0}
    BY <1>12 DEF FreeList
  <2> QED
    BY <1>2, <1>14, <1>15, <2>1
<1>18. TypeOK'
  BY <1>3, <1>9, <1>12, <1>17 DEF TypeOK, NodeType, NodeIds, NodeOrNone
<1>22. Len(node') = Len(node)
  BY <1>9, <1>12 DEF N
<1>23. Shape(node', fst', lst', cur', S, G, r, lost')
  BY <1>9, <1>16
<1>24. CutOff(node, node', S, cur) /\ \A x \in S : node'[x].dat = node[x].dat
  BY <1>9, <1>19
<1> QED
  BY <1>0, <1>9, <1>18, <1>22, <1>23, <1>24 DEF D, S

LEMMA PruneStep ==
  ASSUME IInv, Prune
  PROVE  IInv'
<1>1. CASE PruneAll
  <2>1. /\ node' = << >> /\ fst' = 0 /\ lst' = 0 /\ cur' = 0 /\ Len(node') = 0
        /\ lost' = {}
    BY <1>1 DEF PruneAll
  <2>2. TypeOK'
    BY <2>1, ArbAssumption DEF TypeOK, NodeIds, NodeOrNone
  <2> QED
    BY <2>1, <2>2 DEF IInv, NoNodes
<1>2. CASE PruneSubtree
  <2>1. TypeOK /\ fst # 0
    BY <1>2 DEF IInv, PruneSubtree
  <2>2. PICK T, F, r : Shape(node, fst, lst, cur, T, F, r, lost)
    BY <2>1 DEF IInv, NoNodes
  <2> QED
    BY <1>2, <2>1, <2>2, PruneMakes DEF IInv
<1> QED
  BY <1>1, <1>2 DEF Prune

(* Data do not matter to the tree.                                         *)
LEMMA TreeSame ==
  ASSUME NEW t, NEW root, NEW T, NEW r, Tree(t, root, T, r), NEW u, Len(u) = Len(t),
         \A x \in T : u[x].upn = t[x].upn /\ u[x].dwn = t[x].dwn /\ u[x].nxt = t[x].nxt
  PROVE  Tree(u, root, T, r)
<1>1. /\ T \subseteq 1 .. Len(t) /\ Len(t) \in Nat
      /\ root \in T /\ t[root].upn = 0 /\ t[root].nxt = 0
      /\ \A x \in T : r[x] \in Nat
      /\ \A x \in T : t[x].dwn \in T \cup {0} /\ t[x].nxt \in T \cup {0}
      /\ \A x \in T : t[x].dwn # 0 => t[t[x].dwn].upn = x
      /\ \A x \in T : t[x].nxt # 0 => t[t[x].nxt].upn = t[x].upn /\ r[x] < r[t[x].nxt]
      /\ \A x \in T \ {root} : t[x].upn \in T /\ r[t[x].upn] < r[x]
      /\ \A x \in T \ {root} : \E p \in T : t[p].dwn = x \/ t[p].nxt = x
      /\ \A x, y \in T : t[x].nxt # 0 /\ t[x].nxt = t[y].nxt => x = y
      /\ \A x, y \in T : t[x].dwn # 0 => t[x].dwn # t[y].nxt
  BY DEF Tree
<1>2. T \subseteq 1 .. Len(u) /\ Len(u) \in Nat /\ u[root].upn = 0 /\ u[root].nxt = 0
  BY <1>1
<1>3. \A x \in T : u[x].dwn \in T \cup {0} /\ u[x].nxt \in T \cup {0}
  BY <1>1
<1>4. ASSUME NEW x \in T, u[x].dwn # 0 PROVE u[u[x].dwn].upn = x
  <2>1. t[x].dwn \in T /\ t[t[x].dwn].upn = x /\ u[x].dwn = t[x].dwn
    BY <1>1, <1>4
  <2> QED
    BY <2>1
<1>5. ASSUME NEW x \in T, u[x].nxt # 0 PROVE u[u[x].nxt].upn = u[x].upn /\ r[x] < r[u[x].nxt]
  <2>1. /\ t[x].nxt \in T /\ u[x].nxt = t[x].nxt
        /\ t[t[x].nxt].upn = t[x].upn /\ r[x] < r[t[x].nxt]
    BY <1>1, <1>5
  <2> QED
    BY <2>1
<1>6. \A x \in T \ {root} : u[x].upn \in T /\ r[u[x].upn] < r[x]
  BY <1>1
<1>7. \A x \in T \ {root} : \E p \in T : u[p].dwn = x \/ u[p].nxt = x
  BY <1>1
<1>8. \A x, y \in T : u[x].nxt # 0 /\ u[x].nxt = u[y].nxt => x = y
  BY <1>1
<1>9. \A x, y \in T : u[x].dwn # 0 => u[x].dwn # u[y].nxt
  BY <1>1
<1> QED
  BY <1>1, <1>2, <1>3, <1>4, <1>5, <1>6, <1>7, <1>8, <1>9 DEF Tree

\* The tree t has other data in node c alone.
DataSet(t, u, T, c, x) ==
  \A z \in T : /\ u[z].upn = t[z].upn /\ u[z].dwn = t[z].dwn /\ u[z].nxt = t[z].nxt
               /\ u[z].dat = IF z = c THEN x ELSE t[z].dat

LEMMA SetDataMakes ==
  ASSUME TypeOK, NEW x \in Data, SetData(x), NEW T, NEW F, NEW r, Shape(node, fst, lst, cur, T, F, r, lost)
  PROVE  /\ TypeOK' /\ fst' = fst /\ cur' = cur
         /\ DataSet(node, node', T, cur, x)
         /\ Shape(node', fst', lst', cur', T, F, r, lost')
<1> DEFINE N == Len(node)
           a == [node[cur] EXCEPT !.dat = x]
           u == node'
<1>2. /\ Tree(node, fst, T, r) /\ FreeList(node, lst, F) /\ cur \in T
      /\ T \cup F \cup lost = 1 .. N /\ T \cap F = {} /\ (T \cup F) \cap lost = {}
  BY DEF Shape
<1>3. node \in Seq(NodeType(N)) /\ N <= MaxNodes /\ lst \in 0 .. N /\ fst \in 0 .. N /\ cur \in 1 .. N
  BY <1>2 DEF TypeOK, NodeType, NodeOrNone
<1>4. N \in Nat /\ node \in [1 .. N -> NodeType(N)] /\ node[cur] \in NodeType(N)
  BY <1>3, LenProperties, ElementOfSeq
<1>5. a \in NodeType(N) /\ a.dat = x /\ a.upn = node[cur].upn /\ a.dwn = node[cur].dwn /\ a.nxt = node[cur].nxt
  BY <1>4 DEF NodeType
<1>6. /\ u = [node EXCEPT ![cur] = a] /\ fst' = fst /\ lst' = lst /\ cur' = cur
      /\ lost' = lost
  BY <1>4 DEF SetData, NodeType
<1> HIDE DEF a, N, u
<1>7. u \in [1 .. N -> NodeType(N)] /\ u[cur] = a /\ \A z \in 1 .. N : z # cur => u[z] = node[z]
  BY <1>3, <1>4, <1>5, <1>6
<1>8. u \in Seq(NodeType(N)) /\ Len(u) = N
  BY <1>4, <1>7, FunctionIsSeq
<1>9. Tree(u, fst, T, r)
  <2>1. \A z \in T : u[z].upn = node[z].upn /\ u[z].dwn = node[z].dwn /\ u[z].nxt = node[z].nxt
    BY <1>2, <1>5, <1>7
  <2>2. Len(u) = Len(node)
    BY <1>8 DEF N
  <2> QED
    BY <1>2, <2>1, <2>2, TreeSame
<1>10. FreeList(u, lst, F)
  <2>1. \A z \in F : u[z].dat = node[z].dat /\ u[z].nxt = node[z].nxt
    BY <1>2, <1>7
  <2>2. Len(u) = Len(node) /\ Len(u) \in Nat /\ Len(node) <= Len(u)
    BY <1>4, <1>8 DEF N
  <2> QED
    BY <1>2, <2>1, <2>2, FreeSame
<1>11. Shape(u, fst, lst, cur, T, F, r, lost)
  BY <1>2, <1>8, <1>9, <1>10 DEF Shape
<1>12. TypeOK'
  <2>1. Len(u) = N /\ u \in Seq(NodeType(N)) /\ N <= MaxNodes
    BY <1>3, <1>8
  <2>2. fst' \in 0 .. N /\ lst' \in 0 .. N /\ cur' \in 0 .. N /\ lost' \subseteq 1 .. N
    BY <1>2, <1>3, <1>4, <1>6
  <2> QED
    BY <2>1, <2>2 DEF TypeOK, NodeType, NodeIds, NodeOrNone, u
<1>13. DataSet(node, u, T, cur, x)
  BY <1>2, <1>5, <1>7 DEF DataSet
<1> QED
  BY <1>6, <1>11, <1>12, <1>13 DEF u

LEMMA SetDataStep ==
  ASSUME IInv, NEW x \in Data, SetData(x)
  PROVE  IInv'
<1>1. TypeOK /\ cur # 0
  BY DEF IInv, SetData
<1>2. PICK T, F, r : Shape(node, fst, lst, cur, T, F, r, lost)
  BY <1>1 DEF IInv, NoNodes
<1> QED
  BY <1>1, <1>2, SetDataMakes DEF IInv

\* The cursor goes to a node of the tree.
Moves == UNCHANGED << node, fst, lst, lost >> /\ cur' \in TreeNodes

LEMMA MovesStep ==
  ASSUME IInv, fst # 0, Moves
  PROVE  IInv'
<1>1. PICK T, F, r : Shape(node, fst, lst, cur, T, F, r, lost)
  BY DEF IInv, NoNodes
<1>2. node' = node /\ fst' = fst /\ lst' = lst /\ lost' = lost /\ cur' \in T
  <2>1. TreeNodes = T
    BY <1>1, TreeNodesIs DEF Shape
  <2> QED
    BY <2>1 DEF Moves
<1>3. Shape(node', fst', lst', cur', T, F, r, lost')
  BY <1>1, <1>2 DEF Shape
<1>4. T \subseteq NodeOrNone
  BY <1>1 DEF Shape, NodeOrNone
<1>5. TypeOK'
  BY <1>2, <1>4 DEF IInv, TypeOK, NodeIds, NodeOrNone
<1> QED
  BY <1>3, <1>5 DEF IInv

LEMMA NothingInNothing ==
  ASSUME NoNodes
  PROVE  TreeNodes = {} /\ FreeNodes = {}
<1>0. node = << >> /\ Len(node) = 0 /\ fst = 0 /\ lst = 0
  BY DEF NoNodes
<1>1. TreeNodes = {}
  <2> DEFINE f == CHOOSE g : g = [d \in 0 .. Len(node) |-> WithinAfter(g, d)]
  <2>1. TreeNodes = f[Len(node)]
    BY DEF TreeNodes, WithinAfter, Widen
  <2>2. f = [d \in 0 .. Len(node) |-> WithinAfter(f, d)]
    BY <1>0, WithinExists
  <2> HIDE DEF f
  <2>3. f[0] = WithinAfter(f, 0)
    BY <1>0, <2>2
  <2> QED
    BY <1>0, <2>1, <2>3 DEF WithinAfter
<1>2. FreeNodes = {}
  <2>1. FreeList(node, lst, {})
    BY <1>0 DEF FreeList
  <2>2. Lists(node, lst, {}, Chain(node, lst))
    BY <2>1, FreeLists
  <2> QED
    BY <2>2 DEF Lists, FreeNodes
<1> QED
  BY <1>1, <1>2

(* Every move leads to a node of the tree, or nowhere.                     *)
LEMMA MoveIsInTree ==
  ASSUME IInv, Root \/ FirstChild \/ NextSibling \/ Parent \/ \E n \in TreeNodes : Current(n)
  PROVE  UNCHANGED vars \/ (fst # 0 /\ Moves)
<1>1. CASE NoNodes
  <2>1. TreeNodes = {}
    BY <1>1, NothingInNothing
  <2> QED
    BY <1>1, <2>1 DEF NoNodes, Root, FirstChild, NextSibling, Parent
<1>2. ASSUME NEW T, NEW F, NEW r, Shape(node, fst, lst, cur, T, F, r, lost)
      PROVE  UNCHANGED vars \/ (fst # 0 /\ Moves)
  <2>1. /\ Tree(node, fst, T, r) /\ cur \in T /\ fst \in T /\ 0 \notin T
        /\ node[cur].dwn \in T \cup {0} /\ node[cur].nxt \in T \cup {0}
        /\ cur # fst => node[cur].upn \in T
        /\ cur = fst => node[cur].upn = 0
    BY <1>2 DEF Shape, Tree
  <2>2. TreeNodes = T
    BY <2>1, TreeNodesIs
  <2>3. fst # 0
    BY <2>1
  <2> QED
    BY <2>1, <2>2, <2>3
    DEF Root, FirstChild, NextSibling, Parent, Current, MoveTo, Moves, vars
<1> QED
  BY <1>1, <1>2 DEF IInv

(* Under careful callers the tree and the free list are all of the nodes,  *)
(* and share none (utl_vec.c:1405-1544).                                   *)
THEOREM TreeInvariant ==
  ASSUME Careful
  PROVE  Spec => []IInv
<1>1. Init => IInv
  BY ArbAssumption DEF Init, IInv, NoNodes, TypeOK, NodeIds, NodeOrNone
<1>2. ASSUME IInv, [Next]_vars PROVE IInv'
  <2> USE IInv
  <2>1. CASE AddNode
    BY <2>1, AddNodeStep
  <2>2. CASE AddSibling
    BY <2>2, AddSiblingStep
  <2>3. CASE Prune
    BY <2>3, PruneStep
  <2>4. CASE \E x \in Data : SetData(x)
    BY <2>4, SetDataStep
  <2>5. CASE UNCHANGED vars
    BY <2>5 DEF vars, IInv, NoNodes, Shape, TypeOK, NodeIds, NodeOrNone
  <2>6. CASE Root \/ FirstChild \/ NextSibling \/ Parent \/ \E n \in TreeNodes : Current(n)
    BY <2>5, <2>6, MoveIsInTree, MovesStep
  <2> QED
    BY <1>2, <2>1, <2>2, <2>3, <2>4, <2>5, <2>6 DEF Next
<1> QED
  BY <1>1, <1>2, PTL DEF Spec

-----------------------------------------------------------------------------
(* What the invariant says of the nodes. *)

LEMMA ShapeSays ==
  ASSUME NEW T, NEW F, NEW r, Shape(node, fst, lst, cur, T, F, r, lost)
  PROVE  TreeNodes = T /\ FreeNodes = F
<1>1. TreeNodes = T
  BY TreeNodesIs DEF Shape
<1>2. Lists(node, lst, F, Chain(node, lst))
  BY FreeLists DEF Shape
<1> QED
  BY <1>1, <1>2 DEF Lists, FreeNodes

LEMMA InvGivesTreeOrFree ==
  ASSUME IInv
  PROVE  TreeOrFree
<1>1. CASE NoNodes
  BY <1>1, NothingInNothing DEF IInv, TreeOrFree, NoNodes, NodeIds
<1>2. ASSUME NEW T, NEW F, NEW r, Shape(node, fst, lst, cur, T, F, r, lost)
      PROVE  TreeOrFree
  BY <1>2, ShapeSays DEF IInv, TreeOrFree, Shape, NodeIds
<1> QED
  BY <1>1, <1>2 DEF IInv

LEMMA InvGivesLinksAgree ==
  ASSUME IInv
  PROVE  LinksAgree
<1>1. CASE NoNodes
  BY <1>1, NothingInNothing DEF LinksAgree, NoNodes
<1>2. ASSUME NEW T, NEW F, NEW r, Shape(node, fst, lst, cur, T, F, r, lost)
      PROVE  LinksAgree
  <2>1. Tree(node, fst, T, r) /\ node[fst].upn = 0 /\ TreeNodes = T
    BY <1>2, ShapeSays DEF Shape, Tree
  <2>2. ASSUME NEW p \in T
        PROVE  /\ Ends(node, node[p].dwn)
               /\ \A n \in Range(Chain(node, node[p].dwn)) : node[n].upn = p
    <3> DEFINE c == Chain(node, node[p].dwn)
    <3>1. Lists(node, node[p].dwn, Kids(node, T, p), c)
      BY <2>1, KidLists
    <3> HIDE DEF c
    <3>2. Len(c) <= Len(node) /\ Range(c) = Kids(node, T, p)
      BY <3>1 DEF Lists
    <3>3. \A n \in Range(c) : node[n].upn = p
      BY <3>2 DEF Kids
    <3> QED
      BY <3>2, <3>3 DEF Ends, c
  <2> QED
    BY <2>1, <2>2 DEF LinksAgree
<1> QED
  BY <1>1, <1>2 DEF IInv

LEMMA InvGivesCount ==
  ASSUME IInv
  PROVE  CountIsTreeAndLost
<1>1. CASE NoNodes
  BY <1>1, NothingInNothing, FS_EmptySet DEF CountIsTreeAndLost, ArbCnt, NoNodes
<1>2. ASSUME NEW T, NEW F, NEW r, Shape(node, fst, lst, cur, T, F, r, lost)
      PROVE  CountIsTreeAndLost
  <2> DEFINE N == Len(node)
             a == Cardinality(T)
             b == Cardinality(F)
             x == Cardinality(lost)
  <2>1. /\ N \in Nat /\ T \cup F \cup lost = 1 .. N /\ T \cap F = {}
        /\ (T \cup F) \cap lost = {} /\ TreeNodes = T
        /\ (lst = 0 => F = {}) /\ (lst # 0 => node[lst].dat = Cardinality(F))
    BY <1>2, ShapeSays DEF Shape, Tree, FreeList
  <2> HIDE DEF N
  <2>2. IsFiniteSet(1 .. N) /\ Cardinality(1 .. N) = N
    <3>1. N \in Nat
      BY <2>1
    <3> QED
      BY <3>1, FS_Interval
  <2>3. /\ IsFiniteSet(T) /\ IsFiniteSet(F) /\ IsFiniteSet(lost) /\ IsFiniteSet(T \cup F)
        /\ a \in Nat /\ b \in Nat /\ x \in Nat
    <3>1. /\ T \in SUBSET (1 .. N) /\ F \in SUBSET (1 .. N) /\ lost \in SUBSET (1 .. N)
          /\ T \cup F \in SUBSET (1 .. N)
      BY <2>1
    <3> QED
      BY <2>2, <3>1, FS_Subset, FS_CardinalityType
  <2>4. Cardinality(T \cup F) = a + b - Cardinality(T \cap F)
    BY <2>3, FS_Union
  <2>5. Cardinality({}) = 0
    BY FS_EmptySet
  <2>6. Cardinality((T \cup F) \cup lost)
          = Cardinality(T \cup F) + x - Cardinality((T \cup F) \cap lost)
    <3> DEFINE M == T \cup F
    <3>1. IsFiniteSet(M) /\ IsFiniteSet(lost)
      BY <2>3
    <3> HIDE DEF M
    <3>2. Cardinality(M \cup lost) = Cardinality(M) + x - Cardinality(M \cap lost)
      BY <3>1, FS_Union
    <3> QED
      BY <3>2 DEF M
  <2>7. N = a + b + x
    <3>1. /\ Cardinality((T \cup F) \cup lost) = N /\ Cardinality(T \cap F) = 0
          /\ Cardinality((T \cup F) \cap lost) = 0
      BY <2>1, <2>2, <2>5
    <3> HIDE DEF a, b, x
    <3>2. Cardinality(T \cup F) = a + b
      BY <2>3, <2>4, <3>1
    <3> QED
      BY <2>3, <2>6, <3>1, <3>2
  <2>8. b = IF lst = 0 THEN 0 ELSE node[lst].dat
    BY <2>1, <2>5
  <2>9. ArbCnt = N - b
    <3> HIDE DEF b
    <3> QED
      BY <2>8 DEF ArbCnt, N
  <2>10. Cardinality(TreeNodes) = a
    BY <2>1
  <2> HIDE DEF a, b
  <2> QED
    BY <2>3, <2>7, <2>9, <2>10 DEF CountIsTreeAndLost
<1> QED
  BY <1>1, <1>2 DEF IInv

LEMMA InvGivesDetach ==
  ASSUME IInv
  PROVE  DetachAssertion
<1>1. SUFFICES ASSUME cur # 0, cur # fst PROVE DetachFinds
  BY DEF DetachAssertion
<1>2. PICK T, F, r : Shape(node, fst, lst, cur, T, F, r, lost)
  BY <1>1 DEF IInv, NoNodes
<1> QED
  BY <1>1, <1>2, DetachedIs DEF IInv

(* Every node has its place: none is handed out while it is in the tree,   *)
(* and only those a prune had no memory for are in neither tree nor free   *)
(* list (utl_arb_newnode, utl_arb_prune).                                  *)
THEOREM EveryNodeHasItsPlace ==
  ASSUME Careful
  PROVE  Spec => []TreeOrFree
BY TreeInvariant, InvGivesTreeOrFree, PTL

(* The links of a node to its parent, children and siblings agree.         *)
THEOREM LinksStayRight ==
  ASSUME Careful
  PROVE  Spec => []LinksAgree
BY TreeInvariant, InvGivesLinksAgree, PTL

(* arbcount is off by the nodes that were lost, and by no other number.    *)
THEOREM CountIsOffByTheLost ==
  ASSUME Careful
  PROVE  Spec => []CountIsTreeAndLost
BY TreeInvariant, InvGivesCount, PTL

(* The logassert of utl_arb_detach never fails (utl_vec.c:1477).           *)
THEOREM DetachNeverFails ==
  ASSUME Careful
  PROVE  Spec => []DetachAssertion
BY TreeInvariant, InvGivesDetach, PTL

-----------------------------------------------------------------------------
(* The tree implements ArbTree: what each call makes of the child lists.   *)

\* c follows the links from s on to their end, inside C.
Whole(t, s, C, c) == Follows(t, s, C, c) /\ (s # 0 => t[c[Len(c)]].nxt = 0)

\* There is one way to follow the links.
LEMMA WholeUnique ==
  ASSUME NEW t, NEW s, NEW C, 0 \notin C, NEW c, NEW d, Whole(t, s, C, c), Whole(t, s, C, d),
         Len(c) <= Len(d)
  PROVE  c = d
<1> DEFINE Bad == {i \in Nat : i \in 1 .. Len(c) /\ c[i] # d[i]}
<1>0. /\ c \in Seq(C) /\ d \in Seq(C) /\ Len(c) \in Nat /\ Len(d) \in Nat
      /\ \A i \in 1 .. Len(c) : c[i] \in C
      /\ \A i \in 1 .. Len(d) : d[i] \in C
      /\ \A i \in 1 .. Len(c) - 1 : t[c[i]].nxt = c[i + 1]
      /\ \A i \in 1 .. Len(d) - 1 : t[d[i]].nxt = d[i + 1]
  BY LenProperties, ElementOfSeq DEF Whole, Follows
<1>1. CASE s = 0
  BY <1>1 DEF Whole, Follows
<1>2. CASE s # 0
  <2>1. c[1] = s /\ d[1] = s /\ c # << >> /\ t[c[Len(c)]].nxt = 0
    BY <1>2 DEF Whole, Follows
  <2>2. Len(c) >= 1
    BY <1>0, <2>1, EmptySeq
  <2>3. Bad = {}
    <3> SUFFICES ASSUME Bad # {} PROVE FALSE
      OBVIOUS
    <3>1. Bad \subseteq Nat
      OBVIOUS
    <3>2. PICK i \in Bad : \A j \in Bad : i <= j
      <4> HIDE DEF Bad
      <4> QED
        BY <3>1, LeastNatural
    <3>3. i \in 1 .. Len(c) /\ i # 1 /\ c[i] # d[i]
      BY <2>1, <3>2
    <3>4. i - 1 \in 1 .. Len(c) - 1 /\ i - 1 \in 1 .. Len(d) - 1 /\ i - 1 \in Nat /\ i - 1 + 1 = i
      BY <1>0, <3>3
    <3>5. c[i - 1] = d[i - 1]
      <4>1. i - 1 \notin Bad
        BY <3>2, <3>4
      <4> QED
        BY <1>0, <3>4, <4>1
    <3>6. t[c[i - 1]].nxt = c[i] /\ t[d[i - 1]].nxt = d[i]
      BY <1>0, <3>4
    <3> QED
      BY <3>3, <3>5, <3>6
  <2>4. \A i \in 1 .. Len(c) : c[i] = d[i]
    BY <1>0, <2>3
  <2>5. Len(c) = Len(d)
    <3> SUFFICES ASSUME Len(c) # Len(d) PROVE FALSE
      OBVIOUS
    <3>1. Len(c) \in 1 .. Len(d) - 1 /\ Len(c) + 1 \in 1 .. Len(d) /\ Len(c) \in 1 .. Len(c)
      BY <1>0, <2>2
    <3>2. t[d[Len(c)]].nxt = d[Len(c) + 1] /\ d[Len(c) + 1] \in C
      BY <1>0, <3>1
    <3> QED
      BY <2>1, <2>4, <3>1, <3>2
  <2> QED
    BY <1>0, <2>4, <2>5, SeqEqual
<1> QED
  BY <1>1, <1>2

LEMMA WholeSame ==
  ASSUME NEW t, NEW s, NEW C, NEW c, Whole(t, s, C, c), NEW u, NEW B, Range(c) \subseteq B,
         \A x \in Range(c) : u[x].nxt = t[x].nxt
  PROVE  Whole(u, s, B, c)
<1>1. c \in Seq(C) /\ Len(c) \in Nat /\ \A i \in 1 .. Len(c) : c[i] \in Range(c)
  BY LenProperties DEF Whole, Follows, Range
<1>2. c \in Seq(B)
  BY <1>1
<1>3. \A i \in 1 .. Len(c) - 1 : u[c[i]].nxt = t[c[i]].nxt
  BY <1>1
<1>4. s # 0 => u[c[Len(c)]].nxt = t[c[Len(c)]].nxt
  <2> SUFFICES ASSUME s # 0 PROVE Len(c) \in 1 .. Len(c)
    BY <1>1
  <2>1. c # << >>
    BY DEF Whole, Follows
  <2> QED
    BY <1>1, <2>1, EmptySeq
<1> QED
  BY <1>2, <1>3, <1>4 DEF Whole, Follows

\* The children of a node follow the links to their end.
LEMMA KidsWhole ==
  ASSUME NEW t, NEW root, NEW T, NEW r, Tree(t, root, T, r), NEW p \in T
  PROVE  LET c == Chain(t, t[p].dwn) IN
         /\ Whole(t, t[p].dwn, T, c) /\ Range(c) = Kids(t, T, p)
         /\ c \in Seq(T) /\ Len(c) \in Nat
         /\ \A i, j \in 1 .. Len(c) : c[i] = c[j] => i = j
<1> DEFINE c == Chain(t, t[p].dwn)
<1>1. Lists(t, t[p].dwn, Kids(t, T, p), c)
  BY KidLists
<1> HIDE DEF c
<1>2. Whole(t, t[p].dwn, Kids(t, T, p), c)
  BY <1>1 DEF Lists, Whole
<1>3. Range(c) = Kids(t, T, p) /\ Range(c) \subseteq T
  BY <1>1 DEF Lists, Kids
<1>4. Whole(t, t[p].dwn, T, c)
  BY <1>2, <1>3, WholeSame
<1> QED
  BY <1>1, <1>3, <1>4, LenProperties DEF Lists, Whole, Follows, c

\* What follows them to their end is the list of children.
LEMMA WholeIsKids ==
  ASSUME NEW t, NEW root, NEW T, NEW r, Tree(t, root, T, r), NEW p \in T,
         NEW c, Whole(t, t[p].dwn, T, c)
  PROVE  Chain(t, t[p].dwn) = c
<1> DEFINE d == Chain(t, t[p].dwn)
<1>1. Whole(t, t[p].dwn, T, d)
  BY KidsWhole
<1>2. 0 \notin T
  BY DEF Tree
<1> HIDE DEF d
<1>3. Len(c) \in Nat /\ Len(d) \in Nat
  BY <1>1, LenProperties DEF Whole, Follows
<1>4. Len(c) <= Len(d) \/ Len(d) <= Len(c)
  BY <1>3
<1>5. c = d
  BY <1>1, <1>2, <1>4, WholeUnique
<1> QED
  BY <1>5 DEF d

\* A node is put before the children of c; the others keep theirs.
LEMMA ChildKids ==
  ASSUME NEW t, NEW root, NEW T, NEW r, Tree(t, root, T, r), NEW c \in T, NEW u, NEW n,
         ChildAdded(t, u, T, c, n)
  PROVE  /\ Chain(u, u[n].dwn) = << >>
         /\ Chain(u, u[c].dwn) = << n >> \o Chain(t, t[c].dwn)
         /\ \A x \in T \ {c} : Chain(u, u[x].dwn) = Chain(t, t[x].dwn)
<1> DEFINE S == T \cup {n}
           q == Between(r, T, c, n)
<1>1. Tree(u, root, S, q) /\ n \in S /\ T \subseteq S /\ 0 \notin S
  <2>1. Tree(u, root, S, q)
    BY ChildTree
  <2> HIDE DEF q
  <2> QED
    BY <2>1 DEF Tree
<1>2. /\ n \notin T /\ u[n].dwn = 0 /\ u[n].nxt = t[c].dwn /\ u[c].dwn = n
      /\ \A x \in T : u[x].nxt = t[x].nxt
      /\ \A x \in T \ {c} : u[x].dwn = t[x].dwn
  BY DEF ChildAdded
<1> HIDE DEF S, q
<1>3. Chain(u, u[n].dwn) = << >>
  <2>1. Whole(u, u[n].dwn, S, << >>)
    BY <1>2 DEF Whole, Follows
  <2> QED
    BY <1>1, <2>1, WholeIsKids
<1>4. ASSUME NEW x \in T
      PROVE  /\ Whole(u, t[x].dwn, S, Chain(t, t[x].dwn))
             /\ Chain(t, t[x].dwn) \in Seq(T) /\ Len(Chain(t, t[x].dwn)) \in Nat
  <2> DEFINE d == Chain(t, t[x].dwn)
  <2>1. Whole(t, t[x].dwn, T, d) /\ Range(d) = Kids(t, T, x) /\ d \in Seq(T) /\ Len(d) \in Nat
    BY KidsWhole
  <2> HIDE DEF d
  <2>2. Range(d) \subseteq S /\ \A y \in Range(d) : u[y].nxt = t[y].nxt
    BY <1>1, <1>2, <2>1 DEF Kids
  <2>3. Whole(u, t[x].dwn, S, d)
    BY <2>1, <2>2, WholeSame
  <2> QED
    BY <2>1, <2>3 DEF d
<1>5. ASSUME NEW x \in T \ {c} PROVE Chain(u, u[x].dwn) = Chain(t, t[x].dwn)
  <2>1. x \in T /\ x \in S /\ u[x].dwn = t[x].dwn
    BY <1>1, <1>2
  <2>2. Whole(u, u[x].dwn, S, Chain(t, t[x].dwn))
    BY <1>4, <2>1
  <2> QED
    BY <1>1, <2>1, <2>2, WholeIsKids
<1>6. Chain(u, u[c].dwn) = << n >> \o Chain(t, t[c].dwn)
  <2> DEFINE d == Chain(t, t[c].dwn)
             e == << n >> \o d
  <2>1. Whole(u, t[c].dwn, S, d) /\ d \in Seq(T) /\ Len(d) \in Nat
    BY <1>4
  <2> HIDE DEF d
  <2>2. d \in Seq(S) /\ << n >> \in Seq(S) /\ Len(<< n >>) = 1
    BY <1>1, <2>1
  <2>3. e \in Seq(S) /\ Len(e) = 1 + Len(d)
    BY <2>2, ConcatProperties
  <2>4. e[1] = n /\ \A i \in 1 .. Len(d) : e[i + 1] = d[i]
    BY <2>1, <2>2 
  <2> HIDE DEF e
  <2>5. n # 0 /\ e # << >>
    BY <1>1, <2>1, <2>3
  <2>6. d = << >> <=> t[c].dwn = 0
    BY <2>1 DEF Whole, Follows
  <2>7. ASSUME NEW i \in 1 .. Len(e) - 1 PROVE u[e[i]].nxt = e[i + 1]
    <3>1. i \in 1 .. Len(d) /\ e[i + 1] = d[i]
      BY <2>1, <2>3, <2>4
    <3>2. CASE i = 1
      <4>1. d[1] = t[c].dwn
        BY <2>1, <2>6, <3>1, <3>2 DEF Whole, Follows
      <4> QED
        BY <1>2, <2>4, <3>1, <3>2, <4>1
    <3>3. CASE i # 1
      <4>1. i - 1 \in 1 .. Len(d) - 1 /\ i - 1 \in 1 .. Len(d) /\ i - 1 + 1 = i
        BY <2>1, <3>1, <3>3
      <4>2. e[i] = d[i - 1]
        BY <2>4, <4>1
      <4>3. u[d[i - 1]].nxt = d[i]
        BY <2>1, <4>1 DEF Whole, Follows
      <4> QED
        BY <3>1, <4>2, <4>3
    <3> QED
      BY <3>2, <3>3
  <2>8. u[e[Len(e)]].nxt = 0
    <3>1. CASE d = << >>
      <4>1. Len(e) = 1
        BY <2>3, <3>1
      <4> QED
        BY <1>2, <2>4, <2>6, <3>1, <4>1
    <3>2. CASE d # << >>
      <4>1. Len(d) \in 1 .. Len(d) /\ Len(e) = Len(d) + 1
        BY <2>1, <2>3, <3>2, EmptySeq
      <4> QED
        BY <2>1, <2>4, <2>6, <3>2, <4>1 DEF Whole, Follows
    <3> QED
      BY <3>1, <3>2
  <2>9. Whole(u, u[c].dwn, S, e)
    BY <1>2, <2>3, <2>4, <2>5, <2>7, <2>8 DEF Whole, Follows
  <2>10. c \in S
    BY <1>1
  <2> QED
    BY <1>1, <2>9, <2>10, WholeIsKids DEF e, d
<1> QED
  BY <1>3, <1>5, <1>6

\* e is d with n after position i.
Inserted(S, d, i, n, e) ==
  /\ e \in Seq(S) /\ Len(e) = Len(d) + 1
  /\ \A k \in 1 .. i : e[k] = d[k]
  /\ e[i + 1] = n
  /\ \A k \in i + 2 .. Len(d) + 1 : e[k] = d[k - 1]

LEMMA InsertedAt ==
  ASSUME NEW S, NEW d \in Seq(S), NEW n \in S, NEW i \in 1 .. Len(d)
  PROVE  Inserted(S, d, i, n, InsertAt(d, i + 1, n))
<1> DEFINE a == SubSeq(d, 1, i)
           b == SubSeq(d, i + 1, Len(d))
           m == a \o << n >>
           g == m \o b
<1>0. Len(d) \in Nat /\ i \in Nat /\ i + 1 - 1 = i
  BY LenProperties
<1>1. InsertAt(d, i + 1, n) = g
  <2>1. PICK j : j = i + 1
    OBVIOUS
  <2>2. j - 1 = i
    BY <1>0, <2>1
  <2> QED
    BY <2>1, <2>2, Zenon DEF InsertAt
<1>2. a \in Seq(S) /\ Len(a) = i /\ \A k \in 1 .. i : a[k] = d[k]
  BY <1>0, SubSeqProperties
<1>3. b \in Seq(S) /\ Len(b) = Len(d) - i /\ \A k \in 1 .. Len(d) - i : b[k] = d[i + k]
  BY <1>0
<1> HIDE DEF a, b
<1>4. m \in Seq(S) /\ Len(m) = i + 1 /\ m[i + 1] = n /\ \A k \in 1 .. i : m[k] = d[k]
  BY <1>0, <1>2
<1> HIDE DEF m
<1>5. g \in Seq(S) /\ Len(g) = Len(d) + 1
  <2>1. g \in Seq(S) /\ Len(g) = Len(m) + Len(b)
    BY <1>3, <1>4, ConcatProperties
  <2> QED
    BY <1>0, <1>3, <1>4, <2>1
<1>6. (\A k \in 1 .. i + 1 : g[k] = m[k]) /\ \A k \in i + 2 .. Len(d) + 1 : g[k] = b[k - (i + 1)]
  BY <1>0, <1>3, <1>4
<1> HIDE DEF g
<1>7. \A k \in i + 2 .. Len(d) + 1 : g[k] = d[k - 1]
  <2> TAKE k \in i + 2 .. Len(d) + 1
  <2>1. k - (i + 1) \in 1 .. Len(d) - i /\ i + (k - (i + 1)) = k - 1
    BY <1>0
  <2> QED
    BY <1>3, <1>6, <2>1
<1>8. (\A k \in 1 .. i : g[k] = d[k]) /\ g[i + 1] = n
  BY <1>0, <1>4, <1>6
<1>9. Inserted(S, d, i, n, g)
  BY <1>5, <1>7, <1>8 DEF Inserted
<1> QED
  BY <1>1, <1>9

LEMMA RemovedAt ==
  ASSUME NEW S, NEW d \in Seq(S), NEW i \in 1 .. Len(d)
  PROVE  LET e == RemoveAt(d, i) IN
         /\ e \in Seq(S) /\ Len(e) = Len(d) - 1
         /\ \A k \in 1 .. i - 1 : e[k] = d[k]
         /\ \A k \in i .. Len(d) - 1 : e[k] = d[k + 1]
<1> DEFINE a == SubSeq(d, 1, i - 1)
           b == SubSeq(d, i + 1, Len(d))
           e == a \o b
<1>0. Len(d) \in Nat /\ i \in Nat /\ i >= 1
  BY LenProperties
<1>1. RemoveAt(d, i) = e
  BY <1>0 DEF RemoveAt
<1>2. a \in Seq(S) /\ Len(a) = i - 1 /\ \A k \in 1 .. i - 1 : a[k] = d[k]
  BY <1>0
<1>3. b \in Seq(S) /\ Len(b) = Len(d) - i /\ \A k \in 1 .. Len(d) - i : b[k] = d[i + k]
  BY <1>0
<1> HIDE DEF a, b
<1>5. e \in Seq(S) /\ Len(e) = Len(d) - 1
  <2>1. e \in Seq(S) /\ Len(e) = Len(a) + Len(b)
    BY <1>2, <1>3, ConcatProperties
  <2> QED
    BY <1>0, <1>2, <1>3, <2>1
<1>6. (\A k \in 1 .. i - 1 : e[k] = a[k]) /\ \A k \in i .. Len(d) - 1 : e[k] = b[k - (i - 1)]
  <2>1. \A k \in 1 .. Len(a) + Len(b) : e[k] = IF k <= Len(a) THEN a[k] ELSE b[k - Len(a)]
    BY <1>2, <1>3, ConcatProperties
  <2> HIDE DEF e
  <2>2. ASSUME NEW k \in 1 .. i - 1 PROVE e[k] = a[k]
    <3>1. k \in 1 .. Len(a) + Len(b) /\ k <= Len(a)
      BY <1>0, <1>2, <1>3
    <3> QED
      BY <2>1, <3>1
  <2>3. ASSUME NEW k \in i .. Len(d) - 1 PROVE e[k] = b[k - (i - 1)]
    <3>1. k \in 1 .. Len(a) + Len(b) /\ ~ (k <= Len(a))
      BY <1>0, <1>2, <1>3
    <3> QED
      BY <1>2, <2>1, <3>1
  <2> QED
    BY <2>2, <2>3
<1> HIDE DEF e
<1>7. \A k \in i .. Len(d) - 1 : e[k] = d[k + 1]
  <2> TAKE k \in i .. Len(d) - 1
  <2>1. k - (i - 1) \in 1 .. Len(d) - i /\ i + (k - (i - 1)) = k + 1
    BY <1>0
  <2> QED
    BY <1>3, <1>6, <2>1
<1> QED
  BY <1>1, <1>2, <1>5, <1>6, <1>7

\* A node is put after c among the children of c's parent.
LEMMA SiblingKids ==
  ASSUME NEW t, NEW root, NEW T, NEW r, Tree(t, root, T, r), NEW c \in T, c # root, NEW u, NEW n,
         SiblingAdded(t, u, T, c, n),
         NEW i \in 1 .. Len(Chain(t, t[t[c].upn].dwn)), Chain(t, t[t[c].upn].dwn)[i] = c
  PROVE  LET p == t[c].upn IN
         /\ Chain(u, u[n].dwn) = << >>
         /\ Chain(u, u[p].dwn) = InsertAt(Chain(t, t[p].dwn), i + 1, n)
         /\ \A x \in T \ {p} : Chain(u, u[x].dwn) = Chain(t, t[x].dwn)
<1> DEFINE S == T \cup {n}
           q == Between(r, T, c, n)
           p == t[c].upn
           d == Chain(t, t[p].dwn)
           e == InsertAt(d, i + 1, n)
<1>1. Tree(u, root, S, q) /\ n \in S /\ T \subseteq S /\ 0 \notin S
  <2>1. Tree(u, root, S, q)
    BY SiblingTree
  <2> HIDE DEF q
  <2> QED
    BY <2>1 DEF Tree
<1>2. /\ n \notin T /\ u[n].dwn = 0 /\ u[n].nxt = t[c].nxt /\ u[c].nxt = n
      /\ \A x \in T \ {c} : u[x].nxt = t[x].nxt
      /\ \A x \in T : u[x].dwn = t[x].dwn
  BY DEF SiblingAdded
<1>3. p \in T
  BY DEF Tree
<1> HIDE DEF S, q
<1>4. Chain(u, u[n].dwn) = << >>
  <2>1. Whole(u, u[n].dwn, S, << >>)
    BY <1>2 DEF Whole, Follows
  <2> QED
    BY <1>1, <2>1, WholeIsKids
<1>5. ASSUME NEW x \in T \ {p} PROVE Chain(u, u[x].dwn) = Chain(t, t[x].dwn)
  <2> DEFINE f == Chain(t, t[x].dwn)
  <2>1. Whole(t, t[x].dwn, T, f) /\ Range(f) = Kids(t, T, x)
    BY KidsWhole
  <2> HIDE DEF f
  <2>2. Range(f) \subseteq S /\ c \notin Range(f)
    BY <1>1, <2>1 DEF Kids
  <2>3. \A y \in Range(f) : u[y].nxt = t[y].nxt
    BY <1>2, <2>1, <2>2 DEF Kids
  <2>4. Whole(u, t[x].dwn, S, f)
    BY <2>1, <2>2, <2>3, WholeSame
  <2>5. x \in S /\ u[x].dwn = t[x].dwn
    BY <1>1, <1>2
  <2> QED
    BY <1>1, <2>4, <2>5, WholeIsKids DEF f
<1>6. /\ Whole(t, t[p].dwn, T, d) /\ d \in Seq(T) /\ Len(d) \in Nat
      /\ i \in 1 .. Len(d) /\ d[i] = c
      /\ \A j, k \in 1 .. Len(d) : d[j] = d[k] => j = k
  BY <1>3, KidsWhole
<1> HIDE DEF d
<1>7. /\ d # << >> /\ t[p].dwn # 0 /\ d[1] = t[p].dwn /\ t[d[Len(d)]].nxt = 0
      /\ \A k \in 1 .. Len(d) - 1 : t[d[k]].nxt = d[k + 1]
  <2>1. d # << >>
    BY <1>6
  <2> QED
    BY <1>6, <2>1 DEF Whole, Follows
<1>8. \A k \in 1 .. Len(d) : d[k] \in T /\ (k # i => u[d[k]].nxt = t[d[k]].nxt)
  <2> TAKE k \in 1 .. Len(d)
  <2>1. d[k] \in T
    BY <1>6, ElementOfSeq
  <2>2. k # i => d[k] # c
    BY <1>6
  <2> QED
    BY <1>2, <2>1, <2>2
<1>9. /\ e \in Seq(S) /\ Len(e) = Len(d) + 1
      /\ \A k \in 1 .. i : e[k] = d[k]
      /\ e[i + 1] = n
      /\ \A k \in i + 2 .. Len(d) + 1 : e[k] = d[k - 1]
  <2>1. d \in Seq(S) /\ n \in S
    BY <1>1, <1>6
  <2>2. Inserted(S, d, i, n, e)
    BY <1>6, <2>1, InsertedAt
  <2> QED
    BY <2>2 DEF Inserted
<1> HIDE DEF e
<1>10. ASSUME NEW k \in 1 .. Len(e) - 1 PROVE u[e[k]].nxt = e[k + 1]
  <2>0. k \in 1 .. Len(d) /\ i \in Nat /\ Len(d) \in Nat
    BY <1>6, <1>9
  <2>1. CASE k < i
    <3>1. k \in 1 .. i /\ k + 1 \in 1 .. i /\ k \in 1 .. Len(d) - 1 /\ k # i
      BY <1>6, <2>0, <2>1
    <3>2. e[k] = d[k] /\ e[k + 1] = d[k + 1]
      BY <1>9, <3>1
    <3>3. t[d[k]].nxt = d[k + 1]
      BY <1>7, <3>1
    <3>4. u[d[k]].nxt = t[d[k]].nxt
      BY <1>8, <2>0, <3>1
    <3> QED
      BY <3>2, <3>3, <3>4
  <2>2. CASE k = i
    <3>1. i \in 1 .. i /\ d[i] = c
      BY <1>6
    <3>2. e[i] = d[i] /\ e[i + 1] = n
      BY <1>9, <3>1
    <3> QED
      BY <1>2, <2>2, <3>1, <3>2
  <2>3. CASE k = i + 1
    <3>1. i \in 1 .. Len(d) - 1 /\ i + 2 \in i + 2 .. Len(d) + 1 /\ (i + 2) - 1 = i + 1 /\ k + 1 = i + 2
      BY <1>6, <2>0, <2>3
    <3>2. \A j \in i + 2 .. Len(d) + 1 : e[j] = d[j - 1]
      BY <1>9
    <3>3. e[i + 2] = d[i + 1]
      BY <3>1, <3>2
    <3>4. t[d[i]].nxt = d[i + 1] /\ d[i] = c /\ e[i + 1] = n
      BY <1>6, <1>7, <1>9, <3>1
    <3> QED
      BY <1>2, <2>3, <3>1, <3>3, <3>4
  <2>4. CASE k > i + 1
    <3>1. /\ k \in i + 2 .. Len(d) + 1 /\ k + 1 \in i + 2 .. Len(d) + 1
          /\ k - 1 \in 1 .. Len(d) - 1 /\ k - 1 \in 1 .. Len(d)
          /\ k - 1 # i /\ k - 1 + 1 = k /\ k + 1 - 1 = k
      BY <1>6, <2>0, <2>4
    <3>2. e[k] = d[k - 1] /\ e[k + 1] = d[k]
      <4>1. \A j \in i + 2 .. Len(d) + 1 : e[j] = d[j - 1]
        BY <1>9
      <4>2. e[k] = d[k - 1]
        BY <3>1, <4>1
      <4>3. e[k + 1] = d[k + 1 - 1]
        BY <3>1, <4>1
      <4> QED
        BY <3>1, <4>2, <4>3
    <3>3. u[d[k - 1]].nxt = t[d[k - 1]].nxt /\ t[d[k - 1]].nxt = d[k]
      BY <1>7, <1>8, <3>1
    <3> QED
      BY <3>2, <3>3
  <2> QED
    BY <2>0, <2>1, <2>2, <2>3, <2>4
<1>11. u[e[Len(e)]].nxt = 0
  <2>1. CASE i = Len(d)
    BY <1>2, <1>6, <1>7, <1>9, <2>1
  <2>2. CASE i # Len(d)
    <3>1. Len(e) \in i + 2 .. Len(d) + 1 /\ Len(e) - 1 = Len(d) /\ Len(d) \in 1 .. Len(d)
      BY <1>6, <1>9, <2>2
    <3>2. e[Len(e)] = d[Len(d)]
      BY <1>9, <3>1
    <3> QED
      BY <1>7, <1>8, <2>2, <3>1, <3>2
  <2> QED
    BY <2>1, <2>2
<1>12. e # << >> /\ e[1] = d[1]
  BY <1>6, <1>9
<1>13. Whole(u, t[p].dwn, S, e)
  BY <1>7, <1>9, <1>10, <1>11, <1>12 DEF Whole, Follows
<1>14. Chain(u, u[p].dwn) = e
  <2>1. p \in S /\ u[p].dwn = t[p].dwn
    BY <1>1, <1>2, <1>3
  <2> QED
    BY <1>1, <1>13, <2>1, WholeIsKids
<1> QED
  BY <1>4, <1>5, <1>14 DEF e, d

\* What the child lists are then.
KidsCut(t, u, T, c, i) ==
  LET p == t[c].upn IN
  /\ Chain(u, u[p].dwn) = RemoveAt(Chain(t, t[p].dwn), i)
  /\ \A x \in T \ Below(t, T, {c}) : x # p => Chain(u, u[x].dwn) = Chain(t, t[x].dwn)

\* The subtree of c goes: c leaves the children of its parent.
LEMMA CutKids ==
  ASSUME NEW t, NEW root, NEW T, NEW r, Tree(t, root, T, r), NEW c \in T, c # root,
         NEW u, Len(u) = Len(t), CutOff(t, u, T \ Below(t, T, {c}), c),
         NEW i \in 1 .. Len(Chain(t, t[t[c].upn].dwn)), Chain(t, t[t[c].upn].dwn)[i] = c
  PROVE  KidsCut(t, u, T, c, i)
<1> DEFINE D == Below(t, T, {c})
           S == T \ D
           p == t[c].upn
           d == Chain(t, t[p].dwn)
           e == RemoveAt(d, i)
<1>1. Tree(u, root, S, r)
  BY CutTree
<1>2. c \in D /\ p \in S /\ p \in T /\ \A y \in D : y # c => t[y].upn \in D
  <2>1. /\ c \in D /\ \A y \in D : y # c => t[y].upn \in D
        /\ t[c].upn \in T \ D
    BY BelowIs
  <2> HIDE DEF D
  <2> QED
    BY <2>1
<1> HIDE DEF D
<1>3. /\ c # 0 /\ \A x \in T : t[x].dwn = c => p = x
      /\ \A x \in T : t[x].nxt = c => p = t[x].upn
  <2>1. c # 0
    BY DEF Tree
  <2>2. \A x \in T : t[x].dwn # 0 => t[t[x].dwn].upn = x
    BY DEF Tree
  <2>3. \A x \in T : t[x].nxt # 0 => t[t[x].nxt].upn = t[x].upn
    BY DEF Tree
  <2> QED
    BY <2>1, <2>2, <2>3
<1>4. \A x \in S : /\ u[x].dwn = IF t[x].dwn = c THEN t[c].nxt ELSE t[x].dwn
                   /\ u[x].nxt = IF t[x].nxt = c THEN t[c].nxt ELSE t[x].nxt
  BY DEF CutOff, D
<1>5. \A x \in S : Kids(t, T, x) \ {c} \subseteq S
  BY <1>2 DEF Kids
<1>6. ASSUME NEW x \in S, x # p PROVE Chain(u, u[x].dwn) = Chain(t, t[x].dwn)
  <2> DEFINE f == Chain(t, t[x].dwn)
  <2>1. Whole(t, t[x].dwn, T, f) /\ Range(f) = Kids(t, T, x)
    BY KidsWhole
  <2> HIDE DEF f
  <2>2. c \notin Range(f)
    BY <1>6, <2>1 DEF Kids
  <2>3. Range(f) \subseteq S
    BY <1>5, <2>1, <2>2
  <2>4. \A y \in Range(f) : u[y].nxt = t[y].nxt
    <3> TAKE y \in Range(f)
    <3>1. y \in S /\ y \in T /\ t[y].upn = x
      BY <2>1, <2>3 DEF Kids
    <3>2. t[y].nxt # c
      BY <1>3, <1>6, <3>1
    <3> QED
      BY <1>4, <3>1, <3>2
  <2>5. Whole(u, t[x].dwn, S, f)
    BY <2>1, <2>3, <2>4, WholeSame
  <2>6. u[x].dwn = t[x].dwn
    BY <1>3, <1>4, <1>6
  <2> QED
    BY <1>1, <2>5, <2>6, WholeIsKids DEF f
<1>7. /\ Whole(t, t[p].dwn, T, d) /\ d \in Seq(T) /\ Len(d) \in Nat
      /\ i \in 1 .. Len(d) /\ d[i] = c /\ Range(d) = Kids(t, T, p)
      /\ \A j, k \in 1 .. Len(d) : d[j] = d[k] => j = k
  <2>1. i \in 1 .. Len(d) /\ d[i] = c
    OBVIOUS
  <2>2. p \in T
    BY <1>2
  <2> HIDE DEF p
  <2>3. /\ Whole(t, t[p].dwn, T, d) /\ d \in Seq(T) /\ Len(d) \in Nat /\ Range(d) = Kids(t, T, p)
        /\ \A j, k \in 1 .. Len(d) : d[j] = d[k] => j = k
    BY <2>2, KidsWhole
  <2> QED
    BY <2>1, <2>3
<1> HIDE DEF d
<1>8. /\ d # << >> /\ t[p].dwn # 0 /\ d[1] = t[p].dwn /\ t[d[Len(d)]].nxt = 0
      /\ \A k \in 1 .. Len(d) - 1 : t[d[k]].nxt = d[k + 1]
  <2>1. d # << >>
    BY <1>7
  <2> QED
    BY <1>7, <2>1 DEF Whole, Follows
<1>9. \A k \in 1 .. Len(d) : k # i => d[k] # c /\ d[k] \in S
  <2> TAKE k \in 1 .. Len(d)
  <2>1. d[k] \in Kids(t, T, p)
    BY <1>7 DEF Range
  <2>2. k # i => d[k] # c
    BY <1>7
  <2> QED
    BY <1>2, <1>5, <2>1, <2>2
<1>10. /\ e \in Seq(T) /\ Len(e) = Len(d) - 1
       /\ \A k \in 1 .. i - 1 : e[k] = d[k]
       /\ \A k \in i .. Len(d) - 1 : e[k] = d[k + 1]
  BY <1>7, RemovedAt
<1> HIDE DEF e, S
<1>11. e \in Seq(S)
  <2>1. \A k \in 1 .. Len(e) : e[k] \in S
    <3> TAKE k \in 1 .. Len(e)
    <3>1. CASE k < i
      <4>1. k \in 1 .. i - 1 /\ k \in 1 .. Len(d) /\ k # i
        BY <1>7, <1>10, <3>1
      <4> QED
        BY <1>9, <1>10, <4>1
    <3>2. CASE k >= i
      <4>1. k \in i .. Len(d) - 1 /\ k + 1 \in 1 .. Len(d) /\ k + 1 # i
        BY <1>7, <1>10, <3>2
      <4> QED
        BY <1>9, <1>10, <4>1
    <3> QED
      BY <1>7, <3>1, <3>2
  <2> QED
    BY <1>10, <2>1
<1>12. ASSUME NEW k \in 1 .. Len(e) - 1 PROVE u[e[k]].nxt = e[k + 1]
  <2>0. k \in 1 .. Len(d) - 2 /\ i \in Nat /\ Len(d) \in Nat
    BY <1>7, <1>10
  <2>1. CASE k < i - 1
    <3>1. /\ k \in 1 .. i - 1 /\ k + 1 \in 1 .. i - 1 /\ k \in 1 .. Len(d) - 1
          /\ k \in 1 .. Len(d) /\ k + 1 \in 1 .. Len(d) /\ k # i /\ k + 1 # i
      BY <1>7, <2>0, <2>1
    <3>2. e[k] = d[k] /\ e[k + 1] = d[k + 1] /\ t[d[k]].nxt = d[k + 1]
      BY <1>8, <1>10, <3>1
    <3>3. d[k] \in S /\ d[k + 1] # c
      BY <1>9, <3>1
    <3> QED
      BY <1>4, <3>2, <3>3
  <2>2. CASE k = i - 1
    <3>1. /\ k \in 1 .. i - 1 /\ k + 1 = i /\ i \in i .. Len(d) - 1 /\ k \in 1 .. Len(d) - 1
          /\ i \in 1 .. Len(d) - 1 /\ k \in 1 .. Len(d) /\ k # i
      BY <1>7, <2>0, <2>2
    <3>2. e[k] = d[k] /\ e[k + 1] = d[i + 1] /\ t[d[k]].nxt = d[i] /\ t[d[i]].nxt = d[i + 1]
      BY <1>8, <1>10, <3>1
    <3>3. d[k] \in S
      BY <1>9, <3>1
    <3> QED
      BY <1>4, <1>7, <3>2, <3>3
  <2>3. CASE k >= i
    <3>1. /\ k \in i .. Len(d) - 1 /\ k + 1 \in i .. Len(d) - 1 /\ k + 1 \in 1 .. Len(d) - 1
          /\ k + 1 \in 1 .. Len(d) /\ k + 1 + 1 \in 1 .. Len(d) /\ k + 1 # i /\ k + 1 + 1 # i
      BY <1>7, <2>0, <2>3
    <3>2. e[k] = d[k + 1] /\ e[k + 1] = d[k + 1 + 1] /\ t[d[k + 1]].nxt = d[k + 1 + 1]
      BY <1>8, <1>10, <3>1
    <3>3. d[k + 1] \in S /\ d[k + 1 + 1] # c
      BY <1>9, <3>1
    <3> QED
      BY <1>4, <3>2, <3>3
  <2> QED
    BY <2>0, <2>1, <2>2, <2>3
<1>13. e # << >> => u[e[Len(e)]].nxt = 0
  <2> SUFFICES ASSUME e # << >> PROVE u[e[Len(e)]].nxt = 0
    OBVIOUS
  <2>0. Len(e) \in Nat /\ Len(e) >= 1
    BY <1>10, EmptySeq, LenProperties
  <2>1. CASE i = Len(d)
    <3>1. /\ Len(e) \in 1 .. i - 1 /\ Len(e) \in 1 .. Len(d) - 1 /\ Len(e) + 1 = i
          /\ Len(e) \in 1 .. Len(d) /\ Len(e) # i
      BY <1>7, <1>10, <2>0, <2>1
    <3>2. e[Len(e)] = d[Len(e)] /\ t[d[Len(e)]].nxt = c
      BY <1>7, <1>8, <1>10, <3>1
    <3>3. d[Len(e)] \in S
      BY <1>9, <3>1
    <3> QED
      BY <1>4, <1>7, <1>8, <2>1, <3>2, <3>3
  <2>2. CASE i # Len(d)
    <3>1. Len(e) \in i .. Len(d) - 1 /\ Len(e) + 1 = Len(d) /\ Len(d) \in 1 .. Len(d)
      BY <1>7, <1>10, <2>0, <2>2
    <3>2. e[Len(e)] = d[Len(d)]
      BY <1>10, <3>1
    <3>3. d[Len(d)] \in S
      BY <1>9, <2>2, <3>1
    <3> QED
      BY <1>3, <1>4, <1>8, <3>2, <3>3
  <2> QED
    BY <2>1, <2>2
<1>14. (u[p].dwn = 0 <=> e = << >>) /\ (u[p].dwn # 0 => e[1] = u[p].dwn)
  <2>0. p \in S
    BY <1>2 DEF S
  <2>1. CASE i = 1
    <3>1. u[p].dwn = t[c].nxt
      BY <1>4, <1>7, <1>8, <2>0, <2>1
    <3>2. CASE Len(d) = 1
      <4>1. t[c].nxt = 0
        BY <1>7, <1>8, <2>1, <3>2
      <4>2. e = << >>
        BY <1>10, <3>2, EmptySeq
      <4> QED
        BY <3>1, <4>1, <4>2
    <3>3. CASE Len(d) # 1
      <4>3. Len(d) \in Nat /\ i \in 1 .. Len(d)
        BY <1>7
      <4>0. Len(d) >= 2
        <5>1. \A l \in Nat : 1 \in 1 .. l /\ l # 1 => l >= 2
          OBVIOUS
        <5> QED
          BY <2>1, <3>3, <4>3, <5>1
      <4>1. 1 \in 1 .. Len(d) - 1 /\ 1 \in i .. Len(d) - 1 /\ 2 \in 1 .. Len(d) /\ 2 # i
        BY <2>1, <4>0, <4>3
      <4>2. t[c].nxt = d[2] /\ e[1] = d[2] /\ d[2] \in S
        BY <1>7, <1>8, <1>9, <1>10, <2>1, <4>1
      <4>5. d[2] # 0
        BY <1>1, <4>2 DEF Tree
      <4>4. e # << >>
        BY <1>10, <4>1
      <4> QED
        BY <3>1, <4>2, <4>4, <4>5
    <3> QED
      BY <3>2, <3>3
  <2>2. CASE i # 1
    <3>1. 1 \in 1 .. i - 1 /\ 1 \in 1 .. Len(d) /\ Len(d) - 1 >= 1
      BY <1>7, <2>2
    <3>2. d[1] # c /\ e[1] = d[1] /\ e # << >>
      BY <1>9, <1>10, <2>2, <3>1
    <3> QED
      BY <1>4, <1>8, <2>0, <3>2
  <2> QED
    BY <2>1, <2>2
<1>15. Whole(u, u[p].dwn, S, e)
  BY <1>11, <1>12, <1>13, <1>14 DEF Whole, Follows
<1>16. Chain(u, u[p].dwn) = e
  <2>1. p \in S
    BY <1>2 DEF S
  <2> QED
    BY <1>1, <1>15, <2>1, WholeIsKids
<1> QED
  BY <1>6, <1>16 DEF S, D, e, d, KidsCut

-----------------------------------------------------------------------------
KidsOf(t, T) == [x \in T |-> Chain(t, t[x].dwn)]
DataOf(t, T) == [x \in T |-> t[x].dat]

LEMMA SameOperators ==
  /\ \A f : Abs!Range(f) = Range(f)
  /\ \A s, i, e : Abs!InsertAt(s, i, e) = InsertAt(s, i, e)
  /\ \A s, i : Abs!RemoveAt(s, i) = RemoveAt(s, i)
BY DEF Abs!Range, Range, Abs!InsertAt, InsertAt, Abs!RemoveAt, RemoveAt

\* Parents and subtrees are the same by the links up and by the child lists.
LEMMA UpAndDown ==
  ASSUME NEW t, NEW root, NEW T, NEW r, Tree(t, root, T, r), NEW c \in T, c # root
  PROVE  /\ Abs!ParentIn(KidsOf(t, T), c) = t[c].upn
         /\ Abs!Subtree(KidsOf(t, T), c) = Below(t, T, {c})
<1> DEFINE k == KidsOf(t, T)
<1>0. \A f : Abs!Range(f) = Range(f)
  BY SameOperators
<1>1. DOMAIN k = T /\ \A x \in T : Range(k[x]) = {y \in T : t[y].upn = x}
  <2>1. DOMAIN k = T /\ \A x \in T : k[x] = Chain(t, t[x].dwn)
    BY DEF KidsOf
  <2>2. ASSUME NEW x \in T PROVE Range(Chain(t, t[x].dwn)) = Kids(t, T, x)
    BY KidsWhole
  <2> HIDE DEF k
  <2> QED
    BY <2>1, <2>2 DEF Kids
<1>2. t[c].upn \in T
  BY DEF Tree
<1> HIDE DEF k
<1>3. Abs!ParentIn(k, c) = t[c].upn
  <2>1. \A x \in DOMAIN k : c \in Range(k[x]) <=> x = t[c].upn
    BY <1>1
  <2> QED
    BY <1>0, <1>1, <1>2, <2>1 DEF Abs!ParentIn
<1>4. ASSUME NEW S \in SUBSET T
      PROVE  (c \in S /\ \A m \in S : Range(k[m]) \subseteq S) <=> ClosedFrom(t, T, {c}, S)
  <2>1. \A m \in S : Range(k[m]) = {y \in T : t[y].upn = m}
    BY <1>1
  <2> QED
    BY <2>1 DEF ClosedFrom
<1>5. Abs!Subtree(k, c) = Below(t, T, {c})
  <2>1. Abs!Subtree(k, c) =
          {m \in T : \A S \in {Q \in SUBSET T : c \in Q /\ \A y \in Q : Range(k[y]) \subseteq Q} : m \in S}
    BY <1>0, <1>1 DEF Abs!Subtree
  <2>2. {Q \in SUBSET T : c \in Q /\ \A y \in Q : Range(k[y]) \subseteq Q}
          = {Q \in SUBSET T : ClosedFrom(t, T, {c}, Q)}
    BY <1>4
  <2> QED
    BY <2>1, <2>2 DEF Below
<1> QED
  BY <1>3, <1>5 DEF k

\* TreeNodes and the tree that the invariant speaks of are the same.
Says ==
  /\ \A T, F, r : Shape(node, fst, lst, cur, T, F, r, lost) => TreeNodes = T
  /\ NoNodes => TreeNodes = {}

LEMMA SaysAlways == Says
BY ShapeSays, NothingInNothing DEF Says

LEMMA AddChildMaps ==
  ASSUME Careful, TypeOK, AddNode, Says, Says',
         NEW T, NEW F, NEW r, Shape(node, fst, lst, cur, T, F, r, lost)
  PROVE  Abs!Next
<1> DEFINE n == NewNode
           k == KidsOf(node, T)
           d == DataOf(node, T)
<1>1. /\ TypeOK' /\ fst' = fst /\ cur' = n /\ fst # 0 /\ n \in 1 .. MaxNodes
      /\ ChildAdded(node, node', T, cur, n)
      /\ \A x \in T : node'[x].dat = node[x].dat
      /\ Shape(node', fst', lst', cur', T \cup {n}, F \ {n}, Between(r, T, cur, n), lost')
  BY AddChildMakes
<1>2. TreeNodes = T /\ TreeNodes' = T \cup {n}
  BY <1>1 DEF Says
<1>3. Tree(node, fst, T, r) /\ cur \in T
  BY DEF Shape
<1> HIDE DEF n
<1>4. /\ Chain(node', node'[n].dwn) = << >>
      /\ Chain(node', node'[cur].dwn) = << n >> \o Chain(node, node[cur].dwn)
      /\ \A x \in T \ {cur} : Chain(node', node'[x].dwn) = Chain(node, node[x].dwn)
  BY <1>1, <1>3, ChildKids
<1>5. n \notin T /\ n \in 1 .. Len(node')
  BY <1>1 DEF ChildAdded
<1>6. node'[n].dat \in Data \cup 0 .. MaxNodes
  <2>1. node' \in Seq(NodeType(Len(node')))
    BY <1>1 DEF TypeOK, NodeType, NodeOrNone
  <2>2. node'[n] \in NodeType(Len(node'))
    BY <1>5, <2>1, ElementOfSeq
  <2> QED
    BY <2>2 DEF NodeType
<1>7. [x \in TreeNodes |-> Chain(node, node[x].dwn)] = k /\ DOMAIN k = T
      /\ [x \in TreeNodes |-> node[x].dat] = d
  BY <1>2 DEF KidsOf, DataOf
<1>8. [x \in TreeNodes |-> Chain(node, node[x].dwn)]' =
        [m \in T \cup {n} |-> IF m = n THEN << >> ELSE [k EXCEPT ![cur] = << n >> \o @][m]]
  <2>1. \A x \in T : k[x] = Chain(node, node[x].dwn)
    BY DEF KidsOf
  <2> HIDE DEF k
  <2> QED
    BY <1>2, <1>3, <1>4, <1>5, <1>7, <2>1
<1>9. [x \in TreeNodes |-> node[x].dat]' = [m \in T \cup {n} |-> IF m = n THEN node'[n].dat ELSE d[m]]
  <2>1. \A x \in T : d[x] = node[x].dat
    BY DEF DataOf
  <2> HIDE DEF d
  <2> QED
    BY <1>1, <1>2, <1>5, <2>1
<1> HIDE DEF k, d
<1> QED
  BY <1>1, <1>2, <1>3, <1>5, <1>6, <1>7, <1>8, <1>9 DEF Abs!Next, Abs!AddChild, Abs!Grow, Abs!Nodes

\* Where the current node is, in ArbTree and among the siblings it has here.
LEMMA PlaceIs ==
  ASSUME Says, NEW T, NEW F, NEW r, Shape(node, fst, lst, cur, T, F, r, lost), cur # fst
  PROVE  LET p == node[cur].upn
             c == Chain(node, node[p].dwn) IN
         /\ Abs!Up = p /\ p \in T
         /\ Abs!Place \in 1 .. Len(c) /\ c[Abs!Place] = cur
<1> DEFINE p == node[cur].upn
           c == Chain(node, node[p].dwn)
           k == KidsOf(node, T)
<1>1. Tree(node, fst, T, r) /\ cur \in T /\ TreeNodes = T
  BY DEF Shape, Says
<1>2. [x \in TreeNodes |-> Chain(node, node[x].dwn)] = k
  BY <1>1 DEF KidsOf
<1>3. p \in T
  BY <1>1 DEF Tree
<1>4. k[p] = c /\ cur \in Range(c) /\ Len(c) \in Nat /\ c \in Seq(T)
  <2>1. Range(c) = Kids(node, T, p) /\ Len(c) \in Nat /\ c \in Seq(T)
    BY <1>1, <1>3, KidsWhole
  <2>2. k[p] = c
    BY <1>3 DEF KidsOf
  <2> QED
    BY <1>1, <2>1, <2>2 DEF Kids
<1>5. Abs!ParentIn(k, cur) = p
  <2>1. /\ Abs!ParentIn(KidsOf(node, T), cur) = node[cur].upn
        /\ Abs!Subtree(KidsOf(node, T), cur) = Below(node, T, {cur})
    BY <1>1, UpAndDown
  <2> QED
    BY <2>1
<1> HIDE DEF k, c
<1>6. Abs!Up = p
  BY <1>2, <1>5 DEF Abs!Up
<1>7. \E i \in DOMAIN c : c[i] = cur
  BY <1>4 DEF Range
<1>8. Abs!Place = CHOOSE i \in DOMAIN c : c[i] = cur
  BY <1>2, <1>4, <1>6 DEF Abs!Place
<1>9. DOMAIN c = 1 .. Len(c)
  BY <1>4, LenProperties
<1> QED
  BY <1>3, <1>6, <1>7, <1>8, <1>9 DEF c

LEMMA AddSiblingMaps ==
  ASSUME Careful, TypeOK, AddSibling, Says, Says',
         NEW T, NEW F, NEW r, Shape(node, fst, lst, cur, T, F, r, lost)
  PROVE  Abs!Next
<1> DEFINE n == NewNode
           k == KidsOf(node, T)
           d == DataOf(node, T)
           p == node[cur].upn
           i == Abs!Place
           e == InsertAt(Chain(node, node[p].dwn), i + 1, n)
<1>1. /\ TypeOK' /\ fst' = fst /\ cur' = n /\ cur # fst /\ n \in 1 .. MaxNodes
      /\ SiblingAdded(node, node', T, cur, n)
      /\ \A x \in T : node'[x].dat = node[x].dat
      /\ Shape(node', fst', lst', cur', T \cup {n}, F \ {n}, Between(r, T, cur, n), lost')
  BY AddSiblingMakes
<1>2. TreeNodes = T /\ TreeNodes' = T \cup {n}
  BY <1>1 DEF Says
<1>3. Tree(node, fst, T, r) /\ cur \in T
  BY DEF Shape
<1>4. Abs!Up = p /\ p \in T /\ i \in 1 .. Len(Chain(node, node[p].dwn))
      /\ Chain(node, node[p].dwn)[i] = cur
  BY <1>1, PlaceIs
<1> HIDE DEF n, i
<1>5. /\ Chain(node', node'[n].dwn) = << >>
      /\ Chain(node', node'[p].dwn) = e
      /\ \A x \in T \ {p} : Chain(node', node'[x].dwn) = Chain(node, node[x].dwn)
  BY <1>1, <1>3, <1>4, SiblingKids
<1>6. n \notin T /\ n \in 1 .. Len(node')
  BY <1>1 DEF SiblingAdded
<1>7. node'[n].dat \in Data \cup 0 .. MaxNodes
  <2>1. node' \in Seq(NodeType(Len(node')))
    BY <1>1 DEF TypeOK, NodeType, NodeOrNone
  <2>2. node'[n] \in NodeType(Len(node'))
    BY <1>6, <2>1, ElementOfSeq
  <2> QED
    BY <2>2 DEF NodeType
<1>8. /\ [x \in TreeNodes |-> Chain(node, node[x].dwn)] = k /\ DOMAIN k = T
      /\ [x \in TreeNodes |-> node[x].dat] = d
      /\ \A x \in T : k[x] = Chain(node, node[x].dwn)
      /\ \A x \in T : d[x] = node[x].dat
  BY <1>2 DEF KidsOf, DataOf
<1>9. Abs!InsertAt(k[p], Abs!Place + 1, n) = e
  BY <1>4, <1>8, SameOperators, Zenon DEF i
<1> HIDE DEF k, d, e
<1>10. [x \in TreeNodes |-> Chain(node, node[x].dwn)]' =
        [m \in T \cup {n} |-> IF m = n THEN << >> ELSE [k EXCEPT ![p] = e][m]]
  BY <1>2, <1>4, <1>5, <1>6, <1>8
<1>11. [x \in TreeNodes |-> node[x].dat]' = [m \in T \cup {n} |-> IF m = n THEN node'[n].dat ELSE d[m]]
  BY <1>1, <1>2, <1>6, <1>8
<1> DEFINE g == [k EXCEPT ![Abs!Up] = Abs!InsertAt(@, Abs!Place + 1, n)]
<1>12. [x \in TreeNodes |-> Chain(node, node[x].dwn)]' =
         [m \in T \cup {n} |-> IF m = n THEN << >> ELSE g[m]]
  BY <1>4, <1>9, <1>10
<1>13. [[x \in TreeNodes |-> Chain(node, node[x].dwn)]
          EXCEPT ![Abs!Up] = Abs!InsertAt(@, Abs!Place + 1, n)] = g
  BY <1>8
<1>14. DOMAIN [x \in TreeNodes |-> Chain(node, node[x].dwn)] = T
  BY <1>2
<1> HIDE DEF g
<1> QED
  BY <1>1, <1>6, <1>7, <1>8, <1>11, <1>12, <1>13, <1>14 DEF Abs!Next, Abs!AddSibling, Abs!Grow, Abs!Nodes

LEMMA PruneMaps ==
  ASSUME TypeOK, PruneSubtree, Says, Says',
         NEW T, NEW F, NEW r, Shape(node, fst, lst, cur, T, F, r, lost)
  PROVE  Abs!PruneSubtree
<1> DEFINE D == Below(node, T, {cur})
           k == KidsOf(node, T)
           d == DataOf(node, T)
           p == node[cur].upn
           i == Abs!Place
           e == RemoveAt(Chain(node, node[p].dwn), i)
<1>1. /\ TypeOK' /\ fst' = fst /\ cur' = p /\ cur # fst
      /\ CutOff(node, node', T \ D, cur)
      /\ \A x \in T \ D : node'[x].dat = node[x].dat
      /\ Len(node') = Len(node)
      /\ \E G : Shape(node', fst', lst', cur', T \ D, G, r, lost')
  BY PruneMakes
<1>2. TreeNodes = T /\ TreeNodes' = T \ D
  BY <1>1 DEF Says
<1>3. Tree(node, fst, T, r) /\ cur \in T /\ Len(node') = Len(node)
  BY <1>1 DEF Shape
<1>4. Abs!Up = p /\ p \in T /\ i \in 1 .. Len(Chain(node, node[p].dwn))
      /\ Chain(node, node[p].dwn)[i] = cur
  BY <1>1, PlaceIs
<1> HIDE DEF i
<1>5. /\ Chain(node', node'[p].dwn) = e
      /\ \A x \in T \ D : x # p => Chain(node', node'[x].dwn) = Chain(node, node[x].dwn)
  <2>1. CutOff(node, node', T \ D, cur) /\ cur # fst
    BY <1>1
  <2>2. Tree(node, fst, T, r) /\ cur \in T /\ Len(node') = Len(node)
    BY <1>3
  <2>3. i \in 1 .. Len(Chain(node, node[p].dwn)) /\ Chain(node, node[p].dwn)[i] = cur
    BY <1>4
  <2>4. KidsCut(node, node', T, cur, i)
    BY <2>1, <2>2, <2>3, CutKids, Zenon
  <2> QED
    BY <2>4 DEF KidsCut
<1>6. /\ [x \in TreeNodes |-> Chain(node, node[x].dwn)] = k /\ DOMAIN k = T
      /\ [x \in TreeNodes |-> node[x].dat] = d
      /\ \A x \in T : k[x] = Chain(node, node[x].dwn)
      /\ \A x \in T : d[x] = node[x].dat
  BY <1>2 DEF KidsOf, DataOf
<1>7. Abs!RemoveAt(k[p], Abs!Place) = e
  BY <1>4, <1>6, SameOperators, Zenon DEF i
<1>8. Abs!Subtree(k, cur) = D
  BY <1>1, <1>3, UpAndDown
<1> HIDE DEF k, d, e, D
<1>9. [x \in TreeNodes |-> Chain(node, node[x].dwn)]' =
        [m \in T \ D |-> [k EXCEPT ![Abs!Up] = Abs!RemoveAt(@, Abs!Place)][m]]
  BY <1>2, <1>4, <1>5, <1>6, <1>7
<1>10. [x \in TreeNodes |-> node[x].dat]' = [m \in T \ D |-> d[m]]
  BY <1>1, <1>2, <1>6
<1> QED
  BY <1>1, <1>3, <1>4, <1>6, <1>8, <1>9, <1>10 DEF Abs!PruneSubtree, Abs!Nodes

LEMMA AddRootMaps ==
  ASSUME TypeOK, NoNodes, AddNode, Says, Says'
  PROVE  Abs!Next
<1>1. PICK r : Shape(node', fst', lst', cur', {1}, {}, r, lost')
  BY RootMakes
<1>2. /\ TypeOK' /\ fst' = 1 /\ cur' = 1 /\ 1 \in 1 .. MaxNodes
      /\ node'[1].dwn = 0 /\ Len(node') = 1 /\ fst = 0
  BY RootMakes DEF NoNodes
<1>3. TreeNodes = {} /\ TreeNodes' = {1}
  BY <1>1 DEF Says
<1>4. Chain(node', node'[1].dwn) = << >>
  <2>1. Whole(node', node'[1].dwn, {1}, << >>)
    BY <1>2 DEF Whole, Follows
  <2>2. Tree(node', 1, {1}, r)
    BY <1>1, <1>2 DEF Shape
  <2> QED
    BY <2>1, <2>2, WholeIsKids
<1>5. node'[1].dat \in Data \cup 0 .. MaxNodes
  <2>1. node' \in Seq(NodeType(Len(node')))
    BY <1>2 DEF TypeOK, NodeType, NodeOrNone
  <2>2. node'[1] \in NodeType(Len(node'))
    BY <1>2, <2>1, ElementOfSeq
  <2> QED
    BY <2>2 DEF NodeType
<1> DEFINE k == [x \in TreeNodes |-> Chain(node, node[x].dwn)]
           d == [x \in TreeNodes |-> node[x].dat]
<1>6. DOMAIN k = {}
  BY <1>3
<1>7. [x \in TreeNodes |-> Chain(node, node[x].dwn)]'
        = [m \in DOMAIN k \cup {1} |-> IF m = 1 THEN << >> ELSE k[m]]
  BY <1>3, <1>4, <1>6
<1>8. [x \in TreeNodes |-> node[x].dat]'
        = [m \in DOMAIN k \cup {1} |-> IF m = 1 THEN node'[1].dat ELSE d[m]]
  BY <1>3, <1>6
<1> QED
  BY <1>2, <1>5, <1>6, <1>7, <1>8 DEF Abs!Next, Abs!AddRoot, Abs!Grow, Abs!Nodes

LEMMA PruneAllMaps ==
  ASSUME PruneAll, Says, Says', NEW T, NEW F, NEW r, Shape(node, fst, lst, cur, T, F, r, lost)
  PROVE  Abs!PruneAll
<1>1. NoNodes' /\ cur = fst /\ cur \in T
  BY DEF PruneAll, NoNodes, Shape
<1>2. TreeNodes = T /\ TreeNodes' = {}
  BY <1>1 DEF Says
<1>3. [x \in TreeNodes |-> Chain(node, node[x].dwn)]' = << >> /\ [x \in TreeNodes |-> node[x].dat]' = << >>
  BY <1>2
<1> QED
  BY <1>1, <1>2, <1>3 DEF Abs!PruneAll, Abs!Nodes, NoNodes

LEMMA SetDataMaps ==
  ASSUME TypeOK, NEW x \in Data, SetData(x), Says, Says',
         NEW T, NEW F, NEW r, Shape(node, fst, lst, cur, T, F, r, lost)
  PROVE  Abs!Next
<1> DEFINE k == KidsOf(node, T)
           d == DataOf(node, T)
<1>1. /\ fst' = fst /\ cur' = cur /\ DataSet(node, node', T, cur, x)
      /\ Shape(node', fst', lst', cur', T, F, r, lost')
  BY SetDataMakes
<1>2. TreeNodes = T /\ TreeNodes' = T
  BY <1>1 DEF Says
<1>3. Tree(node, fst, T, r) /\ Tree(node', fst, T, r) /\ cur \in T
  BY <1>1 DEF Shape
<1>4. \A y \in T : node'[y].dwn = node[y].dwn /\ node'[y].nxt = node[y].nxt
  BY <1>1 DEF DataSet
<1>5. \A y \in T : Chain(node', node'[y].dwn) = Chain(node, node[y].dwn)
  <2> TAKE y \in T
  <2> DEFINE c == Chain(node, node[y].dwn)
  <2>1. Whole(node, node[y].dwn, T, c) /\ Range(c) = Kids(node, T, y)
    BY <1>3, KidsWhole
  <2> HIDE DEF c
  <2>2. Range(c) \subseteq T
    BY <2>1 DEF Kids
  <2>3. Whole(node', node[y].dwn, T, c)
    BY <1>4, <2>1, <2>2, WholeSame
  <2>4. node'[y].dwn = node[y].dwn /\ Tree(node', fst, T, r)
    BY <1>3, <1>4
  <2>5. Whole(node', node'[y].dwn, T, c)
    BY <2>3, <2>4
  <2>6. Chain(node', node'[y].dwn) = c
    BY <2>4, <2>5, WholeIsKids
  <2> QED
    BY <2>6 DEF c
<1>6. [y \in TreeNodes |-> Chain(node, node[y].dwn)] = k
      /\ [y \in TreeNodes |-> Chain(node, node[y].dwn)]' = k /\ DOMAIN k = T
  BY <1>2, <1>5 DEF KidsOf
<1>7. [y \in TreeNodes |-> node[y].dat] = d /\ DOMAIN d = T /\ \A y \in T : d[y] = node[y].dat
  BY <1>2 DEF DataOf
<1> HIDE DEF k, d
<1>8. [y \in TreeNodes |-> node[y].dat]' = [d EXCEPT ![cur] = x]
  BY <1>1, <1>2, <1>3, <1>7 DEF DataSet
<1> QED
  BY <1>1, <1>3, <1>6, <1>7, <1>8 DEF Abs!Next, Abs!SetData, Abs!Nodes

LEMMA MovesMap ==
  ASSUME Says, Says', IInv, IInv', fst # 0, Moves
  PROVE  Abs!Next
<1>1. node' = node /\ fst' = fst /\ cur' \in TreeNodes /\ TreeNodes' = TreeNodes
  BY DEF Moves, TreeNodes
<1>2. cur' \in 1 .. MaxNodes
  <2>1. PICK T, F, r : Shape(node, fst, lst, cur, T, F, r, lost)
    BY DEF IInv, NoNodes
  <2>2. TreeNodes = T
    BY <2>1 DEF Says
  <2>3. T \subseteq 1 .. Len(node) /\ Len(node) \in Nat
    BY <2>1 DEF Shape, Tree
  <2>4. Len(node) <= MaxNodes /\ MaxNodes \in Nat
    BY ArbAssumption DEF IInv, TypeOK
  <2> QED
    BY <1>1, <2>2, <2>3, <2>4
<1> QED
  BY <1>1, <1>2 DEF Abs!Next, Abs!Move, Abs!Nodes

LEMMA StepMaps ==
  ASSUME Careful, Says, Says', IInv, IInv', [Next]_vars
  PROVE  [Abs!Next]_(Abs!vars)
<1>0. TypeOK
  BY DEF IInv
<1>1. CASE UNCHANGED vars
  <2>1. node' = node /\ fst' = fst /\ cur' = cur /\ TreeNodes' = TreeNodes
    BY <1>1 DEF vars, TreeNodes
  <2> QED
    BY <2>1 DEF Abs!vars
<1>2. CASE AddNode
  <2>1. CASE NoNodes
    BY <1>0, <1>2, <2>1, AddRootMaps
  <2>2. ASSUME NEW T, NEW F, NEW r, Shape(node, fst, lst, cur, T, F, r, lost) PROVE Abs!Next
    BY <1>0, <1>2, <2>2, AddChildMaps
  <2> QED
    BY <2>1, <2>2 DEF IInv
<1>3. CASE AddSibling
  <2>1. PICK T, F, r : Shape(node, fst, lst, cur, T, F, r, lost)
    BY <1>3 DEF IInv, NoNodes, AddSibling
  <2> QED
    BY <1>0, <1>3, <2>1, AddSiblingMaps
<1>4. CASE Prune
  <2>1. PICK T, F, r : Shape(node, fst, lst, cur, T, F, r, lost)
    BY <1>4 DEF IInv, NoNodes, Prune, PruneAll, PruneSubtree
  <2>2. CASE PruneAll
    <3>1. Abs!PruneAll
      BY <2>1, <2>2, PruneAllMaps
    <3> QED
      BY <3>1 DEF Abs!Next, Abs!Prune
  <2>3. CASE PruneSubtree
    <3>1. Abs!PruneSubtree
      BY <1>0, <2>1, <2>3, PruneMaps
    <3> QED
      BY <3>1 DEF Abs!Next, Abs!Prune
  <2> QED
    BY <1>4, <2>2, <2>3 DEF Prune
<1>5. CASE Root \/ FirstChild \/ NextSibling \/ Parent \/ \E n \in TreeNodes : Current(n)
  <2>1. CASE UNCHANGED vars
    BY <1>1, <2>1
  <2>2. CASE fst # 0 /\ Moves
    BY <2>2, MovesMap
  <2> QED
    BY <1>5, <2>1, <2>2, MoveIsInTree
<1>6. ASSUME NEW x \in Data, SetData(x) PROVE Abs!Next
  <2>1. PICK T, F, r : Shape(node, fst, lst, cur, T, F, r, lost)
    BY <1>6 DEF IInv, NoNodes, SetData
  <2> QED
    BY <1>0, <1>6, <2>1, SetDataMaps
<1> QED
  BY <1>1, <1>2, <1>3, <1>4, <1>5, <1>6 DEF Next

(* The nodes implement an ordered tree with a cursor: the order of the     *)
(* children, what an addition puts where, what a prune takes away.         *)
THEOREM NodesAreATree ==
  ASSUME Careful
  PROVE  Spec => ImplementsArbTree
<1>1. Init => Abs!Init
  <2> SUFFICES ASSUME Init PROVE Abs!Init
    OBVIOUS
  <2>1. NoNodes
    BY DEF Init, NoNodes
  <2>2. TreeNodes = {}
    BY <2>1, SaysAlways DEF Says
  <2> QED
    BY <2>1, <2>2 DEF NoNodes, Abs!Init
<1>2. Says
  BY SaysAlways
<1>3. Says /\ Says' /\ IInv /\ IInv' /\ [Next]_vars => [Abs!Next]_(Abs!vars)
  BY StepMaps
<1> QED
  BY <1>1, <1>2, <1>3, TreeInvariant, PTL DEF Spec, ImplementsArbTree, Abs!Spec
=============================================================================
