------------------------------ MODULE VecHash -------------------------------
(***************************************************************************)
(* A vec_t used as an unsorted set (utl_vec.c, "Unsorted sets (Hash        *)
(* tables)"): open addressing with linear probing, Robin Hood order and    *)
(* deletion by backward shift, in a table whose size is a power of two.    *)
(*                                                                         *)
(* `tab' is the storage v->vec: each slot holds an element [key, val] or   *)
(* Empty (the hash 0xFFFFFFFF).  The cached hash of a slot is Hash[key].   *)
(* Counters are 32 bits wide in the code: Word stands for 2^32.            *)
(***************************************************************************)
EXTENDS Integers, FiniteSets

CONSTANTS
  Keys, Vals,    \* an element is a key and what is stored with it
  Hash,          \* the hash of each key, below 2^31 in the code
  Empty, Absent, Null, Wild,
  vec_MIN_ELEM,  \* slots of a new table (16 in the code)
  Word,          \* counters are modulo this (2^32 in the code)
  MaxMax         \* bound: no table larger than this can be allocated

Elems == [key : Keys, val : Vals]

ASSUME SizeAssumption ==
  /\ vec_MIN_ELEM \in Nat /\ vec_MIN_ELEM >= 5
  /\ MaxMax \in Nat /\ MaxMax >= vec_MIN_ELEM
  /\ Word \in Nat \ {0}

ASSUME HashAssumption ==
  /\ Hash \in [Keys -> Nat]
  /\ Empty \notin Elems /\ Null \notin Elems /\ Wild \notin Elems
  /\ Absent \notin Vals

VARIABLES
  tab,   \* the slots
  max,   \* how many there are
  cnt,   \* the element count the table keeps
  ret    \* the element the last call returned, or Null

vars == << tab, max, cnt, ret >>

TypeOK ==
  /\ max \in vec_MIN_ELEM .. MaxMax
  /\ tab \in [0 .. max - 1 -> Elems \cup {Empty}]
  /\ cnt \in 0 .. max
  /\ ret \in Elems \cup {Empty, Null, Wild}

NewTab(m) == [p \in 0 .. m - 1 |-> Empty]

Init ==
  /\ max = vec_MIN_ELEM
  /\ tab = NewTab(vec_MIN_ELEM)
  /\ cnt = 0
  /\ ret = Null

-----------------------------------------------------------------------------
(* Probing.  t is a table of m slots. *)

Home(k, m) == Hash[k] % m

\* The slot d probes after the home of k.
Probe(k, d, m) == (Hash[k] + d) % m

HasKey(t, p, k) == t[p] # Empty /\ t[p].key = k

\* A probe for k stops at an empty slot or at k's own element.
Stops(t, k, d, m) == LET p == Probe(k, d, m) IN t[p] = Empty \/ HasKey(t, p, k)

\* In a full table without k the loop never ends, and neither does the call.
ProbeEnds(t, k, m) == {d \in 0 .. m - 1 : Stops(t, k, d, m)} # {}

Distance(t, k, m) ==
  CHOOSE d \in 0 .. m - 1 :
    Stops(t, k, d, m) /\ \A c \in 0 .. d - 1 : ~Stops(t, k, c, m)

\* utl_search_hashed: the slot of k's element, or -1.
Search(t, k, m) ==
  LET p == Probe(k, Distance(t, k, m), m) IN IF HasKey(t, p, k) THEN p ELSE -1

-----------------------------------------------------------------------------
(* Inserting: utl_vec_hsh_set. *)

Back(p, i, m) == (p + m - i) % m

\* The element at slot q is nearer its home than d, as the code sees it: the
\* subtraction is unsigned and does not go around the table, so an element
\* that wrapped past the last slot never is.
NearerThan(t, q, d, m) ==
  LET home == Home(t[q].key, m) IN q >= home /\ q - home <= d

\* Seeded fault: new elements always stay where the probe ended.
SwapsNone(t, p, d, m) == 0

\* How many slots the new element, found room d probes from home at slot p,
\* is moved back towards its home.
Swaps(t, p, d, m) ==
  CHOOSE s \in 0 .. d :
    /\ \A i \in 1 .. s : NearerThan(t, Back(p, i, m), d - i, m)
    /\ s < d => ~NearerThan(t, Back(p, s + 1, m), d - (s + 1), m)

Insert(t, e, m) ==
  LET d == Distance(t, e.key, m)
      p == Probe(e.key, d, m)
      s == Swaps(t, p, d, m)
  IN [q \in 0 .. m - 1 |->
        IF q = Back(p, s, m) THEN e
        ELSE IF \E i \in 0 .. s - 1 : q = Back(p, i, m) THEN t[Back(q, 1, m)]
        ELSE t[q]]

\* What the call returns: the element at the slot looked at last.  Where the new
\* element was not moved to its home, that is the one left before it.
LastSeen(t, e, m) ==
  LET d == Distance(t, e.key, m)
      p == Probe(e.key, d, m)
      s == Swaps(t, p, d, m)
  IN IF s = d THEN e ELSE t[Back(p, s + 1, m)]

\* utl_reash: the elements go in slot order into a table twice as large.
Rehash(t, m) ==
  LET into[p \in 0 .. m] ==
        IF p = 0 THEN NewTab(2 * m)
        ELSE LET so == into[p - 1]
             IN IF t[p - 1] = Empty THEN so ELSE Insert(so, t[p - 1], 2 * m)
  IN into[m]

\* Seeded fault: a table at the load limit does not grow yet.
OverloadedLate == ((cnt * 100) % Word) \div 80 > max

\* The load factor, computed modulo Word.
Overloaded == ((cnt * 100) % Word) \div 80 >= max

\* Seeded fault: the size is not updated after a rehash.
StoreOldMax(e, t, m) ==
  /\ ProbeEnds(t, e.key, m)
  /\ tab' = Insert(t, e, m)
  /\ max' = max
  /\ cnt' = cnt + 1
  /\ ret' = LastSeen(t, e, m)

Store(e, t, m) ==
  /\ ProbeEnds(t, e.key, m)
  /\ tab' = Insert(t, e, m)
  /\ max' = m
  /\ cnt' = cnt + 1
  /\ ret' = LastSeen(t, e, m)

\* utl_vec_add_hashed.  Overwriting an element counts as one more.
Add(e) ==
  \/ ~Overloaded /\ Store(e, tab, max)
  \/ Overloaded /\ 2 * max <= MaxMax /\ Store(e, Rehash(tab, max), 2 * max)
  \/ Overloaded /\ ret' = Null /\ UNCHANGED << tab, max, cnt >>

-----------------------------------------------------------------------------
(* Removing: utl_remove_hashed closes the gap by moving back what follows. *)

Fwd(p, i, m) == (p + i) % m

\* Seeded fault: the shift stops only before an empty slot.
EndsShiftAtEmpty(t, q, m) == t[q] = Empty

\* The shift stops before an empty slot and before an element in its home slot.
EndsShift(t, q, m) == t[q] = Empty \/ Home(t[q].key, m) = q

Shifted(t, p, m) ==
  CHOOSE r \in 0 .. m - 1 :
    /\ EndsShift(t, Fwd(p, r + 1, m), m)
    /\ \A i \in 1 .. r : ~EndsShift(t, Fwd(p, i, m), m)

\* Seeded fault: the slot is emptied and nothing moves.
DeleteInPlace(t, p, m) == [t EXCEPT ![p] = Empty]

Delete(t, p, m) ==
  LET r == Shifted(t, p, m)
  IN [q \in 0 .. m - 1 |->
        IF q = Fwd(p, r, m) THEN Empty
        ELSE IF \E i \in 0 .. r - 1 : q = Fwd(p, i, m) THEN t[Fwd(q, 1, m)]
        ELSE t[q]]

\* Seeded fault: a key that is not there is counted out too.
RemoveAlwaysCounts(k) ==
  /\ cnt > 0
  /\ ProbeEnds(tab, k, max)
  /\ LET p == Search(tab, k, max) IN
       tab' = IF p < 0 THEN tab ELSE Delete(tab, p, max)
  /\ cnt' = cnt - 1
  /\ ret' = Null
  /\ UNCHANGED max

Remove(k) ==
  /\ cnt > 0
  /\ ProbeEnds(tab, k, max)
  /\ LET p == Search(tab, k, max) IN
       /\ tab' = IF p < 0 THEN tab ELSE Delete(tab, p, max)
       /\ cnt' = IF p < 0 THEN cnt ELSE cnt - 1
  /\ ret' = Null
  /\ UNCHANGED max

-----------------------------------------------------------------------------
(* Reading. *)

\* utl_vec_search; an empty set is not probed.
Lookup(k) ==
  /\ cnt = 0 \/ ProbeEnds(tab, k, max)
  /\ ret' = IF cnt = 0 \/ Search(tab, k, max) < 0 THEN Null
            ELSE tab[Search(tab, k, max)]
  /\ UNCHANGED << tab, max, cnt >>

Occupied == {p \in 0 .. max - 1 : tab[p] # Empty}

\* utl_vec_first walks to the first occupied slot, past the storage if none is.
First ==
  /\ ret' = IF cnt = 0 THEN Null
            ELSE IF Occupied = {} THEN Wild
            ELSE tab[CHOOSE p \in Occupied : \A q \in Occupied : p <= q]
  /\ UNCHANGED << tab, max, cnt >>

Next ==
  \/ \E e \in Elems : Add(e)
  \/ \E k \in Keys : Remove(k) \/ Lookup(k)
  \/ First

Spec == Init /\ [][Next]_vars

-----------------------------------------------------------------------------
(* Properties *)

\* Every probe ends: whatever was added and removed, some slot is empty.
SomeSlotIsEmpty == Occupied # 0 .. max - 1

\* The count never falls below the number of elements in the table, although
\* overwriting adds to it: a table that holds something is always searched.
CountCoversElements == Cardinality(Occupied) <= cnt

\* The load factor keeps the count below the size, overwriting included.
CountBelowSize == cnt < max

\* Both bounds hold at once, through overwriting, refused growth and removals;
\* together they are why a probe ends.
CountBounds == CountCoversElements /\ CountBelowSize

\* Each element in the table is the one a search for its key returns: none is
\* hidden behind an empty slot, and no key is stored twice.
EveryElementIsFound ==
  \A p \in Occupied : Search(tab, tab[p].key, max) = p

\* utl_vec.c:626 "Robin Hood: swap with previous if delta is lower": along a
\* run of elements the distance from home grows by at most one per slot.
DistanceFromHome(p) == (p + max - Home(tab[p].key, max)) % max
RobinHoodOrder ==
  \A p \in Occupied :
    LET q == (p + 1) % max IN
    q \in Occupied => DistanceFromHome(q) <= DistanceFromHome(p) + 1

\* What callers can find in the table.
Found ==
  [k \in Keys |->
     LET p == IF ProbeEnds(tab, k, max) THEN Search(tab, k, max) ELSE -1
     IN IF p < 0 THEN Absent ELSE tab[p].val]

\* The table implements the abstract set: adding, growing and removing one key
\* changes nothing a caller can find under another.
Abs == INSTANCE KeyMap WITH map <- Found
ImplementsKeyMap == Abs!Spec

\* utl_vec.c:758 "Since there is at lease 1 element, we will eventually exit
\* the loop."
FirstEndsInTable == [][First => ret' # Wild]_vars
=============================================================================
