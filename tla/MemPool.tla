------------------------------ MODULE MemPool -------------------------------
(***************************************************************************)
(* The memory pools of utl_mem.c.  A pool keeps the blocks it handed out   *)
(* on the list `used' (the latest first) and those that were given back on *)
(* `unused', in order of size.  A request takes the smallest block that    *)
(* fits unless it is twice as large or more; malloc provides a new one     *)
(* otherwise.  Lists are sequences of blocks without the list heads.       *)
(***************************************************************************)
EXTENDS Integers, SequencesExt

CONSTANTS
  Blocks,    \* the pieces of memory malloc can return
  Requests,  \* the sizes callers ask for
  MinSize,   \* the least size of a block (that of a pointer)
  Word       \* sizes are modulo this (2^32 in the code)

ASSUME SizeAssumption ==
  /\ MinSize \in Nat /\ Word \in Nat /\ MinSize < Word
  /\ Requests \subseteq 0 .. Word - 1

VARIABLES
  open,    \* whether the pool exists
  obtained, \* the blocks malloc returned that were not freed
  size,    \* the size field of each block obtained
  used,
  unused,
  ret      \* the last result of mplmalloc: a block, or none

poolvars == << open, obtained, size, used, unused, ret >>

PoolTypeOK ==
  /\ open \in BOOLEAN
  /\ obtained \subseteq Blocks
  /\ size \in [obtained -> MinSize .. Word - 1]
  /\ used \in Seq(obtained) /\ unused \in Seq(obtained)
  /\ ret \in {{}} \cup {{b} : b \in Blocks}

PoolInit ==
  /\ open = FALSE /\ obtained = {} /\ size = << >>
  /\ used = << >> /\ unused = << >> /\ ret = {}

\* utl_mpl_new
New ==
  /\ ~open
  /\ open' = TRUE /\ used' = << >> /\ unused' = << >> /\ ret' = {}
  /\ UNCHANGED << obtained, size >>

-----------------------------------------------------------------------------
\* Seeded fault: the search ends at a block that is larger, not as large.
PlaceAfter(s, sz) ==
  CHOOSE i \in 1 .. Len(s) + 1 :
    /\ i <= Len(s) => size[s[i]] > sz
    /\ \A j \in 1 .. i - 1 : size[s[j]] <= sz

\* utl_mpl_searchfit and utl_mpl_searchpos: the place in a list of the first
\* block with size sz at least, one beyond the end if there is none.
Place(s, sz) ==
  CHOOSE i \in 1 .. Len(s) + 1 :
    /\ i <= Len(s) => size[s[i]] >= sz
    /\ \A j \in 1 .. i - 1 : size[s[j]] < sz

\* Seeded fault: small requests are not rounded up.
Unrounded(sz) == sz

Rounded(sz) == IF sz <= MinSize THEN MinSize ELSE sz

\* Twice the request, as 32 bits hold it.
TooLarge(c, sz) == c >= (2 * sz) % Word

\* Block b is handed out.
Give(b) == used' = << b >> \o used /\ ret' = {b}

\* Seeded fault: the block is not taken off the list.
MallocReusedKept(sz) ==
  LET i == Place(unused, sz) IN
  /\ i <= Len(unused) /\ ~TooLarge(size[unused[i]], sz)
  /\ Give(unused[i])
  /\ UNCHANGED << open, obtained, size, unused >>

\* A given-back block of suitable size is used again.
MallocReused(sz) ==
  LET i == Place(unused, sz) IN
  /\ i <= Len(unused) /\ ~TooLarge(size[unused[i]], sz)
  /\ Give(unused[i])
  /\ unused' = RemoveAt(unused, i)
  /\ UNCHANGED << open, obtained, size >>

\* malloc provides a new block, or fails.
MallocNew(sz) ==
  LET i == Place(unused, sz) IN
  /\ i <= Len(unused) => TooLarge(size[unused[i]], sz)
  /\ \/ \E b \in Blocks \ obtained :
          /\ Give(b)
          /\ obtained' = obtained \cup {b}
          /\ size' = [c \in obtained \cup {b} |-> IF c = b THEN sz ELSE size[c]]
     \/ ret' = {} /\ UNCHANGED << obtained, size, used >>
  /\ UNCHANGED << open, unused >>

\* utl_mpl_malloc
PoolMalloc(sz) ==
  open /\ (MallocReused(Rounded(sz)) \/ MallocNew(Rounded(sz)))

-----------------------------------------------------------------------------
\* Seeded fault: the block goes to the front of the list.
StoredFirst(s, b) == << b >> \o s

\* The list `unused' once block b came back.
Stored(s, b) == InsertAt(s, Place(s, size[b]), b)

\* Seeded fault: the block is not searched for on `used'.
PoolFreeUnchecked(b) ==
  /\ open /\ b \in obtained
  /\ used' = SelectSeq(used, LAMBDA c : c # b)
  /\ unused' = Stored(unused, b)
  /\ ret' = {}
  /\ UNCHANGED << open, obtained, size >>

\* utl_mpl_getparent: where a block is on `used'.
Position(b) == CHOOSE i \in DOMAIN used : used[i] = b

\* utl_mpl_free with an element, whatever the caller passes: a block that is
\* not handed out is left alone.
PoolFree(b) ==
  /\ open
  /\ IF b \in Range(used)
     THEN /\ used' = RemoveAt(used, Position(b))
          /\ unused' = Stored(unused, b)
     ELSE UNCHANGED << used, unused >>
  /\ ret' = {}
  /\ UNCHANGED << open, obtained, size >>

\* `unused' after every block came back, the one handed out last first.
Cleaned ==
  LET kept[n \in 0 .. Len(used)] ==
        IF n = 0 THEN unused ELSE Stored(kept[n - 1], used[n])
  IN kept[Len(used)]

\* utl_mpl_free with `clean' (mplclean)
Clean ==
  /\ open
  /\ unused' = Cleaned
  /\ used' = << >>
  /\ ret' = {}
  /\ UNCHANGED << open, obtained, size >>

\* utl_mpl_free with the pool alone: the blocks of both lists are freed, then
\* the pool.
Delete ==
  /\ open
  /\ obtained' = obtained \ (Range(used) \cup Range(unused))
  /\ size' = [b \in obtained' |-> size[b]]
  /\ open' = FALSE /\ used' = << >> /\ unused' = << >> /\ ret' = {}

PoolNext ==
  \/ New
  \/ \E sz \in Requests : PoolMalloc(sz)
  \/ \E b \in Blocks : PoolFree(b)
  \/ Clean
  \/ Delete

PoolSpec == PoolInit /\ [][PoolNext]_poolvars

-----------------------------------------------------------------------------
(* Properties *)

\* Every block obtained is on one list, once: none leaks, not even when the
\* pool is deleted, and none can be handed out twice, whatever callers free
\* (blocks given back already, blocks of another pool).
OnOneList ==
  LET both == used \o unused IN
  /\ obtained = Range(both)
  /\ \A i, j \in DOMAIN both : both[i] = both[j] => i = j

\* The searches stop at the first block that is large enough: they find the
\* smallest one because the list stays sorted through frees and cleans.
UnusedIsSorted ==
  \A i, j \in DOMAIN unused : i < j => size[unused[i]] <= size[unused[j]]

\* No memory is asked of malloc while a block that was given back would do:
\* one of the size requested or more, but less than twice that.  (Requests of
\* half a Word or more never find one: twice their size wraps around.)
ReusesWhenItCan ==
  [][\A sz \in Requests :
       PoolMalloc(sz) /\ 2 * Rounded(sz) < Word /\ obtained' # obtained =>
         \A b \in Range(unused) :
           size[b] < Rounded(sz) \/ size[b] >= 2 * Rounded(sz)]_poolvars

\* The pool hands out a block to one caller at a time, with the capacity asked
\* for, until it is freed, cleaned or deleted.
Pool == INSTANCE Allocator WITH
          Capacities <- MinSize .. Word - 1,
          held <- [b \in Range(used) |-> size[b]]
ImplementsAllocator == Pool!Spec
=============================================================================
