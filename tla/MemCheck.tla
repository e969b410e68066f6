------------------------------ MODULE MemCheck ------------------------------
(***************************************************************************)
(* The memory tracer (utl_mem.c:38-196): malloc, calloc, strdup, realloc   *)
(* and free with marks around each block.                                  *)
(*                                                                         *)
(* A block is [live, size, beg, end]: handed out by malloc and not given   *)
(* back; its size; whether the marks before and after it are in place.     *)
(* What free and realloc leave of a block is not a mark: the C library     *)
(* writes its own links over the first bytes of what it gets back.         *)
(* `Empty' is an address that no block has had.                            *)
(***************************************************************************)
EXTENDS Integers, FiniteSets, FiniteSetsExt

CONSTANTS
  Addrs,      \* where malloc puts blocks
  Sizes,      \* the sizes that are asked for
  Empty

VARIABLES
  heap,       \* address -> block or Empty
  allocated   \* utl_mem_allocated

mem == << heap, allocated >>

BlockSet == [live : BOOLEAN, size : Nat, beg : BOOLEAN, end : BOOLEAN]

ASSUME MemAssumption == Sizes \subseteq Nat /\ Empty \notin BlockSet

Used(a) == heap[a] # Empty
Live(a) == heap[a] # Empty /\ heap[a].live
Block(n) == [live |-> TRUE, size |-> n, beg |-> TRUE, end |-> TRUE]
Dead == [live |-> FALSE, size |-> 0, beg |-> FALSE, end |-> FALSE]

\* utl_check, on a pointer to a or into what is left of the block there.
Valid(a) == heap[a].beg /\ heap[a].end
Overflow(a) == heap[a].beg /\ ~ heap[a].end

\* utl_malloc, utl_calloc, utl_strdup; when malloc fails nothing changes.
Malloc ==
  \E a \in Addrs, n \in Sizes :
    /\ ~ Live(a)
    /\ heap' = [heap EXCEPT ![a] = Block(n)]
    /\ allocated' = allocated + n

\* utl_free, also of a block that was given back: that one is refused.  free
\* itself is called for a valid or an overflown block.
Free ==
  \E a \in Addrs :
    /\ Used(a) /\ heap[a].beg
    /\ heap' = [heap EXCEPT ![a] = Dead]
    /\ allocated' = allocated - heap[a].size

\* Seeded fault: the total grows by the whole of the new size.
ResizedAll(a, n) == allocated + n

Resized(a, n) == allocated - heap[a].size + n

\* utl_realloc of a valid block, which may move; of an invalid or overflown one
\* it does nothing and returns the pointer.  With size 0 it is Free, without a
\* block it is Malloc.
Realloc ==
  \E a, b \in Addrs, n \in Sizes \ {0} :
    /\ Used(a) /\ Valid(a)
    /\ b = a \/ ~ Live(b)
    /\ heap' = [heap EXCEPT ![a] = Dead, ![b] = Block(n)]
    /\ allocated' = Resized(a, n)

\* The program writes beyond the end of a block.
Overrun ==
  \E a \in Addrs :
    /\ Live(a)
    /\ heap' = [heap EXCEPT ![a].end = FALSE]
    /\ UNCHANGED allocated

MemInit == heap = [a \in Addrs |-> Empty] /\ allocated = 0

\* utl_mem_used is the size of all the blocks the program holds, whatever was
\* freed twice, overrun, moved or refused on the way, and the mark before a
\* block is there exactly as long as the block is live: free is called once
\* for each block.
UsedIsLive ==
  /\ allocated = MapThenSumSet(LAMBDA a : heap[a].size, {a \in Addrs : Live(a)})
  /\ \A a \in Addrs : Used(a) => (heap[a].beg <=> heap[a].live)

=============================================================================
