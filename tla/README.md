# A TLA+ model of clibutl

clibutl is a C library of small utilities: vectors that double as sorted sets,
hash tables, stacks and queues; trees; character buffers and symbol tables;
memory pools and an allocation tracer; logging with built-in checks; exceptions;
pattern matching and PEG parsing; a one-thread socket server.  This directory
models the parts whose correctness depends on a history of calls, checks them
with TLC on small instances, and proves the main results about them with TLAPS.

Line numbers refer to the sources under `src/src/` (`utl_vec.c:571` is
`src/src/utl_vec.c`, line 571).

## 1. The system

The library is passive: a caller's thread runs each function to its end, and no
function starts a thread, defers work or takes a lock.  What makes the code hard
is not the interleaving of threads but the *interleaving of operations over a
long history* on structures whose fields are redundant (`cnt`, `fst`, `lst`,
`max`, a flag that says the rest is sorted), allocation that fails in the middle
of a call, state that is global or static (`utl_pmx_`, the memo tables,
`utl_jmp_list`, `utl_log_watch`), and loops over unsigned counters that end only
if something else is right.  `utl_net.c` is the exception: its loop reacts to
peers that connect, send and leave between any two of its steps.

| Component | State | Operations | Talks to | What makes it correct |
|---|---|---|---|---|
| Queues (`utl_vec.c:278-345`, iterators 747-856) | `fst`, `lst`, `cnt`, `max`, storage, `cur` | enq, deq, deqall, first, last, next, prev | `realloc` | FIFO order through wrap-around, growth and failed growth; iteration in that order |
| Hash tables (`utl_vec.c:545-745`) | slots with cached hashes, `cnt`, `max` | add, remove, search, first | caller's `cmp` and `hsh` | one element per key, always found; a probe always ends; Robin Hood order |
| Vectors, stacks, sorted sets (`utl_vec.c:15-276, 480-555`) | storage, `cnt`, `max`, `cmp`, SORTED flag | get, set, ins, alloc, del, drop, add, search, remove, sort | the sort, `realloc` | the flag is set only if the vector is sorted by its `cmp`; gaps never lose an element |
| Dual-pivot quicksort (`utl_vec.c:345-478`) | array, stack of ranges, five indices | sort | caller's `cmp`, random numbers | a sorted permutation for any pivots; it ends; the stack of 128 ranges suffices |
| Buffers (`utl_vec.c:860-992`) | vector of chars | setc, addc, sets, inss, insc, del, fmt, read, readln | vectors, `stdio` | the text is what was put together, its `\0` after it and inside the storage |
| Symbol tables (`utl_vec.c:1000-1208`) | buffer of names, hash table of ids | add, addnew, adduniq, search, del, data | buffers, hash tables | an id stands for one name and its data until it is deleted |
| Trees (`utl_vec.c:1210-1541`) | vector of nodes, root, cursor, free list threaded through `nxt`/`dat` | addchild, addsibling, prune, moves, setdata, count | vectors, queues (prune) | each node is in the tree or in the free list, but for those lost where a prune finds no memory; links agree; the count is that of the tree and the lost |
| Freezing (`utl_vec.c:129-228`) | a file | freeze, unfreeze | `stdio` | unfreeze gives back what was frozen |
| Memory tracer (`utl_mem.c:38-196`) | marks around each block, `utl_mem_allocated` | malloc, calloc, strdup, realloc, free, check | `malloc`, logging | the total is the sum of live blocks; bad pointers are refused |
| Memory pools (`utl_mem.c:199-310`) | list `used`, list `unused` sorted by size | malloc, free, clean, delete | `malloc` | a block is on one list; a block handed out is large enough; nothing leaks |
| Logging (`utl_log.c`, `utl_log.h`) | file, counters, levels, list of watches in the C stack | open, close, messages, check, assert, watch | `pmx`, `stdio` | counts are those of the checks made; a watch reports each pattern once |
| Exceptions (`utl_try.h`) | list of jump buffers in the C stack | try, catch, throw, rethrow | `setjmp` | a throw reaches the innermost block whose body runs |
| Pattern matching (`utl_pmx.c`) | the global `utl_pmx_`: captures, open groups | search, match, scan | | matches and captures are those of the documented reading; the call ends |
| PEG parsing (`utl_peg.c`, `.h`) | position, failure, deferred actions, static memo tables | rules, repetition, choice, parse | vectors, `pmx` | backtracking drops the actions deferred since; a memo hit equals a parse |
| Server (`utl_net.c`) | set of sockets, `maxsock`, the set of the round, `run` | select loop, accept, recv, handlers | sockets, caller's handlers | only ready sockets are read; every peer is served as long as answers are read |
| UTF-8 (`utl_utf.c`) | none | next | | accepts exactly the valid sequences |
| `utl_fsm.h`, `utl_hdr.c`, `utl_unc.c`, `utl_m.*`, `dist/` | | | | macros, word arithmetic, a build filter, and concatenations of the modules above |

Callbacks: `cmp` and `hsh` are assumed to be what a caller must supply, a total
preorder and a function of the key.  Handlers that change the structure they are
called from (a `dfs` callback that prunes) are left out of every model.

## 2. The modules

    Fifo      <--refines-- VecQueue <-- VecQueue_proof              MCVecQueue
    KeyMap    <--refines-- VecHash  <-- VecHash_proof               MCVecHash
    List      <--refines-- Vec --> Dpqsort;  Strings --> Vec        MCVec
                           Vec, Strings <-- Vec_proof
    ArbTree   <--refines-- Arb     <-- Arb_proof                    MCArb
    Allocator <--refines-- MemPool  <-- MemPool_proof               MCProgram
    Tracing, MemCheck <-- Program <-- Program_proof                 MCProgram
    Pmx, PmxDoc, Peg <-- Matching <-- Library         MCPatterns, MCMatching
    Server <-- Library;  Pmx, Server <-- Library_proof
    NatLemmas: facts on natural numbers that the proofs share

In each detailed module the variables carry the names of the C fields or
variables.  An operation is one action, except where the loop inside it is the
subject (the sort, the matcher, the run of deferred actions, the server): there
a turn of the loop is.  Definitions commented *Seeded fault* are not used by the
specification: each is a plausible mistake in the operation it stands next to,
kept so that every property can be seen to fail when the code is wrong.

### Queues: `VecQueue`, `Fifo`

`slots` is the storage as a function from positions to values, `ret` what the
last call returned.  Storage never written holds `Blank`, and a read beyond it
returns `Wild`.  `EnqRoom`, `EnqGrow` and `EnqFail` are the three outcomes of
`utl_vec_enq`: there is room, `realloc` succeeds, `realloc` fails.  `NewMax`,
`HeadFits`, `MovedFrom`, `MovedTo` and `MovedLen` spell out the three cases of
`utl_que_makeroom` (`fst == 0` is the case `HeadFits` with nothing to move).
The iterators change `cur` only.  `Fifo` is a sequence with append and drop;
the refinement maps it to the `cnt` values from `fst` on, around the storage.

### Hash tables: `VecHash`, `KeyMap`

`tab` maps slots to elements `[key, val]` or `Empty` (the hash `0xFFFFFFFF`).
The loops of the code become "the first distance at which the probe stops",
"how far the new element moves back" and "how far the shift goes", each a
`CHOOSE` with the loop's own exit condition.  A probe that cannot end (a full
table) disables the call, as the call would not return; `SomeSlotIsEmpty` says
that this never happens.  `NearerThan` keeps the code's unsigned subtraction:
it does not go around the table.  `Rehash` inserts the old elements in slot
order by a recursive function.  `Hash` is a constant: the caller's `hsh`.
`LastSeen` is what an insertion returns, the element at the slot its loop looked
at last: where Robin Hood swaps stopped short of the home slot that is the element
left before the new one, not the new one.

`KeyMap` is a function from keys to values; the refinement maps a table to
what a search finds for each key.

### Vectors and sorting: `Vec`, `Dpqsort`, `List`

`cnt`, `max`, `cmp` and `vec` are the fields of `vec_s`, `srt` the SORTED bit.
The caller's comparison is a rank per comparison function, so that different
elements may compare equal and a vector may be given another order.  Array and
stack calls take one step; a call that needs the order (`vecsort`, and
`vecsearch`, `vecadd` and `vecremove` on a vector with a comparison function)
sets `call`, lets `SortTurn` run the sort unless the flag is set, and does the
rest in a `Return` action.  `Room` gives the sizes `utl_vec_makeroom` can leave,
0 standing for a `realloc` that fails; `InsAt` makes room twice, as `vecins`
does, and the second may fail after the first has opened the gap.

The binary search is a recursive function on the range `lo .. hi`: `Halved` is a
turn of its loop, `LastRange` the range it stops at.

`Dpqsort` has an action per turn of the loops of `utl_dpqsort`: `PopSorted`,
`PopShort` and `PopLong` take a range off the stack, the last with *any* two
pivots; `Insert` is a turn of the insertion sort, whose inner loop has no limit
but the beginning of the storage; `PartLow`, `PartMiddle` and `PartHigh` are the
three cases of the partition, with `left`, `right`, `L`, `K` and `G` as in the
code; `Split` puts the pivots in place and the three parts on the stack.

`List` is what an array promises: a sequence that changes only where the call
says and that sorting permutes.  A turn of the sort refines a permutation.

### Buffers and symbol tables: `Strings`

A buffer is a record of bytes, `cnt` and `max`.  The calls are composed as in
the code from makeroom, the bytes written and the `\0` set behind them and
counted off again; none of them looks whether memory ran out.  `text` is the
text a reader expects; `wild` records that bytes were written or counted beyond
the storage, after which nothing is known and nothing is claimed.  A symbol
table is a buffer of names, each after 4 bytes of data and padded so that ids
stay aligned, with a hash table of ids; `given` is the name and data that each id
was given.  At the very end of a buffer an insertion is cut off again; `Inserted`
asks nothing there but that the text before it stays.

Of the hash table only its set of ids is kept, and what `VecHash` shows of it is
left open where it matters.  Once anything was removed, a search may miss ids that
are there (`Misses`, after finding `hash_lost`), so that a live name can be given a
second id.  Any addition may find no memory (`missed` are the ids it was for; the
call returns the id all the same), go into the table as it is, or into a larger
one, which keeps one id for each name that had several (`OneEach`, `Indexed`).
These are more outcomes than the load of a real table has at a given time.  The
empty name is left out: `utl_sym_get` returns NULL for it (line 1154), which the
hash and the comparison are called with then.

### Trees: `Arb`, `ArbTree`

`node` is the vector of nodes, `fst`, `lst` and `cur` the root, the head of the
free list and the cursor.  `Freed` folds the loop of `utl_arb_prune`, with its
queue, free list and counts, over the detached subtree.  The subtree is cut off
before the queue is allocated (1502, 1504), and nobody looks whether a `vecenq` on
it succeeds (1510, 1522): `PruneSubtree` chooses any set of nodes for which there
is no memory, the first of which stands for the queue itself (`LoopStart`), and
`Enqueued` passes them over when the queue is full.  Such a node and all below it
are then in neither the tree nor the free list: `lost`.  `QueRoom` is the room of
a new queue; what a queue has gained by growing is not kept, which makes it full
more often than it is, never less.  A node taken from the
free list keeps the `dwn` and `dat` it had, as in `utl_arb_newnode`; a vector
that cannot grow makes `NewNode` the last node, because the code ignores the
failed `vecadd`.  `ArbTree` is an ordered tree with a cursor.

The last two cases corrupt a tree (section 5), so the constant `Careful` says
whether callers stay clear of them: `MayAdd`.  The positive results about trees
are about careful callers; prunes without memory are among what they cover.

### Memory pools: `MemPool`, `Allocator`

`used` and `unused` are the two lists as sequences, without their heads;
`heap` is what `malloc` returned and was not freed, a ghost that lets leaks be
stated.  `Place` is where both searches stop, `TooLarge` the test against the
doubled request in 32 bits.  `MallocReused` and `MallocNew` are the two halves
of `utl_mpl_malloc`; `Free`, `Clean` and `Delete` are the three uses of
`utl_mpl_free`.  `Free` takes any pointer, as the code searches for it first:
blocks given back already and blocks of somewhere else included.  A NULL
pointer is `Delete`.  `Allocator` knows which blocks are handed out, with what
capacity, and what the last call returned.  The module's names for what every
module has begin with `Pool` (`PoolSpec`), so that `MCProgram` can check it next
to `Program`.

### Programs: `Tracing`, `MemCheck`, `Program`

These three are one program that nests try and logwatch blocks, logs, checks
and allocates.  `scopes` is the part of the C stack that holds such blocks,
innermost last; `jmp` and `watch` are `utl_jmp_list` and `utl_log_watch` as
positions in it (0 is NULL).  `Throw` is `longjmp`, the unwinding it causes
(without any watch being ended) and the choice of the clause; `InClause` is
what `utl_catch` and `catchall` do to the list.  A throw that no block awaits
aborts; a message checked against a watch whose frame is gone is
`ReadDeadWatch`, after which nothing is known.  `LogOpen` covers the file that
cannot be opened and the fall back to `stderr`.

`MemCheck` keeps for each address the size and the two marks of its block, also
after the block is gone, because `utl_check` reads them there.  `Free` and
`Realloc` take what the code takes; `Overrun` is a program's write beyond a
block.  `Program` joins them: every call of the tracer prints to the log.

### Matching: `Pmx`, `PmxDoc`, `Peg`, `Matching`

A pattern is a sequence of tokens, one for each construct of `doc/pmx.md`
(characters, groups plain, negated and repeated, `|`, sets with repetition, back
references, delimited text, end of text, case, unknown recognizers), well-formed
or not.  `Pmx` has an action per turn of `utl_pmx_match`'s loop, with `p` and
`t` for the two pointers and the fields of the global `utl_pmx_`; `Retry` and
`ScanFrom` are the outer loops of `utl_pmx_search` and `utl_pmx_scan`.
`PmxDoc` is what the document says a pattern matches, a recursive definition on
the pattern that never looks at a stack or at a capture count.
`PmxDoc!Documented` says for which patterns the code agrees.  These are fewer than
the document explains: examples of three of its lines are left out, and
`MCPatterns` has them, as calls for `ExampleMatches`, the same comparison without
`Documented` (section 5).

`Peg` evaluates the macros of a rule: `Eval` maps a state of the parser
(failure, position, deferred actions, error position, the memo tables) to a
state, in the order of the macros' assignments, for a grammar given as
expressions.  `Parse`, `Act` and `Finish` are the steps of `utl_peg_parse`,
`NewText` a program that puts another text in the same buffer and parses again
with the static memo tables as they were left.  Two readings to compare with:
the parse without memo tables, and parsing expressions (`Peg!Peg`).

`Matching` is a program that matches or parses; the parser's `pegpmx` calls the
matcher where it stands.

### The server: `Server`, `Library`

`Connect`, `Send` and `Leave` are the peers' moves, possible between any two
steps of the server; a peer that leaves closes (what it sent can still be read)
or resets.  `Select` copies the watched sockets that are ready, up to `maxsock`;
`Serve` is one turn of the round: `NewConn` for the listening socket, `GotBytes`
for the others; `EndRound` looks at `run`.  The number of a new socket is the
lowest free one, so that a socket closed earlier in a round may be handed out
again within it.  The caller's handlers may answer, keep silent or ask to stop.
The sockets block, and so does the `send` of an answer (line 58) for which the
connection has no room: the server is `sending` until `Sent`, which is up to the
peer alone, and serves nobody meanwhile.  An answer to a peer that has left may
raise `SIGPIPE`, which nothing in the library handles: `killed`.
`Library` is a program that matches, parses or runs a server.

## 3. What the runs check

| Run | Bounds | Shows |
|---|---|---|
| `queue` | 2 values, storage 2, 4, 6 | types, agreement of the counters, no uninitialised element, legal `memcpy` on growth, iteration order, refinement of `Fifo` |
| `queue_last` | same | finding: `veclastptr` after the tail wrapped |
| `hash_low` | 4 keys, 2 values, 8 and 16 slots, homes away from the end | every element is found, Robin Hood order, refinement of `KeyMap` |
| `hash_full` | 9 keys with 9 homes, 1 value, 8 and 16 slots | an empty slot remains at the load limit, also when growing fails; the count covers the elements and stays below the size |
| `hash_lost` | 4 keys around the end of 8 slots | finding: removing a key loses another |
| `hash_first` | 4 keys, 8 slots | finding: `vecfirst` runs past the storage |
| `vec` | up to 6 slots, 3 elements of which 2 compare equal, 2 orders, any pivots; or a buffer of up to 4 bytes; or a symbol table of up to 16, 36 or 54 bytes | the SORTED flag tells the truth, a set call leaves exactly the elements it should, in order, each range of the sort stays in place, its stack is shallow, every call returns, refinement of `List`; strings and symbols are kept |
| `arb` | 4 nodes, 1 stored value, queues that are full with 1 node or find no memory, careful callers | tree, free or lost, links, the count of the tree and the lost, the assertion in `utl_arb_detach`, refinement of `ArbTree` |
| `arb_reuse` | 8 nodes, any caller | finding: a reused node keeps its children |
| `prog` | 3 nested blocks, 1 exception, 1 pattern, 2 checks, 2 addresses; or a pool with 4 blocks, requests 1, 3, 4, 7, 9, words of 4 bits | throws and watches find live blocks, watches report what they should, used memory is that of the live blocks; every block of a pool on one list, the search list sorted, reuse before `malloc`, refinement of `Allocator` |
| `match` | all patterns of up to 4 tokens out of 8 kinds and 30 longer ones, texts of up to 4 characters; 6 grammars on texts of up to 4; or 3 peers and sockets 1 to 4 | captures lie in the text, documented patterns match as documented, calls end; parses are those of the grammar, with or without memo tables; the server never waits in `recv` or `accept` for one peer, and serves every one as long as its answers are read |
| `patterns` | `<+>(ab\|cd)` on texts of up to 4 characters | finding: the documented example does not match |

The bounds and why they are enough:

* `MaxMax` bounds the storage: a growth beyond it fails, which is also how a
  refused allocation is modelled, so both outcomes occur in every run.  Queues
  grow twice (2, 4, 6), so a head that a growth moved is moved again; the
  three cases of `utl_que_makeroom` all occur.  `vec_MIN_ELEM` is 16 in the
  code; the models need it even (queues) and large enough that the load limit
  leaves a slot (tables: 5 or more).  The proofs hold for every such value.
* Values are interchangeable: two tell order and identity apart.
* Four keys give a run of collisions, an element displaced by another, and one
  behind it that a removal moves.  The low hashes collide in slots 0 and 1 with
  one key whose home changes when the table grows; the end hashes use slots 6
  and 7 of 8.  Filling a table needs more keys than reaching collisions does,
  hence the run of its own with nine keys and nine homes.
* Sorting: `Small` is the length up to which insertion sort is used, less one
  (the code's 4 would leave nothing to split in 6 elements); 1 makes ranges of
  three and more be split, so that two levels of splitting, empty parts, equal
  pivots and all three parts non-empty occur.  Two of three elements compare
  equal in one order and none in the other.  `Hole` lets a call reach one
  position beyond the end.
* A buffer of 4 bytes with texts of 0, 1 and 2 characters grows, is refused
  growth, and has insertions at the front, inside and at the end.  Names of 4
  and of 9 characters in tables of 16, 36 and 54 bytes end on and off the
  alignment, and 54 is the first size of the growth that is no multiple of 4.
* Four nodes allow depth four, three siblings with a middle one to prune, and
  a free list of three nodes.  With `QueRoom` 1 (16 in the code) the second of
  two children finds the queue full, so a prune may lose a node in the middle of
  a child list as well as the whole subtree.
* Four blocks of a pool give a list to insert into at both ends and in the middle.  The
  requests are one that is rounded up (1), one a little and one much smaller
  than another (3, 4, 7), and one whose double wraps around (9).
* Three nested blocks give a try around a watch around a try and every other
  order; one exception is caught or not; two addresses let a block move in a
  `realloc`.  `MaxCount` bounds the checks counted, and `Excs`, `Pats` and the
  levels (0 and 5: below and above every threshold) are what the conditions
  tell apart.  The two addresses are symmetric.
* `MaxCapt` is 6 instead of 16, so that a pattern can open more groups than
  there may be.  `Enough` bounds what is counted of a repetition, `Inf` stands
  for `INT32_MAX`.  The longer patterns hold what four tokens cannot: groups
  after alternatives with groups, back references into them, repeated choices.
  Patterns are tried on every text over their alphabet.  The grammars are that
  of `test/ut_peg.c` reduced, and five for backtracking over a memoized rule,
  lines, look-ahead, errors, and the forms that do not do what they say.
* Sockets 1 to 4 with the listening socket at 2: one number below it and two
  above, so that a freed number is reused on either side of the listening
  socket within a round, and `maxsock` moves.  Three peers give one that is
  served, one that leaves and one that connects in the same round.
* `Word` stands for 2^32 (TLC's integers are narrower): 10^6 exceeds every
  product the runs form.  `LoadBound` states what is needed in general.

### Fairness and liveness

The library does nothing unless it is called, and a caller need not call again.
Fairness is assumed only where the code itself keeps going:

* `Vec`: weak fairness of `SortTurn` and `Return`: a call is synchronous, so the
  sort's loops and the rest of the call run to the end.  `EveryCallReturns`
  then says that they end, whatever the pivots.  The actions that begin a call
  have no fairness.
* `Matching`: weak fairness of the matcher's turns, for the same reason.
  `MatchEnds` is claimed for patterns without a repeated group that matches the
  empty text, and, for a scan, that take some text; the others do not end.
* `Server`: weak fairness of `Select`, `Serve` and `EndRound`: the thread runs,
  and `select` returns when a socket is ready.  `Sent` has no fairness: a peer
  need never read, and then `send` never returns.  `EveryPeerIsServed` therefore
  has a premise about the peers, `AnswersAreRead`: the server is not left waiting
  for one of them for ever.  With it, no peer waits for ever, however busy the
  others are, unless the server ends; without it, one peer that sends and never
  reads stops them all.  A handler may ask to stop at any time.

Deadlock is checked in all runs but `match`, `patterns` and `prog`: a match or a
parse ends, a server stops, and a program aborts.  There a state without a
successor is a normal end.

## 4. What is proved

`VecQueue_proof`, from the named assumptions on the constants only (an even
size of 2 or more, a marker beyond every size, distinct markers):

* `Typing`, `Counters`, `Initialised`, `LegalMoves`: the invariants of run
  `queue` hold for every size, bound and set of values.  The inductive
  invariant is `TypeOK /\ EvenMax /\ TailFollowsHead /\ NoBlankElement`.
  `TailFollowsHead` is needed for `NoBlankElement`, because an enq writes at
  `lst` and the elements are counted from `fst`; `EvenMax` (sizes stay even,
  which the rounding in `NewMax` is for) is needed for `LegalMoves`: with an
  odd size the part moved to the end could overlap where it comes from.
* `Refinement`: `Spec => Fifo!Spec` with `Contents` for the queue.  The cases
  of a growth are where each position of the old contents is shown to be found
  at its place in the new storage.
* `IterationOrder`: the action property `NextVisitsInOrder`, from the same
  invariant.

`VecHash_proof`, for every hash function, set of keys and values, size and
bound, if `100 * MaxMax < Word` (the range in which `cnt * 100` at
`utl_vec.c:667` does not overflow; in 32 bits it holds up to 2^25 slots, and
beyond that the load limit is not enforced):

* `Typing` and `LoadBound`: the table keeps its types; the count covers the
  elements and stays below the number of slots.  The two need each other: that
  an insertion is well typed needs a probe that ends, hence an empty slot, hence
  that fewer elements than slots are counted; that the count covers the elements
  needs to know which slots an insertion or a shift changes.
* `ProbesMeetEmptySlot`: `SomeSlotIsEmpty` follows from the two by counting.
  An insertion is shown to add one element at most and a rehash to keep the
  number, by an injection of slots; the recursion in `Rehash` is followed with
  `LeastNatural`.
* `NoneHidden`, `HomesInOrder` and `TableIsAMap`: `EveryElementIsFound`,
  `RobinHoodOrder` and `ImplementsKeyMap`, for every hash function, in every
  behaviour in which no element is stored before its home slot (the temporal
  premise `[]NoElementWraps`; finding `hash_lost` is a behaviour without it in
  which the three fail).  The inductive invariant `Good` says that no slot is
  empty between an element and its home, that the elements are in the order of
  their homes over the whole table and that no key is twice in it.  The order is
  needed for the removal, which stops before an element in its home slot and
  would else leave an empty slot on the way to an element behind it.  The premise
  is about the states a caller sees; that it also holds for the tables a rehash
  goes through is `WrapStays`: an element before its home is never swapped.
* `FewKeysNeverWrap`: the premise holds in every behaviour if all the keys fit
  between any home and the end of each table reached by doubling.  The keys of
  run `hash_low` are such keys.

`Vec_proof`, for every number of elements, rank functions,
ranges of insertion sort, storage sizes and bounds, and with any pivots; from
the assumptions that a rank is a number, that `Small` is at least 1 and the least
storage even, 2 or more and within the bound, and that `None` is no call and no
position; what it assumes of buffers and symbol tables is with `StringsKept`
below:

* `TurnKeepsOrder`: a turn of the sort keeps `SortInv`: two elements out of order
  share an unfinished range (`InPlace`, which is `RangesInPlace`); the
  unfinished ranges are apart (`RangesApart`), without which permuting one would
  disturb another; and `AtWork`, what insertion or partition have done in the
  range at work, without which nothing would be known of the parts that a
  `Split` leaves.  A turn only moves elements within the range at work (`Moves`),
  so `InPlace` of the others is kept (`Permuted`); what remains is that two
  elements out of order do not come from different parts (`PartedSplit`), or,
  with an inner loop limited by nothing but the order, that it stops inside the
  range (`InsertPlace`).
* `SortEnds`: with no range left, `InPlace` says that the elements are in order.
* `Flagged`, `Typing`, `InPlaceAlways`: invariants of run `vec`, from `Inv`,
  which joins `SortInv` with the flag and the call that waits for the sort.  The
  flag cannot be proved alone: the second half of a call sets it because the
  sort is over.
* `SetCalls`: `SetCallsAreRight`.  The search is followed with `LeastNatural` on
  the length of its range: below the range everything is smaller than the
  element looked for, above it everything is larger (`Around`), so an empty
  range is the place to insert, and `InsertedOrdered` is the order after it.  The
  property is about contents: an addition overwrites the equal element found or
  puts the new one between its neighbours, a removal takes that element away, and
  every other element is where it was, or one place further.

* `ShallowStack`: `StackIsShallow`.  The invariant (`StackInv`) says of every
  range on the stack that what it may still push fits above it (`Deepest`): with
  k ranges below it and n elements in it, `k + DepthFor[n]` is at most
  `DepthFor[cnt]`.  A turn of the sort takes the top range and pushes its three
  parts, the longest first; sorted by length (`PushedSorted`) the second has at
  most half and the third at most a third of what was there, and that is the
  equation of `DepthFor`.  It grows with n (`DepthGrows`), which a recursive
  function must be shown to do: by its least counterexample, as elsewhere.
* `StackOf128`: multiplying the elements by 27 adds at most 6 to the depth
  (`Depth27`), so fewer than 2^32 elements need no more than 43 of the 128 places
  of `stack` in the code (`utl_vec.c:404`).
* `VectorIsAList`: `ImplementsList`, that is `Spec => List!Spec` with `Contents`
  for the list.  A sort is the hard part, because `Moves` does not say that no
  element is lost or copied: `TurnKeepsElements` gives the bijection of indexes
  of a turn (`SameElements`) by composing those of its swaps and of the slide of
  an insertion, and `SameCopies` turns a bijection into equal numbers of copies.
  The other calls are the list's operations on sequences, where the storage
  before and after is compared index by index (`ListReplaces`, `ListExtends`,
  `ListInserts`, `ListDeletes`); a storage that does not grow leaves the list.

These are theorems about `Vec!Spec`; run `vec` checks the same properties in a
program that uses a vector, a buffer or a symbol table, `AllSpec`, and
`VectorPart` says that what holds of the one holds of the other.  Termination of
the sort (`EveryCallReturns`) is only model-checked.

* `StringsKept`: `StringsAreKept`, a theorem about `AllSpec`, from
  `StringsAssumption`: texts and names are finite sequences, no name is empty or
  contains a `\0`, a storage begins with a byte at least, limits are numbers, and `None`,
  which stands for a deleted symbol, is no symbol.  Nothing is assumed of their
  lengths or of the limit, so memory may run out in any call.
  For buffers the invariant is `BufInv`: the storage is well formed, the text has
  `cnt` bytes and they are those of the storage but for the unknown ones, and
  there is a `\0` inside the storage unless the caller owes it.  Each way of
  writing has its lemma (`SetCWrites`, `WrittenFacts`, `SetSFacts`): which bytes
  it writes, that it leaves the others alone (`SameBut`), and how far the storage
  has grown.  A string is set byte by byte, and its `\0` last: that bytes which
  were refused one by one leave no room for the last is `GrownTwice`, growing
  for a byte and then for a later one comes to the size that growing for the
  later one does.  The calls are composed of these (`SetSLeaves`, `InsLeaves`,
  `CutLeaves`, `FmtLeaves`, `ReadLeaves`).
  For symbol tables `SymbolsKeepTheirNames` is not inductive: a deletion zeroes a
  stretch of the storage that another name might share, and an id that was
  deleted must never look alive to `utl_sym_setdata`.  `SymInv` says that every
  id ever given has its own stretch, its 4 bytes of data, its name and a `\0`
  (`Placed`, `Apart`), a deleted one with a `\0` at the id, all below an aligned
  count within the storage; and that the table holds live ids only and, until something
  is deleted, for each name the id given last for which it found memory
  (`IsIndex`).  `IndexedKeeps` has a case for each outcome of an addition: a larger
  table keeps one id for a name, which loses nothing while there is one only
  (`NewestIsOne`, `NewestGrows`).  A new symbol is written behind all others (`StoreKeeps`): if no
  room was made for it, the count is beyond the storage and nothing is claimed.

`MemPool_proof`, for every set of blocks, sizes, least size and word width,
from the assumption that requests fit in a word:

* `Invariance`: the inductive invariant `IInv`.  `OnOneList` alone is not
  inductive (it speaks of the two lists joined, and a clean takes the lists
  apart one block at a time); `Partition` says of each list that no block is on
  it twice, and of both that they share none and make up the heap.  Order is
  part of it because the place of the next block is found by searching.
* `NoBlockLost`, `SearchesSorted`, `Typing`: the invariants of run `prog` about pools.
* `ReusedFirst`: the action property `ReusesWhenItCan`: the block at which the
  search stops is the smallest that fits, so if it is too large so are those
  behind it.
* `Refinement`: `Spec => Allocator!Spec`.

`Program_proof`, for every set of exceptions and patterns, depth of nesting and
number of checks:

* `PointersAreLive`: `ScopesAgree`.  Inductive only with more: that the `prv` of
  *every* block on the stack, not of the top one alone, is the innermost armed
  block, or watch, below it at the time it was entered, because a throw unwinds
  several blocks at once and takes the pointer from where it lands.
* `WatchesReport`: `ReportsAreRight`, from the invariant that what is left to be
  seen by a watch is what it wanted less what it has seen.

* `UsedIsCounted`: `UsedIsLive`, from `MemInv`, for any set of addresses; assumed
  is that a size is a natural number and that `Empty` is not a block.  The two
  halves of the invariant need each other: that a free takes the size of a held
  block off the number rests on the mark telling that it is held.  `UsedIsLive`
  sums over a set with a fold that chooses the next element; `SumAny` shows that
  the choice does not matter, so that a step that adds or takes away one block
  adds or takes away its size.  All of it is by induction on finite sets, in the
  form of `LeastSet`: look at the least set the claim fails for.

`Arb_proof`, for any number of nodes and any data, for careful callers (`Careful`,
without which finding `arb_reuse` refutes them):

* `EveryNodeHasItsPlace`, `LinksStayRight`, `CountIsOffByTheLost` and
  `DetachNeverFails`: the invariants `TreeOrFree`, `LinksAgree`,
  `CountIsTreeAndLost` and `DetachAssertion` of run `arb`, whichever allocations
  of a prune's queue fail: a node is in the tree, in the free list or among the
  lost ones, which no list reaches.  None is inductive, and they speak of nodes reached by
  following links, which a proof cannot take one by one.  The inductive
  invariant (`IInv`, a `Shape`) therefore names the set of the tree's nodes, with
  ranks that grow from a parent to its children and from a sibling to the next,
  and the set of the free ones, in the order of the lengths kept in `dat`.  The
  ranks are what keeps links from closing a cycle; `TreeNodesIs` and `ChainLists`
  give back the recursive definitions from it.  `ChildAdded`, `SiblingAdded` and
  `CutOff` are the three ways a tree changes.  `Turning` is what holds between
  two turns of the loop of a prune: the queue, the nodes that were passed over, the nodes below both and the
  free ones share nothing and are all of the detached subtree and the old free
  list, so a child list is still whole when its owner is freed, although freeing uses
  the links of siblings.
* `NodesAreATree`: `ImplementsArbTree`, that is `Spec => ArbTree!Spec` with the
  lists that `Chain` follows for the sequences of children.  There is one way to
  follow links to their end (`WholeUnique`), so to know a list after a call it is
  enough to give a sequence that follows the new links: `ChildKids`,
  `SiblingKids` and `CutKids` give it, and show that the other lists stay.  The
  parent and the subtree that `ArbTree` finds by its lists are those the code
  finds by `upn` and by its queue (`UpAndDown`).

`Library_proof`, for any calls, captures, tokens, texts, peers, sockets and
chunks:

* `CapturesSafe`: `CapturesInText` and the types of the matcher's fields, as
  long as no group is entered when all captures are taken.  The premise is
  `EveryGroupHasCapture`: `utl_pmx_newcap` drops a capture that does not fit,
  `utl_pmx_state_push` gives the group its number all the same
  (`utl_pmx.c:60`), and what that number stands for is beyond the array.  The
  inductive invariant (`MatchInv`) says of the open groups that each began in
  this attempt, not before the one around it and not after where the text is
  matched up to, and has a capture of its own, numbered higher than those of
  the groups around it.  These facts are what makes going back safe: a
  failure puts the text back to the start of a group's capture (`FailKeeps`),
  a `)` gives the capture its end (`Recaptured`).  That `utl_pmx_alt`,
  `utl_pmx_alt_skip`, the loop of `utl_W` and `utl_pmx_get_delimited` end, in
  the pattern or the text, is proved of the recursive functions they are
  modelled by (`AlternativeLooks`, `RunInText`, `DelimitedInText`; the
  induction, over loops of any kind, is in `NatLemmas`).
* `FewGroupsSafe`: the premise holds for every pattern that repeats no group
  and has fewer groups than there are captures: a match never takes more
  captures than it went past groups (`CountInv`, `Counts`).  A repetition takes
  the captures of the groups inside it anew each time, so that no such bound
  holds for it.
* `OnlyReadyServed`: `ServesOnlyReady`.  The inductive invariant adds that the
  sockets of a round do not exceed `maxsock`.  The step that matters is an
  accept in the middle of a round: the number it hands out is not that of a
  socket still to be served, since those are all open.  It is about `recv` and
  `accept`; the server may wait in `send`, and the sockets of the round stay ready
  while it does.

A clean, a rehash, a growth and a binary search are loops, written as recursive
functions.  What they
compute is proved by looking at the first iteration that goes wrong:
`NatLemmas!LeastNatural` states that there is one; that the functions defined by
the recursions exist is shown in the same way.

Only model-checked, out of all that passing runs check: the three liveness
properties (`EveryCallReturns`, `MatchEnds`, `EveryPeerIsServed`), which rest on
fairness; `MemoChangesNothing` and `ParsesAsPEG`, because the parser evaluates
nested expressions by recursive operators; and `MatchesAsDocumented`, because
`PmxDoc` is recursive over the pattern.  What these compute for every grammar or
pattern would be an induction over data, which the provers cannot do.

## 5. Findings

* `utl_vec.c:792` (`queue_last`): `lst - 1` is not taken around the storage, so
  `veclast` on a queue whose tail has just wrapped reads outside it.
* `utl_vec.c:571` (`hash_lost`): the swap on insertion computes the distance
  from home without going around the table, so Robin Hood order fails for
  elements that wrapped past the last slot; the backward shift of a removal
  relies on it and stops early.  A key is then cut off from its home slot.
* `utl_vec.c:760` (`hash_first`): overwriting counts as one more element, so a
  table can be empty with a positive count, and `vecfirst` searches it.
* `utl_vec.c:1270` (`arb_reuse`): a node from the free list keeps `dwn`, so the
  next node added under it, or a prune, follows links to nodes that are free or
  in use elsewhere; the assertion at 1477 fails.  The same happens when
  `vecadd` fails at 1279: with `MaxNodes = 2` the run finds that case.
* `utl_pmx.c:547` (`patterns`): a repeated group ends when a turn fails after
  enough turns; if nothing of the pattern is left then, the match is taken for
  failed.  `<+>(ab|cd)`, which `doc/pmx.md:155` says to match `abab`, never
  matches.  `MCPatterns` has two more calls for this run, to be put for `Calls`:
  - `CallsBranch`, `utl_pmx.c:463`: `a(b|c)|d`, which `doc/pmx.md:71` says to match
    `ab`, `ac` or `d`, matches `ad` as well, because the inner group that failed is
    still the innermost open one when the second `|` comes.
  - `CallsQuoted`, `utl_pmx.c:237`: `<Q>`, which by `doc/pmx.md:126` matches a quoted
    string, also matches one without its closing quote if the text ends in the
    escape character (`utl_pmx_error` is set then).

What the models do as the code does, without a run of its own because no
statement of the repository says otherwise, or because it is a matter of
wording:

* Sorting: the comment before the pushes in `utl_dpqsort` says the largest range
  is handled first; the code pushes it first, so that it is handled last, which
  is what keeps the stack shallow (`StackIsShallow`).
* Buffers: what is inserted at the very end is cut off again by the `\0`
  (`utl_vec.c:942`); a read that gets less counts the bytes asked for (881); no
  call looks whether a growth failed, so that bytes are dropped or written
  beyond the storage.
* Hash tables: `vecadd` may return the element before the one it added
  (`LastSeen`).
* Trees: a prune without memory loses its subtree, or part of it, returns 1 only
  if it was the queue itself that could not be allocated, and `arbcount` goes on
  counting the lost nodes; that it counts those of the tree is said only by a
  test with memory (`test/ut_arb.c:219`).
* Symbol tables: after a deletion a name that is there may not be found and be
  given a second id (by `hash_lost`); an id is returned also when the hash table
  had no memory for it.  `symaddnew` of a name that is there puts the new id in
  the place of the old one in the hash table; in a storage of 54 bytes the padding
  after a name is written beyond it (1112).
* Logging: `utl_log_open` of a file that cannot be opened gives `stderr`, where
  `doc/log.md:44` says NULL.  An exception out of a `logwatch` leaves
  `utl_log_watch` pointing at a dead frame.
* Tracer: `utl_realloc` of an invalid block returns the pointer as it is.
* Patterns: a repetition whose group fails midway goes on from where the failing
  turn stood (450), and a group inside a negated one is negated (489);
  the document has no example of either.  (Of the other patterns that
  `PmxDoc!Documented` leaves out it has: they are the findings above.)
* Parsing: `pegrpt(n,n)` always fails, `pegcheck` never does, `pegempty` and
  `pegerror` do not look at an earlier failure (`Peg!Standard`).
* Server: a handler's request to stop is lost when another peer is served after
  it in the same round, a peer that resets its connection stops the server
  if it is the last one served, and one that never reads its answers stops it
  for all others.

## 6. Not modelled, and why

* `vecclear`, `vecdropall` and positional operations on a queue, a table or a
  tree: the macros do not restrict them, but they do not keep these
  structures' fields and nothing in the repository uses them so.
* Iterating a full queue (`fst = lst`) and past the end: `vecnext` ends after
  the first element.  The actions model it, no property claims anything of it.
* `vecnext`, `veclast` and `vecprev` on a hash table, and `arbdfs` and `arbbfs`:
  they change only a cursor, and calls made from their callbacks are undefined.
* The last bytes of a swap.  For elements whose size leaves 2 or 3 when divided
  by 4, `utl_dpqswap` moves its pointers backwards over the rest
  (`utl_vec.c:363-367`): it swaps bytes it has swapped already, or for sizes 2
  and 3 those of the element before, instead of the last ones.  `Vec` treats an element as one value and swaps it whole: what is
  checked and proved of sorting is about the other sizes.
* Ranges of the sort whose end is the last 32-bit position.
* Freezing (`vecfreeze`, `vecunfreeze`, `vecwrite`): file formats; a vector read
  back keeps the SORTED flag it was written with and takes its comparison
  function from the caller, who has to give the one it was sorted by.
* What is in a block of a pool (`utl_mem.c:288` clears its first word on a
  free), and `utl_mpl_calloc`,
  `_realloc` and `_strdup`, which are declared and not defined.
* Stored hashes and element layout: the cached hash is a function of the key.
* A `return`, `break` or `goto` out of a try block; the texts that logging
  prints; rotation and scenario macros, which print only.
* Pattern classes beyond sets of characters (`<N>`, `<L>` and the caller's
  extension read as a set or not at all), an exception thrown out of a parse or
  a scan's callback that calls the matcher again: both would leave or replace
  static state, and no document allows or forbids them.
* The server's start (`socket`, `bind`, `listen` and their errors), running out
  of descriptors or of `FD_SETSIZE`, and the byte before its buffer that
  `buf[n]` clears when `recv` returns -1 (`utl_net.c:52`).
* UTF-8 (a table-driven function without state), the state machine macros
  (`goto`), hashes and random numbers, `utl_unc.c` and the concatenations:
  nothing in them has a history.  Examples, tools and vendored support are not
  part of the library.

## 7. What could come next

* `next`, `prev` and `last` on hash tables; freezing with the flags and
  functions that a file does not hold.
