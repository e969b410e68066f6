------------------------------ MODULE Strings -------------------------------
(***************************************************************************)
(* Character buffers (buf_t) and symbol tables (sym_t) of utl_vec.c, both  *)
(* built on vectors.  A program uses a vector, a buffer or a symbol table. *)
(*                                                                         *)
(* A buffer is [bytes, cnt, max] with the fields of vec_s; the byte after  *)
(* the last is to be '\0'.  A symbol table keeps each name in a buffer, at *)
(* its id, after 4 bytes of data; `table' is the hash table of the ids,    *)
(* taken as the set of its elements.  VecHash has its details: here it is  *)
(* left open when it grows, when it finds no memory to grow, and, once     *)
(* something was removed from it, which of its elements it finds again.    *)
(*                                                                         *)
(* None of these calls looks whether memory ran out.  When one of them     *)
(* writes beyond the storage, or counts beyond it, nothing is known of     *)
(* what follows: `wild'.                                                   *)
(***************************************************************************)
EXTENDS Vec

CONSTANTS
  Nul,         \* the byte 0
  Junk,        \* the bytes of a storage that nothing was written to
  Newline,
  Letters,     \* single characters
  Texts,       \* strings that are set, inserted, formatted or read
  Names,       \* names of symbols
  Words,       \* data of symbols; Nul is 0
  StrMin,      \* vec_MIN_ELEM, for a buffer and for a symbol table
  StrLimits    \* the sizes beyond which realloc fails

\* Characters of strings; the '\0' is not part of a name.  The empty name is
\* left out: utl_sym_get returns NULL for it, which is hashed and compared then.
Chars == UNION {{s[i] : i \in DOMAIN s} : s \in Texts \cup Names}

ASSUME StringsAssumption ==
  /\ Texts \subseteq Seq(Chars) /\ Names \subseteq Seq(Chars \ {Nul}) \ {<<>>}
  /\ None \notin [name : Names, data : Words \cup {Nul}]
  /\ \A u \in {"buf", "sym"} : StrMin[u] \in Nat \ {0} /\ StrLimits[u] \subseteq Nat

VARIABLES
  use,         \* "vec", "buf" or "sym"
  lim,         \* no realloc beyond this size succeeds
  buf,         \* the buffer
  wild,
  text,        \* history: what the buffer should hold; Junk stands for any byte
  raw,         \* history: the buffer need not be terminated
  table,
  given,       \* history: id -> its name and data, or None when deleted
  missed       \* history: ids for which the hash table found no memory to grow

strvars == << use, lim, buf, wild, text, raw, table, given, missed >>
symhist == << table, given, missed >>

HasRoom(x, n) == n < x.max \/ Grown(x.max, n) <= lim

\* utl_vec_makeroom, when it succeeds
Roomy(x, n) ==
  IF n < x.max THEN x
  ELSE LET m == Grown(x.max, n) IN
       [x EXCEPT !.max = m, !.bytes = [i \in 0 .. m - 1 |-> IF i < x.max THEN x.bytes[i] ELSE Junk]]

\* bufsetc, which says nothing when it fails
SetC(x, i, c) ==
  IF ~ HasRoom(x, i) THEN x
  ELSE [Roomy(x, i) EXCEPT !.bytes[i] = c, !.cnt = Larger(@, i + 1)]

\* bufsetc(b,b->cnt,'\0'); b->cnt--
Ended(x) == [SetC(x, x.cnt, Nul) EXCEPT !.cnt = @ - 1]

\* The bytes of s written at i through a pointer: those that are in the storage.
Written(x, i, s) ==
  [x EXCEPT !.bytes = [k \in DOMAIN @ |-> IF k >= i /\ k < i + Len(s) THEN s[k - i + 1] ELSE @[k]]]

\* utl_buf_sets and utl_buf_readln, byte by byte
SetS(x, i, s) ==
  LET put[k \in 0 .. Len(s)] == IF k = 0 THEN x ELSE SetC(put[k - 1], i + k - 1, s[k])
  IN [SetC(put[Len(s)], i + Len(s), Nul) EXCEPT !.cnt = i + Len(s)]

\* utl_buf_inss and utl_buf_insc: what is inserted at the very end is cut off
\* again by the '\0'.
InsS(x, i, s) ==
  IF ~ HasRoom(x, x.cnt + Len(s)) THEN x
  ELSE LET r == Roomy(x, x.cnt + Len(s))
           gap == IF i >= x.cnt THEN r
                  ELSE [r EXCEPT !.cnt = @ + Len(s),
                                 !.bytes = [k \in DOMAIN @ |->
                                    IF k >= i + Len(s) /\ k < x.cnt + Len(s) THEN @[k - Len(s)] ELSE @[k]]]
       IN Ended(Written(gap, i, s))

\* utl_buf_del, from i to j
Cut(x, i, j) ==
  Ended(IF i >= x.cnt THEN x
        ELSE IF j + 1 >= x.cnt THEN [x EXCEPT !.cnt = i]
        ELSE [x EXCEPT !.cnt = @ - (j - i + 1),
                       !.bytes = [k \in DOMAIN @ |->
                         IF k >= i /\ k < x.cnt - (j - i + 1) THEN @[k + (j - i + 1)] ELSE @[k]]])

\* utl_buf_fmt
Fmt(x, i, s) ==
  IF s = <<>> THEN x
  ELSE [Written(SetC(x, i + Len(s) + 1, Nul), i, Append(s, Nul)) EXCEPT !.cnt = i + Len(s)]

\* utl_buf_read of n bytes where the file has only s left: the count is that of
\* the bytes asked for.
Read(x, i, n, s) ==
  LET got == IF HasRoom(x, i + n + 1) THEN Written(Roomy(x, i + n + 1), i, s) ELSE x
  IN [SetC(got, i + n, Nul) EXCEPT !.cnt = i + n]

-----------------------------------------------------------------------------
(* Buffers *)

Positions == 0 .. buf.cnt

\* The text with s put at i, over what was there, as its end.
Put(i, s) == SubSeq(text, 1, i) \o s

\* A call that leaves x and should leave the text w; last is the last byte it
\* needs room for, and it has written or counted the bytes below end.
BufWrite(x, w, last, end) ==
  /\ use = "buf" /\ ~ wild
  /\ buf' = x /\ wild' = (end > x.max)
  /\ raw' = ~ HasRoom(buf, last)
  /\ text' = IF raw' THEN [k \in 1 .. x.cnt |-> Junk] ELSE w
  /\ UNCHANGED << use, lim, symhist >>

BufCall(x, w, last) == BufWrite(x, w, last, x.cnt)

BufSetC(i, c) ==
  /\ use = "buf" /\ ~ wild
  /\ buf' = SetC(buf, i, c)
  /\ raw' = (raw \/ i >= buf.cnt)
  /\ text' = IF ~ HasRoom(buf, i) THEN text
             ELSE IF i < buf.cnt THEN [text EXCEPT ![i + 1] = c]
             ELSE text \o [k \in 1 .. i - buf.cnt |-> Junk] \o << c >>
  /\ UNCHANGED << use, lim, wild, symhist >>

BufAddC(c) == BufCall(Ended(SetC(buf, buf.cnt, c)), Append(text, c), buf.cnt + 1)
BufSetS(i, s) == BufCall(SetS(buf, i, s), Put(i, s), i + Len(s))
BufReadLn(i, s) == BufCall(SetS(buf, i, Append(s, Newline)), Put(i, Append(s, Newline)), i + Len(s) + 1)

\* The text with s inserted at i.  At its very end nothing is expected of what
\* the call adds, only that the text before it stays.
Inserted(i, s, x) ==
  IF i < buf.cnt THEN SubSeq(text, 1, i) \o s \o SubSeq(text, i + 1, Len(text))
  ELSE text \o [k \in 1 .. x.cnt - buf.cnt |-> Junk]

\* A failed insertion leaves the buffer as it was.
BufIns(i, s) ==
  IF HasRoom(buf, buf.cnt + Len(s))
  THEN LET r == InsS(buf, i, s) IN BufCall(r, Inserted(i, s, r), buf.cnt + Len(s))
  ELSE use = "buf" /\ ~ wild /\ UNCHANGED strvars

BufDel(i, j) ==
  BufCall(Cut(buf, i, j), SubSeq(text, 1, i) \o SubSeq(text, j + 2, Len(text)),
          IF i >= buf.cnt THEN buf.cnt ELSE i)

BufFmt(i, s) ==
  IF s # <<>> THEN BufWrite(Fmt(buf, i, s), Put(i, s), i + Len(s) + 1, i + Len(s) + 1)
  ELSE use = "buf" /\ ~ wild /\ UNCHANGED strvars

BufRead(i, n, s) ==
  BufCall(Read(buf, i, n, s), Put(i, s \o [k \in 1 .. n - Len(s) |-> Junk]), i + n + 1)

BufNext ==
  \/ \E i \in 0 .. buf.cnt + 1, c \in Letters : BufSetC(i, c)
  \/ \E c \in Letters : BufAddC(c)
  \/ \E i \in Positions, s \in Texts : BufSetS(i, s) \/ BufReadLn(i, s) \/ BufFmt(i, s)
  \/ \E i \in Positions, s \in Texts \ {<<>>} : BufIns(i, s)
  \/ \E i, j \in Positions : i <= j /\ BufDel(i, j)
  \/ \E i \in Positions, n \in 1 .. 2, s \in Texts : Len(s) <= n /\ BufRead(i, n, s)

-----------------------------------------------------------------------------
(* Symbol tables *)

\* The string at id: utl_sym_get, whose NULL, where there is a '\0' at once, is
\* the empty sequence.  Without a '\0' it goes on to the end of the storage here,
\* and beyond it in the code.
StringAt(x, id) ==
  LET ends == {k \in id .. x.max : k = x.max \/ x.bytes[k] = Nul} IN
  [k \in 1 .. (CHOOSE e \in ends : \A f \in ends : e <= f) - id |-> x.bytes[id + k - 1]]

\* The ids in the hash table that a search for s may find.
IdsOf(s) == {id \in table : StringAt(buf, id) = s}

Erased == \E id \in DOMAIN given : given[id] = None

\* A search for s may find nothing: what a removal moved in the hash table may
\* be out of reach until the table grows.
Misses(s) == IdsOf(s) = {} \/ Erased

\* What a larger table takes over: of equal names, the one that comes last in
\* the old table, which may be any.
OneEach ==
  {ids \in SUBSET table :
     \A id \in table : \E jd \in ids : \A kd \in ids :
       StringAt(buf, kd) = StringAt(buf, id) <=> kd = jd}

\* vecadd of the id of s: it finds no memory, takes the place of an id of s, or
\* an empty one, or does so in a larger table.
Indexed(s, id, new) ==
  \/ table' = table /\ missed' = missed \cup {id}
  \/ /\ UNCHANGED missed
     /\ \/ \E jd \in IdsOf(s) : new /\ table' = (table \ {jd}) \cup {id}
        \/ Misses(s) /\ table' = table \cup {id}
        \/ \E ids \in OneEach : table' = (ids \ IdsOf(s)) \cup {id}

\* Seeded fault: a name that ends at a multiple of 4 is not padded.
PaddedSome(n) == n + ((4 - (n % 4)) % 4)

\* The count after the bytes that align the next id.
Padded(n) == n + 4 - (n % 4)

\* utl_sym_store: the name, its data, and '\0' up to the next id, for which
\* no room is made.
Stored(x, s) ==
  LET x1 == Written(SetS(x, x.cnt + 4, s), x.cnt, [k \in 1 .. 4 |-> Nul])
      end == Padded(x1.cnt)
  IN [Written(x1, x1.cnt, [k \in 1 .. end - x1.cnt |-> Nul]) EXCEPT !.cnt = end]

SymCall == use = "sym" /\ ~ wild /\ UNCHANGED << use, lim, text, raw >>

\* symadd, symaddnew and symadduniq of a name they do not find, and symaddnew
\* of one that is there.  The id is returned whether or not vecadd succeeds.
SymStore(s, new) ==
  LET at == buf.cnt + 4 IN
  /\ SymCall
  /\ new \/ Misses(s)
  /\ buf' = Stored(buf, s) /\ wild' = (buf'.cnt > buf'.max)
  /\ Indexed(s, at, new)
  /\ given' = [id \in DOMAIN given \cup {at} |->
                 IF id = at THEN [name |-> s, data |-> Nul] ELSE given[id]]

SymDel(s) ==
  /\ SymCall
  /\ \E id \in IdsOf(s) :
       /\ table' = table \ {id}
       /\ buf' = Written(buf, id - 4, [k \in 1 .. 4 + Len(s) |-> Nul])
       /\ given' = [given EXCEPT ![id] = None]
  /\ UNCHANGED << wild, missed >>

\* utl_sym_setdata, also of an id that was deleted: that one has no string.
SymSetData(id, v) ==
  /\ SymCall
  /\ buf.bytes[id] # Nul
  /\ buf' = Written(buf, id - 4, [k \in 1 .. 4 |-> v])
  /\ given' = [given EXCEPT ![id].data = v]
  /\ UNCHANGED << table, wild, missed >>

SymNext ==
  \/ \E s \in Names, new \in BOOLEAN : SymStore(s, new)
  \/ \E s \in Names : SymDel(s)
  \/ \E id \in DOMAIN given, v \in Words : SymSetData(id, v)

-----------------------------------------------------------------------------

StrInit ==
  /\ use \in {"vec", "buf", "sym"}
  /\ lim \in StrLimits[use]
  /\ buf = [bytes |-> [i \in 0 .. StrMin[use] - 1 |-> Junk], cnt |-> 0, max |-> StrMin[use]]
  /\ wild = FALSE /\ text = <<>> /\ raw = TRUE /\ table = {} /\ given = <<>>
  /\ missed = {}

\* What a write beyond the storage leads to is not modelled.
Undefined == wild /\ UNCHANGED strvars

AllInit == Init /\ StrInit

AllNext ==
  \/ use = "vec" /\ Next /\ UNCHANGED strvars
  \/ use # "vec" /\ (BufNext \/ SymNext \/ Undefined) /\ UNCHANGED vars

AllSpec == AllInit /\ [][AllNext]_<< vars, strvars >> /\ WF_vars(SortTurn) /\ WF_vars(Return)

-----------------------------------------------------------------------------
(* Properties *)

\* A buffer holds the text its calls have put together, with a '\0' after it
\* inside the storage, whatever is inserted, cut, overwritten, formatted or read
\* and however often the storage moves; only bufsetc past the end, and memory
\* that runs out, leave the '\0' to the caller (utl_vec.c:861-992).
BufferIsText ==
  use = "buf" /\ ~ wild =>
    /\ buf.cnt <= buf.max /\ Len(text) = buf.cnt
    /\ \A i \in 0 .. buf.cnt - 1 : text[i + 1] = Junk \/ buf.bytes[i] = text[i + 1]
    /\ ~ raw => buf.cnt < buf.max /\ buf.bytes[buf.cnt] = Nul

\* Of the ids, those that were given last for their name in h.
Newest(h, ids) == {id \in ids : \A jd \in ids : h[jd].name = h[id].name => jd <= id}

\* An id stands for its name and data until it is deleted, whatever is added
\* behind it and wherever the storage moves; ids stay aligned.  The hash table
\* never holds an id that is deleted, whose string would be NULL for the
\* comparison, and until something is deleted it holds, for each name, the id
\* given last that it found memory for, and no other (utl_vec.c:1101-1208).
SymbolsKeepTheirNames ==
  use = "sym" /\ ~ wild =>
    /\ \A id \in DOMAIN given : given[id] # None =>
         /\ id % 4 = 0 /\ id < buf.cnt
         /\ StringAt(buf, id) = given[id].name
         /\ \A k \in id - 4 .. id - 1 : buf.bytes[k] = given[id].data
    /\ \A id \in table : id \in DOMAIN given /\ given[id] # None
    /\ ~ Erased => table = Newest(given, DOMAIN given \ missed)

\* What is built on vectors keeps its strings.
StringsAreKept == BufferIsText /\ SymbolsKeepTheirNames
=============================================================================
