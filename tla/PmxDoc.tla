------------------------------ MODULE PmxDoc --------------------------------
(***************************************************************************)
(* What doc/pmx.md says a pattern matches, as a recursive definition on    *)
(* the pattern: the first alternative that matches is taken, a repetition  *)
(* goes on as long as it can, and neither is taken back.                   *)
(***************************************************************************)
EXTENDS Integers, Sequences, FiniteSets
LOCAL INSTANCE FiniteSetsExt

CONSTANTS
  pat, txt,  \* a sequence of tokens and a text, as in Pmx
  MaxCapt,   \* number of captures
  None       \* no offset

Nothing == << None, None >>
At(i) == i < Len(txt)
Opening == {"open", "rep"}
Count(q, e, ops) == Cardinality({i \in q .. e : pat[i].op \in ops})
Depth(q, e) == Count(q, e, Opening) - Count(q, e, {"close"})
CloseOf(q) == CHOOSE c \in q + 1 .. Len(pat) :
                /\ pat[c].op = "close" /\ Depth(q, c) = 0
                /\ \A i \in q .. c - 1 : Depth(q, i) > 0

No == [at |-> None, caps |-> <<>>]

\* The longest run of at most max characters, each `len' of the one before.
Longest(tok, u) ==
  LET good == {k \in 0 .. Len(txt) - u : k <= tok.max /\
                 \A i \in u + 1 .. u + k : (txt[i] \in tok.set) # tok.inv}
  IN Max(good)

\* The text from u to v is one delimited text.  A character that follows x, which
\* itself does not follow one, does not count.
IsDelimited(u, v, b, e, x) ==
  LET escaped[i \in u + 1 .. v] ==
        i > u + 1 /\ txt[i - 1] = x /\ x \notin {b, e} /\ ~ escaped[i - 1]
      n(c, w) == Cardinality({i \in u + 1 .. w : txt[i] = c /\ ~ escaped[i]})
  IN /\ v >= u + 2 /\ txt[u + 1] = b /\ txt[v] = e /\ ~ escaped[v]
     /\ IF b = e THEN n(b, v) = 2
        ELSE n(b, v) = n(e, v) /\ \A w \in u + 1 .. v - 1 : n(b, w) > n(e, w)

Delims(tok, u) ==
  IF tok.lim # <<>> THEN tok.lim
  ELSE IF txt[u + 1] \in DOMAIN tok.guess THEN tok.guess[txt[u + 1]] ELSE << None, None, None >>

\* The offsets where one plain token that starts to match at u may end.
Ends(tok, u, caps) ==
  CASE tok.op = "chr" -> {v \in {u + 1} : At(u) /\ txt[u + 1] = tok.c}
    [] tok.op = "set" -> {v \in {u + Longest(tok, u)} : v - u >= tok.min}
    [] tok.op = "eot" -> {v \in {u} : ~ At(u)}
    [] tok.op = "delim" -> {v \in u .. Len(txt) :
                              At(u) /\ LET d == Delims(tok, u) IN IsDelimited(u, v, d[1], d[2], d[3])}
    [] tok.op = "ref" ->
         LET c == caps[tok.k] IN
         IF c = Nothing THEN {}
         ELSE {v \in {u + c[2] - c[1]} :
                 v > u /\ v <= Len(txt) /\ SubSeq(txt, u + 1, v) = SubSeq(txt, c[1] + 1, c[2])}

RECURSIVE Branch(_, _, _, _), Branches(_, _, _, _), Times(_, _, _, _, _)

\* The number of the capture that the group opened by token q makes.
Number(q) == Count(1, q, Opening)

\* Tokens q .. e - 1, one branch, match at u with captures caps.
Branch(q, e, u, caps) ==
  IF q >= e THEN [at |-> u, caps |-> caps]
  ELSE LET tok == pat[q] IN
    IF tok.op \in Opening
    THEN LET c == CloseOf(q)
             r == IF tok.op = "rep" THEN Times(q, c, u, 0, caps) ELSE Branches(q + 1, c, u, caps)
             new(v) == [caps EXCEPT ![Number(q)] = << u, v >>]
         IN IF tok.inv THEN IF r.at = None THEN Branch(c + 1, e, u, new(u)) ELSE No
            ELSE IF r.at = None THEN No
            ELSE Branch(c + 1, e, r.at, [r.caps EXCEPT ![Number(q)] = << u, r.at >>])
    ELSE LET v == Ends(tok, u, caps) IN
         IF v = {} THEN No ELSE Branch(q + 1, e, Max(v), caps)

Branches(q, e, u, caps) ==
  LET bars == {i \in q .. e - 1 : pat[i].op = "alt" /\ Depth(q, i) = 0}
      b == IF bars = {} THEN e ELSE Min(bars)
      r == Branch(q, b, u, caps)
  IN IF r.at # None \/ b = e THEN r ELSE Branches(b + 1, e, u, caps)

\* The body of the repeated group q .. c, n times so far.
Times(q, c, u, n, caps) ==
  IF n = pat[q].max THEN [at |-> u, caps |-> caps]
  ELSE LET r == Branches(q + 1, c, u, caps) IN
    IF r.at = None THEN IF n >= pat[q].min THEN [at |-> u, caps |-> caps] ELSE No
    ELSE Times(q, c, r.at, n + 1, r.caps)

AsDocumented(u) == Branches(1, Len(pat) + 1, u, [i \in 0 .. MaxCapt - 1 |-> Nothing])

Plain(q, e) == \A i \in q .. e : pat[i].op \in {"chr", "set", "eot", "delim", "ref"}

\* A token of a group that cannot fail.
Sure(i) ==
  \/ pat[i].op = "open" /\ ~ pat[i].inv
  \/ pat[i].op = "close"
  \/ pat[i].op = "set" /\ pat[i].min = 0

\* A body whose branches are single tokens one after another.
PlainBody(i, c) == c > i + 1 /\ \A j \in i + 1 .. c - 1 : pat[j].op = "alt" \/ Plain(j, j)

\* A body that is a choice of single tokens, each of which takes some text.
Choice(i, c) ==
  /\ PlainBody(i, c) /\ (c - i) % 2 = 0
  /\ \A j \in i + 1 .. c - 1 :
       IF (j - i) % 2 = 0 THEN pat[j].op = "alt"
       ELSE pat[j].op \notin {"alt", "eot"} /\ (pat[j].op = "set" => pat[j].min > 0)

\* The repeated group i: a choice that something follows; a plain body a number
\* of times that is given, in a pattern without other alternatives; or a plain
\* body that must not match.
Repeated(i) ==
  LET c == CloseOf(i)
      r == pat[i]
  IN \/ ~ r.inv /\ c < Len(pat) /\ Choice(i, c)
     \/ /\ ~ r.inv /\ r.min = r.max /\ PlainBody(i, c)
        /\ Depth(1, i) = 1 /\ \A j \in DOMAIN pat \ (i .. c) : pat[j].op # "alt"
     \/ r.inv /\ r.min = 1 /\ r.max = 1 /\ c < Len(pat) /\ PlainBody(i, c)

Escapes(tok) ==
  (IF tok.lim # <<>> THEN {tok.lim[3]} ELSE {tok.guess[c][3] : c \in DOMAIN tok.guess}) \ {None}

\* The patterns the code matches as documented, fewer than the document explains:
\* three of its own examples are not among them.  Groups are balanced; a branch
\* that another one follows has single tokens and then groups that cannot fail
\* (not so a(b|c)|d); repeated groups are as above (not so <+>(ab|cd)); no group
\* comes after a "(|" group, which itself is not the end of the pattern; the last
\* alternative of the whole pattern is not empty; a text for delimiters with an
\* escape (<Q>) does not end in it.
Documented ==
  /\ \A i \in DOMAIN pat : Depth(1, i) >= 0 /\ pat[i].op \notin {"case", "bad"}
  /\ Depth(1, Len(pat)) = 0
  /\ pat # <<>> => pat[Len(pat)].op # "alt"
  /\ Count(1, Len(pat), Opening) < MaxCapt
  /\ \A i \in DOMAIN pat :
       /\ pat[i].op = "alt" =>
            \E j \in 0 .. i - 1 : \E m \in j .. i - 1 :
              /\ j = 0 \/ pat[j].op \in Opening \cup {"alt"}
              /\ Plain(j + 1, m) /\ \A n \in m + 1 .. i - 1 : Sure(n) /\ Depth(j + 1, n) >= 0
              /\ Depth(j + 1, i - 1) = 0
       /\ pat[i].op = "rep" => Repeated(i)
       /\ pat[i].op = "delim" /\ txt # <<>> => txt[Len(txt)] \notin Escapes(pat[i])
       /\ pat[i].op = "open" /\ pat[i].inv =>
            /\ CloseOf(i) < Len(pat)
            /\ Count(i + 1, Len(pat), Opening) = 0

=============================================================================
