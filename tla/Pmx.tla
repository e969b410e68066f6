-------------------------------- MODULE Pmx ---------------------------------
(***************************************************************************)
(* The pattern matcher (utl_pmx.c): pmxsearch, pmxmatch and pmxscan, one   *)
(* action per turn of utl_pmx_match's loop.                                *)
(*                                                                         *)
(* A pattern is a sequence of tokens: [op |-> "chr", c |-> c] for a        *)
(* character, "open" and "rep" for "(", "(|" and "<m-n>(", "alt", "close", *)
(* and one token for each "<...>".  A text is a sequence of characters and *)
(* a pointer into it an offset; `p' and `t' are the pointers pat and txt.  *)
(* `stack', `capt', `capnum', `csens' and `error' are the fields of the    *)
(* global utl_pmx_; `from' is where the present attempt started.           *)
(***************************************************************************)
EXTENDS Integers, Sequences, SequencesExt

CONSTANTS
  Calls,            \* << pattern, text, mode >>: what the calls are given
  MaxCapt,          \* captures, and groups open at once (16 in the code)
  Inf,              \* INT32_MAX, above Enough: a repetition without a limit
  Enough,           \* bound: repetitions are counted up to here
  Lower,            \* utlfoldchar, as a function on the characters
  None              \* a NULL pointer

VARIABLES
  pat, txt, mode,   \* the call: "search", "match" or "scan"; "none" without one
  from, p, t, inv, stack, capt, capnum, csens, error,
  ph                \* "match" while the loop runs, then "done"

call == << pat, txt, mode >>
pmxvars == << call, from, p, t, inv, stack, capt, capnum, csens, error, ph >>

Offset == 0 .. Len(txt)
Tok == pat[p]
Smaller(a, b) == IF a < b THEN a ELSE b
Nothing == << None, None >>

\* A text position holds a character (in C: is not '\0').
At(i) == i < Len(txt)

\* What a call is given: tokens that say what their kind needs, in any order,
\* their parentheses matching or not.
IsCall(c) ==
  /\ c = << c[1], c[2], c[3] >> /\ c[1] \in Seq(Range(c[1])) /\ c[2] \in Seq(Range(c[2]))
  /\ \A i \in DOMAIN c[1] :
       LET tok == c[1][i] IN
       /\ tok.op \in {"open", "rep"} => tok.inv \in BOOLEAN
       /\ tok.op = "rep" => tok.min \in Nat /\ tok.max \in Nat
       /\ tok.op = "ref" => tok.k \in 1 .. 9
       /\ tok.op = "case" => tok.sens \in BOOLEAN

CallAssumption ==
  MaxCapt \in Nat \ {0} /\ Enough \in Nat /\ \A c \in Calls : IsCall(c)

-----------------------------------------------------------------------------
(* Captures and groups *)

\* utl_pmx_newcap, n times: no capture beyond MaxCapt is recorded.
WithCaptures(c, k, n, v) ==
  [i \in DOMAIN c |-> IF i >= k /\ i < k + n /\ i < MaxCapt THEN v ELSE c[i]]

NewNum(k, n) == Smaller(k + n, MaxCapt)

Group(q, min, max, neg) ==
  [pat |-> q, txt |-> t, min |-> min, max |-> max, n |-> 0, inv |-> neg, cap |-> capnum]

\* utl_pmx_state_push of a group whose first token is q.
PushGroup(q, min, max, neg) ==
  /\ IF Len(stack) < MaxCapt
     THEN /\ stack' = Append(stack, Group(q, min, max, neg))
          /\ capt' = WithCaptures(capt, capnum, 1, << t, t >>)
          /\ capnum' = NewNum(capnum, 1)
          /\ UNCHANGED error
     ELSE error' = TRUE /\ UNCHANGED << stack, capt, capnum >>
  /\ p' = q
  /\ UNCHANGED << t, csens >>

-----------------------------------------------------------------------------
(* Failing: utl_pmx_alt looks for what to try instead. *)

\* A look at the pattern that goes on from token to token: in how many groups it
\* is, the number of captures taken, whether a ")" closed nothing.
Looking == [q : 1 .. Len(pat) + 1, paren : Nat, num : 0 .. MaxCapt, er : BOOLEAN]
From(q) == [q |-> q, paren |-> 0, num |-> capnum, er |-> FALSE]

\* One token further; a group that is passed over gets k captures.
Further(s, k) ==
  LET op == pat[s.q].op
      opens == op \in {"open", "rep"}
  IN [q |-> s.q + 1,
      num |-> IF opens THEN NewNum(s.num, k) ELSE s.num,
      paren |-> IF opens THEN s.paren + 1
                ELSE IF op = "close" /\ s.paren > 0 THEN s.paren - 1 ELSE s.paren,
      er |-> s.er \/ (op = "close" /\ s.paren = 0)]

\* The scan stops at the next alternative of the group (or pattern) we are in,
\* or at the end of a group that may stop here.  A group that did not match
\* enough is passed over too, but stays on the stack.
Stops(st, s) ==
  \/ s.q > Len(pat)
  \/ /\ s.paren = 0
     /\ \/ pat[s.q].op = "alt"
        \/ pat[s.q].op = "close" /\ Len(st) >= 2 /\ (Last(st).inv \/ Last(st).n >= Last(st).min)

\* The scan from token q.  Each group it passes over gets k captures, which hold
\* nothing.
Scan(st, q, k) ==
  LET scan[s \in Looking] == IF Stops(st, s) THEN s ELSE scan[Further(s, k)]
  IN scan[From(q)]

\* Seeded fault: the groups of an alternative that is passed over have no captures.
AlternativeUncounted(st, q) == Scan(st, q, 0)

Alternative(st, q) == Scan(st, q, 1)

\* The match failed at token q with groups st: go on where Alternative says.
\* Nothing left of the pattern is taken for a failure of the whole match.
Fail(st, q, er) ==
  LET a == Alternative(st, q)
      g == Last(st)
      how == IF a.q > Len(pat) THEN "end" ELSE IF pat[a.q].op = "alt" THEN "alt"
             ELSE IF g.inv THEN "inv" ELSE "enough"
      next == Smaller(a.q, Len(pat)) + 1
      passed == WithCaptures(capt, capnum, a.num - capnum, Nothing)
  IN /\ p' = next
     /\ capnum' = IF next > Len(pat) THEN 0 ELSE a.num
     /\ error' = (error \/ er \/ (a.er /\ Len(st) < 2))
     /\ stack' = IF how \in {"end", "alt"} THEN st ELSE Front(st)
     /\ t' = IF how \in {"alt", "inv"} THEN passed[g.cap][1] ELSE t
     /\ capt' = IF how = "enough" THEN [passed EXCEPT ![g.cap] = << g.txt, t >>] ELSE passed
     /\ UNCHANGED csens

-----------------------------------------------------------------------------
(* The tokens.  Each action is one turn of the loop. *)

Turn(op) == ph = "match" /\ p <= Len(pat) /\ Tok.op = op /\ UNCHANGED << call, from, ph >>

\* Text matched up to offset u: on to the next token.
Accept(u) == p' = p + 1 /\ t' = u /\ UNCHANGED << stack, capt, capnum, csens, error >>

\* "(" or "(|": `inv' is a local variable of the whole match, which "(" does
\* not clear.
Open ==
  /\ Turn("open")
  /\ inv' = (inv \/ Tok.inv)
  /\ PushGroup(p + 1, 1, 1, inv')

\* "<m-n>(" and "<m-n!>("
Rep ==
  /\ Turn("rep")
  /\ PushGroup(p + 1, Tok.min, Tok.max, Tok.inv)
  /\ UNCHANGED inv

\* utl_pmx_alt_skip: an alternative matched, on to the end of its group.
Alt ==
  /\ Turn("alt")
  /\ LET skip[s \in Looking] ==
           IF s.q > Len(pat) \/ (pat[s.q].op = "close" /\ s.paren = 0) THEN s ELSE skip[Further(s, 1)]
         e == skip[From(p + 1)]
     IN /\ p' = e.q
        /\ capt' = WithCaptures(capt, capnum, e.num - capnum, Nothing)
        /\ capnum' = e.num
  /\ UNCHANGED << t, inv, stack, csens, error >>

\* After this match of group g another one is tried.
Repeats(g) == g.n + 1 < g.max

Counted(n) == Smaller(n + 1, Enough)

Close ==
  /\ Turn("close")
  /\ LET g == Last(stack) IN
     IF Len(stack) < 2
     THEN /\ error' = TRUE /\ p' = p + 1
          /\ UNCHANGED << t, inv, stack, capt, capnum, csens >>
     ELSE /\ inv' = g.inv
          /\ IF g.inv THEN Fail(Front(stack), p + 1, FALSE)
             ELSE /\ capt' = [capt EXCEPT ![g.cap] = << IF Repeats(g) THEN t ELSE g.txt, t >>]
                  /\ stack' = IF Repeats(g) THEN Append(Front(stack), [g EXCEPT !.n = Counted(@)])
                              ELSE Front(stack)
                  /\ p' = IF Repeats(g) THEN g.pat ELSE p + 1
                  /\ UNCHANGED << t, capnum, csens, error >>

Char ==
  /\ Turn("chr") /\ UNCHANGED inv
  /\ IF At(t) /\ (txt[t + 1] = Tok.c \/ (~ csens /\ Lower[txt[t + 1]] = Lower[Tok.c]))
     THEN Accept(t + 1)
     ELSE Fail(stack, p, FALSE)

\* A recognizer that matches the text up to offset u, n times: it fails, past
\* its own token, when that is not enough.
Recognized(n, u) == IF n < Tok.min THEN Fail(stack, p + 1, FALSE) ELSE Accept(u)

\* The loop of utl_W, where len[u] characters match at offset u (0: no match):
\* how often it turns, and where it stops.
Run(len) ==
  LET run[s \in Nat \X Nat] ==
        IF At(s[2]) /\ len[s[2]] > 0 /\ s[1] < Tok.max THEN run[<< s[1] + 1, s[2] + len[s[2]] >>] ELSE s
  IN run[<< 0, t >>]

\* <a>, <d>, <=...>, <#...>, <.> and the other classes of characters
Class ==
  /\ Turn("set") /\ UNCHANGED inv
  /\ LET r == Run([u \in 0 .. Len(txt) - 1 |-> IF (txt[u + 1] \in Tok.set) # Tok.inv THEN 1 ELSE 0])
     IN Recognized(r[1], r[2])

\* utl_pmx_iscapt: the text at u goes on with capture k.
Repeated(k, u) ==
  IF k >= capnum \/ capt[k][1] = None THEN 0
  ELSE LET n == capt[k][2] - capt[k][1] IN
       IF n > 0 /\ u + n <= Len(txt)
          /\ SubSeq(txt, u + 1, u + n) = SubSeq(txt, capt[k][1] + 1, capt[k][2])
       THEN n ELSE 0

\* <^k>
BackRef ==
  /\ Turn("ref") /\ UNCHANGED inv
  /\ LET r == Run([u \in 0 .. Len(txt) - 1 |-> Repeated(Tok.k, u)]) IN Recognized(r[1], r[2])

\* utl_pmx_get_delimited: the text at u from an opening to its closing
\* delimiter, which may be the same; x escapes the next character.  The last
\* element says that the escaped character was missing.
Delimited(u, b, e, x) ==
  LET over(v, cnt) ==
        ~ At(v) \/ (txt[v + 1] = e /\ cnt = 0) \/ (txt[v + 1] \notin {b, e} /\ txt[v + 1] = x /\ ~ At(v + 1))
      go[s \in Nat \X Nat] ==
        LET v == s[1] ch == txt[v + 1] IN
        IF over(v, s[2]) THEN s
        ELSE IF ch = e THEN go[<< v + 1, s[2] - 1 >>]
        ELSE IF ch = b THEN go[<< v + 1, s[2] + 1 >>]
        ELSE IF ch = x THEN go[<< v + 2, s[2] >>]
        ELSE go[<< v + 1, s[2] >>]
      end == go[<< u + 1, 0 >>][1]
  IN IF txt[u + 1] # b \/ ~ At(end) THEN << 0, FALSE >> ELSE << end + 1 - u, txt[end + 1] # e >>

\* <B>, <Q>: the delimiters are given, or Tok.guess finds them from the first
\* character of the text.
Quoted ==
  /\ Turn("delim") /\ UNCHANGED inv
  /\ LET lim(u) == IF Tok.lim # <<>> THEN Tok.lim
                   ELSE IF txt[u + 1] \in DOMAIN Tok.guess THEN Tok.guess[txt[u + 1]] ELSE <<>>
         d(u) == IF ~ At(u) THEN << 0, FALSE >>
                 ELSE IF lim(u) = <<>> THEN << 0, FALSE >>
                 ELSE Delimited(u, lim(u)[1], lim(u)[2], lim(u)[3])
         u1 == t + d(t)[1]
     IN IF u1 = t THEN Fail(stack, p + 1, FALSE)
        ELSE /\ p' = p + 1 /\ t' = u1 /\ error' = (error \/ d(t)[2] \/ d(u1)[2])
             /\ UNCHANGED << stack, capt, capnum, csens >>

\* <$>
EndOfText ==
  /\ Turn("eot") /\ UNCHANGED inv
  /\ IF At(t) THEN Fail(stack, p + 1, FALSE) ELSE Accept(t)

\* <I> and <C>: the setting lasts for the rest of the call, later attempts
\* included.
CaseSense ==
  /\ Turn("case")
  /\ csens' = Tok.sens
  /\ p' = p + 1 /\ UNCHANGED << t, inv, stack, capt, capnum, error >>

\* <> is an error, and does not match.
Unknown ==
  /\ Turn("bad") /\ UNCHANGED inv
  /\ Fail(stack, p, TRUE)

-----------------------------------------------------------------------------
(* The calls *)

\* utl_pmx_match on the text from offset f, with captures c left behind.
Begin(f, c) ==
  /\ ph' = "match" /\ from' = f /\ p' = 1 /\ t' = f /\ inv' = FALSE
  /\ stack' = << [pat |-> 1, txt |-> f, min |-> 1, max |-> 1, n |-> 0,
                  inv |-> FALSE, cap |-> 0] >>
  /\ capt' = [c EXCEPT ![0] = << f, f >>]
  /\ capnum' = 1
  /\ UNCHANGED << csens, error >>

Found == capnum > 0

\* Seeded fault: captures of an earlier attempt are left in place.
ResultKeeps == [capt EXCEPT ![0] = IF Found THEN << @[1], t >> ELSE Nothing]

\* What utl_pmx_match leaves in the captures.
Result ==
  [i \in DOMAIN capt |-> IF i >= capnum THEN Nothing
                         ELSE IF i = 0 THEN << capt[0][1], t >> ELSE capt[i]]

End == ph' = "done" /\ capt' = Result
       /\ UNCHANGED << from, p, t, inv, stack, capnum, csens, error >>

AttemptOver == ph = "match" /\ p > Len(pat)
Over == AttemptOver /\ UNCHANGED call

\* pmxsearch and pmxmatch
Answer ==
  /\ Over /\ mode # "scan"
  /\ Found \/ mode = "match" \/ from = Len(txt)
  /\ End

\* pmxsearch tries again one character further on.
Retry ==
  /\ Over /\ mode = "search" /\ ~ Found /\ At(from)
  /\ Begin(from + 1, Result)

ScanFrom(f) == IF At(f) THEN Begin(f, Result) ELSE End

\* Seeded fault: the scan goes on at the start of the match.
ScanReportStart ==
  /\ Over /\ mode = "scan" /\ Found
  /\ ScanFrom(from) \/ End

\* pmxscan: the callback gets the match and may stop the scan.
ScanReport ==
  /\ Over /\ mode = "scan" /\ Found
  /\ ScanFrom(t) \/ End

ScanMiss ==
  /\ Over /\ mode = "scan" /\ ~ Found
  /\ ScanFrom(from + 1)

PmxInit ==
  /\ \E c \in Calls : pat = c[1] /\ txt = c[2] /\ mode = c[3]
  /\ ph = IF mode = "scan" /\ txt = <<>> THEN "done" ELSE "match"
  /\ from = 0 /\ p = 1 /\ t = 0 /\ inv = FALSE /\ csens = TRUE /\ error = FALSE
  /\ stack = << [pat |-> 1, txt |-> 0, min |-> 1, max |-> 1, n |-> 0, inv |-> FALSE, cap |-> 0] >>
  /\ capt = [i \in 0 .. MaxCapt - 1 |-> IF i = 0 THEN << 0, 0 >> ELSE Nothing]
  /\ capnum = 1

LoopTurn == Open \/ Rep \/ Alt \/ Close \/ Char \/ Class \/ BackRef \/ Quoted
            \/ EndOfText \/ CaseSense \/ Unknown

PmxNext == LoopTurn \/ Answer \/ Retry \/ ScanReport \/ ScanMiss

\* The calls are synchronous: a loop that can go on does.
PmxSpec == PmxInit /\ [][PmxNext]_pmxvars /\ WF_pmxvars(PmxNext)

-----------------------------------------------------------------------------
(* Properties *)

Span == {Nothing} \cup {<< b, e >> : b, e \in Offset}

PmxTypeOK ==
  /\ << pat, txt, mode >> \in Calls /\ ph \in {"match", "done"}
  /\ from \in Offset /\ t \in Offset /\ p \in 1 .. Len(pat) + 1
  /\ inv \in BOOLEAN /\ csens \in BOOLEAN /\ error \in BOOLEAN
  /\ Len(stack) \in 1 .. MaxCapt /\ capnum \in 0 .. MaxCapt
  /\ capt \in [0 .. MaxCapt - 1 -> Span]

\* A capture is empty or a stretch of the text from this attempt on; an open
\* group has its own, in the order of the groups; what was not captured is empty.
InText ==
  /\ \A i \in 0 .. capnum - 1 :
       capt[i] = Nothing \/ (from <= capt[i][1] /\ capt[i][1] <= capt[i][2])
  /\ ph = "match" => \A i \in 1 .. Len(stack) :
       /\ capnum > 0 => stack[i].cap < capnum
       /\ i > 1 => stack[i - 1].cap < stack[i].cap /\ stack[i - 1].txt <= stack[i].txt
       /\ stack[i].txt <= t /\ from <= stack[i].txt
  /\ ph = "done" /\ ~ (mode = "scan" /\ txt = <<>>) =>
       \A i \in capnum .. MaxCapt - 1 : capt[i] = Nothing

\* Whatever the pattern, a capture is empty or a stretch of the text that does
\* not start before the attempt (utl_pmx_alt moves the text pointer back to the
\* start of a capture, utl_pmx_class and ")" move it on), a group still open
\* has a capture of its own, and after the call the captures the match did not
\* make are empty, those of earlier attempts included.
CapturesInText == mode # "none" => PmxTypeOK /\ InText

-----------------------------------------------------------------------------
(* When a call ends *)

\* Every group and every branch begins with a token that takes some text.
Consuming ==
  /\ pat # <<>>
  /\ \A i \in DOMAIN pat :
       /\ pat[i].op \in {"chr", "close", "alt"} \cup {"open", "rep"} \cup {"set"}
       /\ pat[i].op \in {"set", "rep"} => pat[i].min > 0
       /\ pat[i].op \in {"open", "rep"} => ~ pat[i].inv
       /\ i = 1 => pat[i].op \in {"chr", "set"} \cup {"open", "rep"}
       /\ pat[i].op \in {"open", "rep"} \cup {"alt"} =>
            i < Len(pat) /\ pat[i + 1].op \in {"chr", "set"} \cup {"open", "rep"}

\* No group is repeated that matches the empty text: its branches begin with a
\* token that takes some text.
NoEmptyRepeat ==
  (\E i \in DOMAIN pat : pat[i].op = "rep") =>
    \A j \in DOMAIN pat : pat[j].op \in {"rep", "alt"} =>
      /\ j < Len(pat) /\ pat[j + 1].op \in {"chr", "set"}
      /\ pat[j + 1].op = "set" => pat[j + 1].min > 0

\* A search ends for every text, unless a group is repeated that can match
\* nothing; a scan does, unless the pattern can match nothing: each turn of the
\* loop goes on in the pattern or, at ")", in the text.
MatchEnds ==
  mode # "none" /\ NoEmptyRepeat /\ (mode = "scan" => Consuming) => <>(ph = "done")
=============================================================================
