-------------------------------- MODULE Peg ---------------------------------
(***************************************************************************)
(* The PEG parser (utl_peg.c and the macros of utl_peg.h): pegparse on     *)
(* texts that fill the same buffer one after the other.                    *)
(*                                                                         *)
(* A grammar gives each rule an expression, a record with one `op' per     *)
(* macro.  Rule functions run to their end within pegparse, so what they   *)
(* do to the parser is an operator, Eval, from parser state to parser      *)
(* state; the deferred actions are run one by one.                         *)
(*                                                                         *)
(* `fail' is 0, 1 (the expression does not match) or negative (pegerror).  *)
(* A pointer into the text is an offset.                                   *)
(***************************************************************************)
EXTENDS Integers, Sequences, FiniteSets
LOCAL INSTANCE SequencesExt

CONSTANTS
  Grammars,          \* functions from rule names to expressions
  TextsFor(_),       \* the texts a grammar is tried on
  Start,             \* the rule pegparse starts with, in every grammar
  PmxLen(_, _, _),   \* length of pmxmatch(s, text + offset), or -1
  Null               \* a NULL pointer

VARIABLES
  grammar, text,
  st,      \* the parser: fail, pos, defer, errpos, errrule and the memo tables
  todo,    \* deferred actions that are not yet run
  ran,     \* those that are
  errat,   \* pegfaillinenum, pegfailcolumn
  phase

pegvars == << grammar, text, st, todo, ran, errat, phase >>

CharAt(i) == text[i + 1]
More(i) == i < Len(text)
Rules == DOMAIN grammar

-----------------------------------------------------------------------------
(* Recognizers: the length of what is matched at offset i, or -1 *)

Run(S, i) == LET ends == {j \in i .. Len(text) : \A k \in i .. j - 1 : CharAt(k) \in S}
             IN (CHOOSE j \in ends : \A k \in ends : k <= j) - i

Prefix(s, i) == i + Len(s) <= Len(text) /\ SubSeq(text, i + 1, i + Len(s)) = s

Recognize(e, i) ==
  CASE e.op = "str" -> IF More(i) /\ Prefix(e.s, i) THEN Len(e.s) ELSE -1
    [] e.op = "oneof" -> IF More(i) /\ CharAt(i) \in e.set THEN 1 ELSE -1
    [] e.op = "space" -> Run(e.set, i)
    [] e.op = "any" -> IF More(i) THEN 1 ELSE -1
    [] e.op = "eot" -> IF More(i) THEN -1 ELSE 0
    [] e.op = "eol" -> IF ~ More(i) THEN 0 ELSE IF CharAt(i) = "\n" THEN 1 ELSE -1
    [] e.op = "sol" -> IF i = 0 \/ CharAt(i - 1) \in {"\n", "\r"} THEN 0 ELSE -1
    [] e.op = "pmx" -> PmxLen(e.s, text, i)

Recognizers == {"str", "oneof", "space", "any", "eot", "eol", "sol", "pmx"}

-----------------------------------------------------------------------------
(* The parser state *)

Shorter(s, n) == IF n < Len(s) THEN SubSeq(s, 1, n) ELSE s

\* utl_peg_back, in rule r
Back(s, r, pos, dcnt) ==
  [s EXCEPT !.errpos = IF @ <= pos THEN pos ELSE @,
            !.errrule = IF s.errpos <= pos THEN r ELSE @,
            !.pos = pos,
            !.defer = Shorter(@, dcnt)]

Failed(s, n) == [s EXCEPT !.fail = n]

\* A construct is given up: back to where it began, state s0.
GiveUp(s, r, s0) == Back(s, r, s0.pos, Len(s0.defer))

\* utl_peg_rec
Rec(n, r, s) ==
  IF n >= 0 THEN [s EXCEPT !.pos = @ + n]
  ELSE Failed(GiveUp(s, r, s), -n)

NoEntry == [start |-> -1, fail |-> 0, end |-> -1, defer |-> <<>>]
NoTable == << NoEntry, NoEntry >>

\* utl_peg_memoize: what rule x did from state s0 replaces the entry for the
\* leftmost text position.
Memoize(s, x, s0) ==
  LET m == s.memo[x]
      i == IF m[1].start < m[2].start THEN 1 ELSE 2
  IN IF m = Null THEN s
     ELSE [s EXCEPT !.memo[x][i] =
             [start |-> s0.pos, fail |-> s.fail, end |-> s.pos,
              defer |-> SubSeq(s.defer, Len(s0.defer) + 1, Len(s.defer))]]

Hits(s, x) == {i \in {1, 2} : s.memo[x] # Null /\ s.memo[x][i].start = s.pos}

\* utl_peg_gotmmz
Remembered(s, x) ==
  LET m == s.memo[x][IF 1 \in Hits(s, x) THEN 1 ELSE 2]
  IN [s EXCEPT !.fail = m.fail, !.pos = m.end, !.defer = @ \o m.defer]

\* Seeded fault: a repetition that ends keeps what its last try has deferred.
RestoredLate(s, pos, dcnt) == [s EXCEPT !.fail = 0, !.pos = pos]

\* A repetition ends well: back to the end of its last full turn.
Restored(s, pos, dcnt) == [s EXCEPT !.fail = 0, !.pos = pos, !.defer = Shorter(@, dcnt)]

-----------------------------------------------------------------------------
(* The macros.  Eval(e, r, s) is what expression e of rule r does in state s. *)

RECURSIVE Eval(_, _, _), Repeat(_, _, _, _, _, _)

\* utl_peg_repeat after turn n + 1: s0 is the state before the first turn, last
\* the text position and the deferred actions after the last turn that matched.
Repeat(e, r, s0, s, n, last) ==
  LET s1 == Eval(e.body, r, s)
      now == IF s1.fail = 0 THEN << s1.pos, Len(s1.defer) >> ELSE last
  IN IF s1.fail = 0 /\ n + 1 < e.max /\ s1.pos # last[1]
     THEN Repeat(e, r, s0, s1, n + 1, now)
     ELSE IF s1.fail < 0 THEN GiveUp(s1, r, s0)
     ELSE IF n + 1 <= e.min THEN GiveUp(Failed(s1, 1), r, s0)
     ELSE Restored(s1, now[1], now[2])

\* The rule function of x, and back when it fails.
Call(x, s) ==
  LET s1 == Eval(grammar[x], x, s) IN IF s1.fail # 0 THEN GiveUp(s1, x, s) ELSE s1

Eval(e, r, s) ==
  IF e.op = "seq" THEN FoldLeft(LAMBDA s1, x : Eval(x, r, s1), s, e.es)
  ELSE IF e.op = "fail" THEN Failed(GiveUp(s, r, s), 1)
  ELSE IF e.op = "error" THEN Failed(GiveUp(s, r, s), -1)
  ELSE IF e.op = "empty" THEN Failed(s, 0)
  ELSE IF s.fail # 0 THEN s
  ELSE CASE e.op \in Recognizers -> Rec(Recognize(e, s.pos), r, s)
    [] e.op = "alt" ->
         LET or(s1, x) == IF s1.fail > 0 THEN Eval(x, r, Failed(GiveUp(s1, r, s), 0)) ELSE s1
             s2 == FoldLeft(or, Failed(s, 1), e.es)
         IN IF s2.fail # 0 THEN GiveUp(s2, r, s) ELSE s2
    [] e.op = "not" ->
         LET s1 == Eval(e.body, r, s) IN GiveUp(Failed(s1, IF s1.fail = 0 THEN 1 ELSE 0), r, s)
    [] e.op = "and" -> GiveUp(Eval(e.body, r, s), r, s)
    [] e.op = "check" ->
         LET s1 == Eval(e.body, r, s)
         IN IF s1.fail # 0 \/ ~ e.holds THEN GiveUp(s1, r, s) ELSE s1
    [] e.op = "action" ->
         LET s1 == Eval(e.body, r, s)
         IN IF s1.fail # 0 THEN s1
            ELSE [s1 EXCEPT !.defer = Append(@, << e.f, s.pos, s1.pos >>)]
    [] e.op = "rpt" ->
         IF e.max = 0 THEN s ELSE Repeat(e, r, s, s, 0, << s.pos, Len(s.defer) >>)
    [] e.op = "ref" ->
         IF Hits(s, e.x) # {} THEN Remembered(s, e.x) ELSE Memoize(Call(e.x, s), e.x, s)

-----------------------------------------------------------------------------
(* pegparse *)

\* utl_peg_init, with memo tables m
Fresh(m) == [fail |-> 0, pos |-> 0, defer |-> <<>>, errpos |-> 0, errrule |-> Null, memo |-> m]

\* The start rule is called with no memo table of its own.
Parsed(s) ==
  LET s1 == Call(Start, s)
  IN IF s1.fail = 0 /\ s1.errpos <= s1.pos
     THEN [s1 EXCEPT !.errpos = s1.pos, !.errrule = Start] ELSE s1

Parse ==
  /\ phase = "ready"
  /\ st' = Parsed(Fresh(st.memo))
  /\ todo' = IF st'.fail = 0 THEN st'.defer ELSE <<>>
  /\ ran' = <<>> /\ phase' = "act"
  /\ UNCHANGED << grammar, text, errat >>

\* utl_peg_execdeferred: an action that returns a number other than 0 is the last.
Act ==
  /\ phase = "act" /\ todo # <<>>
  /\ ran' = Append(ran, Head(todo))
  /\ todo' \in {Tail(todo), <<>>}
  /\ UNCHANGED << grammar, text, st, errat, phase >>

\* Seeded fault: only the first entry of each memo table is cleared.
CleanedHalf(m) == [x \in Rules |-> << NoEntry, m[x][2] >>]

\* utl_peg_cleanmmz
Cleaned(m) == [x \in Rules |-> NoTable]

\* utl_peg_seterrln: the loop over the text up to errpos.
LineColumn(errpos) ==
  LET go[s \in Nat, ln \in Nat, cn \in Nat] ==
        IF ~ (More(s) /\ s < errpos) THEN << ln, cn >>
        ELSE LET s1 == IF CharAt(s) = "\r" /\ More(s + 1) /\ CharAt(s + 1) = "\n" THEN s + 1 ELSE s
             IN IF CharAt(s1) \in {"\r", "\n"} THEN go[s1 + 1, ln + 1, 1] ELSE go[s1 + 1, ln, cn + 1]
  IN IF More(errpos) THEN go[0, 1, 1] ELSE << 1, 1 >>

Finish ==
  /\ phase = "act" /\ todo = <<>>
  /\ errat' = LineColumn(st.errpos)
  /\ st' = [st EXCEPT !.memo = Cleaned(@)]
  /\ phase' = "done"
  /\ UNCHANGED << grammar, text, todo, ran >>

\* The program fills the buffer with another text and parses again.
NewText ==
  /\ phase = "done"
  /\ text' \in TextsFor(grammar) \ {text}
  /\ phase' = "ready"
  /\ UNCHANGED << grammar, st, todo, ran, errat >>

PegInit ==
  /\ grammar \in Grammars /\ text \in TextsFor(grammar)
  /\ st = Fresh([x \in Rules |-> NoTable])
  /\ todo = <<>> /\ ran = <<>> /\ errat = << 1, 1 >> /\ phase = "ready"

PegNext == Parse \/ Act \/ Finish \/ NewText

-----------------------------------------------------------------------------
(* Properties *)

Entry == [start : -1 .. Len(text), fail : {-1, 0, 1}, end : -1 .. Len(text),
          defer : Seq(STRING \X Nat \X Nat)]

PegTypeOK ==
  /\ grammar \in Grammars /\ text \in TextsFor(grammar)
  /\ st.fail \in {-1, 0, 1} /\ st.errrule \in Rules \cup {Null}
  /\ phase \in {"act", "done"} => st.pos <= Len(text) /\ st.errpos <= Len(text)
  /\ phase # "act" => \A x \in Rules : st.memo[x] = NoTable
  /\ todo \in Seq(STRING \X Nat \X Nat) /\ ran \in Seq(STRING \X Nat \X Nat)
  /\ phase \in {"ready", "act", "done"}

\* The memo tables change nothing: a parse that uses them, for the second text
\* or the tenth, succeeds or fails, ends, defers and reports an error position
\* as one that calls every rule again (utl_peg_ref, utl_peg_memoize,
\* utl_peg_gotmmz, utl_peg_cleanmmz).
MemoChangesNothing ==
  phase = "act" =>
    LET s == Parsed(Fresh([x \in Rules |-> Null])) IN
    /\ << st.fail, st.pos, st.defer, st.errpos >> = << s.fail, s.pos, s.defer, s.errpos >>

-----------------------------------------------------------------------------
(* What a parsing expression is, without a parser state: the end of the text  *)
(* it matches at offset i, and the actions on the way.                        *)

Match(v, acts) == [at |-> v, acts |-> acts, stop |-> FALSE]
NoMatch == Match(Null, <<>>)

RECURSIVE Peg(_, _), Turns(_, _, _)

Turns(e, i, n) ==
  LET m == Peg(e.body, i)
      more == Turns(e, m.at, n + 1)
  IN IF n = e.max THEN Match(i, <<>>)
     ELSE IF m.stop THEN m
     ELSE IF m.at = Null THEN IF n >= e.min THEN Match(i, <<>>) ELSE NoMatch
     ELSE IF m.at = i THEN m
     ELSE [more EXCEPT !.acts = m.acts \o @]

Peg(e, i) ==
  CASE e.op \in Recognizers -> IF Recognize(e, i) < 0 THEN NoMatch ELSE Match(i + Recognize(e, i), <<>>)
    [] e.op = "seq" -> FoldLeft(LAMBDA m, x : IF m.at = Null THEN m
                                              ELSE LET m1 == Peg(x, m.at)
                                                   IN [m1 EXCEPT !.acts = m.acts \o @],
                                Match(i, <<>>), e.es)
    [] e.op = "alt" -> FoldLeft(LAMBDA m, x : IF m.at # Null \/ m.stop THEN m ELSE Peg(x, i), NoMatch, e.es)
    [] e.op = "not" -> IF Peg(e.body, i).at = Null THEN Match(i, <<>>) ELSE NoMatch
    [] e.op = "and" -> IF Peg(e.body, i).at = Null THEN NoMatch ELSE Match(i, <<>>)
    [] e.op = "action" -> LET m == Peg(e.body, i) IN
                          [m EXCEPT !.acts = IF m.at = Null THEN @ ELSE Append(@, << e.f, i, m.at >>)]
    [] e.op = "check" -> Peg(e.body, i)
    [] e.op = "rpt" -> Turns(e, i, 0)
    [] e.op = "ref" -> Peg(grammar[e.x], i)
    [] e.op = "fail" -> NoMatch
    [] e.op = "empty" -> Match(i, <<>>)
    [] e.op = "error" -> [NoMatch EXCEPT !.stop = TRUE]

\* The expressions the macros evaluate as parsing expressions.  A repetition
\* with a minimum has a larger maximum and a body marked as taking some text;
\* pegcheck, which never fails, is given a check that holds; pegempty and
\* pegerror, which do not look at PEG_FAIL, come first; pegnot, which turns
\* an error into a match, and pegand are given none.
RECURSIVE Standard(_, _)
Standard(e, inNot) ==
  CASE e.op = "seq" -> \A k \in DOMAIN e.es : /\ Standard(e.es[k], inNot)
                                              /\ k > 1 => e.es[k].op \notin {"empty", "error"}
    [] e.op = "alt" -> \A k \in DOMAIN e.es : Standard(e.es[k], inNot)
    [] e.op \in {"not", "and", "action"} -> Standard(e.body, inNot \/ e.op # "action")
    [] e.op = "check" -> e.holds /\ Standard(e.body, inNot)
    [] e.op = "rpt" -> Standard(e.body, inNot) /\ e.max > 0 /\ (e.min = 0 \/ (e.min < e.max /\ e.takes))
    [] e.op = "error" -> ~ inNot
    [] OTHER -> TRUE

LineEnds(i) == {j \in 0 .. i - 1 : CharAt(j) = "\n" \/ (CharAt(j) = "\r" /\ (j + 1 < i => CharAt(j + 1) # "\n"))}

\* A grammar parses what its rules, read as parsing expressions, match, the
\* actions that run are those of the match and no others, in the order of the
\* text (utl_peg_back and utl_peg_repeat drop what a failed branch deferred),
\* and an error inside the text is reported with its line.
ParsesAsPEG ==
  (\A x \in Rules : Standard(grammar[x], FALSE)) =>
    LET m == Peg(grammar[Start], 0) IN
    /\ phase = "act" =>
         /\ st.fail = 0 <=> m.at # Null
         /\ st.fail = 0 => st.pos = m.at /\ st.defer = m.acts /\ ran = SubSeq(m.acts, 1, Len(ran))
         /\ st.fail # 0 => st.defer = <<>> /\ todo = <<>>
    /\ phase = "done" /\ More(st.errpos) => errat[1] = 1 + Cardinality(LineEnds(st.errpos))

=============================================================================
