------------------------------- MODULE MCMatching -------------------------------
(* Matching on short patterns, texts and grammars, and a server, for TLC. *)
EXTENDS Library, MCPatterns

CONSTANTS c1, c2, c3

Short == {q \in Seqs({A, B, Open_, OpenNot, Bar, Shut, Star, RepT(2, 2)}, 4) :
  \A i \in 1 .. Len(q) - 1 : ~ (q[i] = Star /\ q[i+1].op \in {"open", "rep"})}
AB == Seqs({"a", "b"}, 2)
Long == {
  << Open_, A, Shut, Open_, B, Bar, A, Shut >>,
  << A, Open_, B, Bar, A, Shut, Bar, B >>,
  << A, Bar, Open_, B, Shut, A >>,
  << A, Bar, Open_, A, Shut, Open_, B, Shut, Ref(2) >>,
  << A, B, Bar, B, Bar, Open_, A, Shut, Ref(1) >>,
  << Open_, A, Bar, Open_, B, Shut, Shut, Open_, A, Bar, B, Shut, B >>,
  << B, Open_, Set({"a"}, 0, 99, FALSE), Shut, Bar, Open_, A, Shut, Ref(2) >>,
  << A, B, Open_, Open_, Set({"a"}, 0, 99, FALSE), Shut, Shut, Bar, Open_, B, Bar, A, Shut, B >>,
  << Star, A, Shut, B >>,
  << Star, A, Bar, B, Shut, Eot >>,
  << RepT(1, 2), A, Bar, Set({"b"}, 1, 1, FALSE), Shut, B >>,
  << Star, A, B, Shut, A >>,
  << Star, Open_, A, Shut, B, Shut, A >>,
  << RepT(1, 99), A, B, Bar, B, A, Shut >>,
  << OpenNot, A, Shut, B >>,
  << OpenNot, A, B, Shut, A >>,
  << OpenNot, A, Bar, B, B, Shut, Open_, B, Shut >>,
  << Set({"a"}, 0, 99, FALSE), B >>,
  << Set({"a"}, 1, 2, TRUE), Eot >>,
  << Set({"a"}, 2, 2, FALSE), Bar, B, A >>,
  << Open_, A, Shut, Set({"b"}, 0, 99, FALSE), Ref(1) >>,
  << Open_, A, Open_, B, Shut, Shut, Ref(1) >>,
  << Delim(<<>>, Braces), Eot >>,
  << Delim(<< "a", "b", None >>, <<>>), B >>,
  << Delim(<< "a", "a", "b" >>, <<>>) >>,
  ThreeTimes, Except,
  << RepT(2, 2), A, B, Bar, B, A, Shut, Eot >>,
  << RepNot, A, B, Bar, B, B, Shut, Set({"b"}, 0, 99, FALSE), Bar, A, B >>,
  << Case(FALSE), A, Case(TRUE), B >>,
  << B, Case(FALSE), A >>,
  << Open_, Open_, Open_, Open_, Open_, Open_, A, Shut, Shut, Shut, Shut, Shut, Shut >>,
  << Bad, A >>, << A, Bad, Bar, B >> }
LongTexts == Seqs({"a", "b"}, 4) \cup Seqs({"a", "A", "B"}, 3) \cup Seqs({"[", "]"}, 4)
MCCalls == (Short \X {<<>>, <<"a">>, <<"b">>, <<"a","b">>, <<"a","a">>} \X {"match"}) \cup (Long \X LongTexts \X {"search", "scan"})
MCLower == [c \in {"a", "b", "A", "B", "[", "]"} |-> IF c = "A" THEN "a" ELSE IF c = "B" THEN "b" ELSE c]

-----------------------------------------------------------------------------
\* Grammars
Str(w) == [op |-> "str", s |-> w]
OneOf(S) == [op |-> "oneof", set |-> S]
Space == [op |-> "space", set |-> {" "}]
Op(o) == [op |-> o]
Seq_(es) == [op |-> "seq", es |-> es]
Alt_(es) == [op |-> "alt", es |-> es]
Not_(e) == [op |-> "not", body |-> e]
And_(e) == [op |-> "and", body |-> e]
Check(e, b) == [op |-> "check", body |-> e, holds |-> b]
Action(f, e) == [op |-> "action", f |-> f, body |-> e]
Rpt(m, n, e) == [op |-> "rpt", min |-> m, max |-> n, body |-> e, takes |-> TRUE]
More_(e) == Rpt(1, 99, e)
Many(e) == Rpt(0, 99, e)
Opt(e) == Rpt(0, 1, e)
RefTo(x) == [op |-> "ref", x |-> x]
PmxOf(q) == [op |-> "pmx", s |-> q]

\* test/ut_peg.c
Sums ==
  "S" :> More_(Seq_(<< RefTo("SPC"), Action("op", Opt(OneOf({"+"}))), RefTo("SPC"), Action("arg", RefTo("V")) >>))
  @@ "V" :> Seq_(<< RefTo("SPC"), Alt_(<< More_(OneOf({"a"})), More_(OneOf({"b"})) >>) >>)
  @@ "SPC" :> Many(OneOf({" "}))

\* Both alternatives of a rule begin with the same rule.
Backtracks ==
  "S" :> Seq_(<< Alt_(<< Seq_(<< RefTo("T"), Str(<<"+">>), RefTo("S") >>),
                         Seq_(<< RefTo("T"), Str(<<" ">>), RefTo("T") >>),
                         RefTo("T") >>) >>)
  @@ "T" :> Action("t", Alt_(<< Seq_(<< Str(<<"a">>), RefTo("T") >>), Str(<<"b">>), Str(<<"a">>) >>))

Lines ==
  "S" :> Many(Seq_(<< Op("sol"), Not_(Op("eot")),
                      Action("line", Many(Seq_(<< Not_(Op("eol")), Op("any") >>))), Op("eol") >>))

LookAhead ==
  "S" :> Seq_(<< And_(Action("no", PmxOf(<< Star, A, Bar, B, Shut, A >>))), Rpt(2, 3, Op("any")), Op("eot") >>)

Errors ==
  "S" :> Alt_(<< Seq_(<< Str(<<"a">>), Alt_(<< RefTo("E"), Seq_(<< Op("error") >>) >>) >>),
                 Seq_(<< Many(Seq_(<< Space, Alt_(<< Str(<<"+">>), Op("fail") >>) >>)), Op("any") >>), Op("empty") >>)
  @@ "E" :> Alt_(<< Check(Str(<<"b">>), TRUE), Seq_(<< Str(<<"a">>), Alt_(<< Str(<<"b">>), Op("error") >>) >>) >>)

\* Forms that do not do what they say: pegrpt(2,2), pegcheck with a check that
\* does not hold, pegempty after a failure.
Odd ==
  "S" :> Alt_(<< Rpt(2, 2, Action("two", Str(<<"a">>))), Seq_(<< Check(Str(<<"b">>), FALSE), Str(<<"b">>), Op("empty") >>) >>)

MCGrammars == {Sums, Backtracks, Lines, LookAhead, Errors, Odd}

MCTextsFor(g) ==
  IF g = Lines THEN Seqs({"a", "\n", "\r"}, 4)
  ELSE IF g \in {Sums, Errors} THEN Seqs({"a", "b", "+", " "}, 4)
  ELSE IF g = Backtracks THEN Seqs({"a", "b", "+", " "}, 4)
  ELSE Seqs({"a", "b"}, 4)
=============================================================================
