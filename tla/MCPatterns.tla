------------------------------ MODULE MCPatterns ------------------------------
(* The examples of doc/pmx.md, for TLC. *)
EXTENDS Matching, TLC

Chr(c) == [op |-> "chr", c |-> c]
Open_ == [op |-> "open", inv |-> FALSE]
OpenNot == [op |-> "open", inv |-> TRUE]
Bar == [op |-> "alt"]
Shut == [op |-> "close"]
RepT(m, n) == [op |-> "rep", min |-> m, max |-> n, inv |-> FALSE]
Set(s, m, n, i) == [op |-> "set", set |-> s, inv |-> i, min |-> m, max |-> n]
Ref(k) == [op |-> "ref", k |-> k, min |-> 1, max |-> 1]
Delim(l, g) == [op |-> "delim", lim |-> l, guess |-> g]
Eot == [op |-> "eot"]
Case(b) == [op |-> "case", sens |-> b]
Bad == [op |-> "bad"]
A == Chr("a")
B == Chr("b")
Star == RepT(0, 99)
Braces == "[" :> << "[", "]", None >>
Seqs(S, n) == UNION {[1 .. k -> S] : k \in 0 .. n}
RepNot == [op |-> "rep", min |-> 1, max |-> 1, inv |-> TRUE]
X == Chr("x")
C == Chr("c")
D == Chr("d")

\* a(b|c)|d
BranchWithGroup == << A, Open_, B, Bar, C, Shut, Bar, D >>

\* <3>(ab|xy), with a and b for x and y the other way round
ThreeTimes == << RepT(3, 3), A, B, Bar, B, A, Shut >>

\* a<!>(bc|de)<2l>, with b for c, d and e
Except == << A, RepNot, B, B, Bar, A, B, Shut, Set({"a", "b"}, 2, 2, FALSE) >>

\* <+>(ab|cd)
OneOrMore == << RepT(1, 99), A, B, Bar, C, D, Shut >>

\* <Q>: double quotes, and the escape x
AnyQuoted == << Delim(<<>>, "'" :> << "'", "'", "x" >>) >>

\* Calls of the examples the code disagrees with; run patterns has the first.
CallsMore == {OneOrMore} \X Seqs({"a", "b", "c", "d"}, 4) \X {"match"}
CallsBranch == {BranchWithGroup} \X Seqs({"a", "b", "c", "d"}, 3) \X {"match"}
CallsQuoted == {AnyQuoted} \X Seqs({"a", "'", "x"}, 4) \X {"match"}

MCLetters == [c \in {"a", "b", "c", "d", "x", "'"} |-> c]
NoTexts(g) == {}
=============================================================================
