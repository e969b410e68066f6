------------------------------ MODULE Matching ------------------------------
(***************************************************************************)
(* The two matchers of the library.  A program calls the pattern matcher   *)
(* (Pmx) or the parser (Peg); a parser calls the pattern matcher, through  *)
(* pegpmx, for the length of what a pattern matches where the parser is.   *)
(***************************************************************************)
EXTENDS Pmx

CONSTANTS Grammars, TextsFor(_), Start

VARIABLES grammar, text, st, todo, ran, errat, phase

ASSUME MatchAssumption == CallAssumption

\* pmxmatch(s, w + i), for patterns that Pmx matches as documented.
Called(s, w) == INSTANCE PmxDoc WITH pat <- s, txt <- w

PmxLen(s, w, i) ==
  LET r == Called(s, SubSeq(w, i + 1, Len(w)))!AsDocumented(0)
  IN IF r.at = None THEN -1 ELSE r.at

G == INSTANCE Peg WITH Null <- None

pegvars == << grammar, text, st, todo, ran, errat, phase >>
vars == << pmxvars, pegvars >>

\* The program has a pattern to match, or a text to parse.
NoGrammar == <<>>
NoParse ==
  /\ grammar = NoGrammar /\ text = <<>> /\ st = None /\ todo = <<>> /\ ran = <<>>
  /\ errat = << 1, 1 >> /\ phase = "none"
NoMatch ==
  /\ pat = <<>> /\ txt = <<>> /\ mode = "none" /\ from = 0 /\ p = 1 /\ t = 0 /\ inv = FALSE
  /\ stack = <<>> /\ capt = <<>> /\ capnum = 0 /\ csens = TRUE /\ error = FALSE /\ ph = "none"

Init == (PmxInit /\ NoParse) \/ (G!PegInit /\ NoMatch)

Next ==
  \/ mode # "none" /\ PmxNext /\ UNCHANGED pegvars
  \/ phase # "none" /\ G!PegNext /\ UNCHANGED pmxvars

\* A match that was begun goes on to its end: the library does not block.
MatchFairness == WF_vars(mode # "none" /\ PmxNext /\ UNCHANGED pegvars)

Spec == Init /\ [][Next]_vars /\ MatchFairness

-----------------------------------------------------------------------------
(* Properties *)

Doc == INSTANCE PmxDoc

\* The attempt that is over has matched exactly if the pattern, read as
\* documented, matches where the attempt started; it ends where that match ends;
\* and capture k is what the k-th "(" of the pattern matched.
AsDescribed ==
  LET r == Doc!AsDocumented(from) IN
  /\ Found <=> r.at # None
  /\ Found => t = r.at /\ \A i \in 1 .. MaxCapt - 1 : Result[i] = r.caps[i]

\* doc/pmx.md, for the patterns of Documented: what is matched, where it ends and
\* what is captured is what the document says, also when groups before a capture
\* stand in alternatives that were not taken (utl_pmx_alt_skip and utl_pmx_alt
\* count the groups they pass over) and through repetitions, back references and
\* what an earlier attempt left.
MatchesAsDocumented == mode # "none" /\ AttemptOver /\ Doc!Documented => AsDescribed

\* doc/pmx.md, for its own examples: a(b|c)|d (line 71), <+>(ab|cd) (line 155)
\* and <Q> (lines 126 and 159).  The code of utl_pmx_alt and
\* utl_pmx_get_delimited does otherwise for each of the three.
ExampleMatches == mode # "none" /\ AttemptOver => AsDescribed

\* What utl_peg.c does (see Peg), with the types of its variables.
MemoChangesNothing == phase # "none" => G!MemoChangesNothing
ParsesAsPEG == phase # "none" => G!PegTypeOK /\ G!ParsesAsPEG
=============================================================================
