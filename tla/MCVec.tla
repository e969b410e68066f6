------------------------------- MODULE MCVec --------------------------------
(* Vectors of three elements, two of which compare equal, and the strings   *)
(* built on vectors, for TLC.                                               *)
EXTENDS Strings, TLC

CONSTANTS a, c, d, x, y

\* Two comparison functions: one for the order a = d < c, one for c < d < a.
MCRank == "up" :> (a :> 1 @@ d :> 1 @@ c :> 2) @@ "down" :> (a :> 3 @@ d :> 2 @@ c :> 1)

MCTexts == {<<>>, << x >>, << y, x >>}
MCNames == {<< x, x, x, x >>, << y, y, y, y, y, y, y, y, x >>}
MCStrMin == "vec" :> 2 @@ "buf" :> 2 @@ "sym" :> 16
MCStrLimits == "vec" :> {2} @@ "buf" :> {4} @@ "sym" :> {16, 36, 54}
=============================================================================
