--------------------------- MODULE Library_proof ----------------------------
(***************************************************************************)
(* What the library does for one caller after another: the pattern         *)
(* matcher, whose captures stay in the text, and the server, which never   *)
(* waits for one peer and watches all of its sockets.  Both for any number *)
(* of captures, tokens, characters, peers and sockets.                     *)
(***************************************************************************)
EXTENDS Pmx, Server, NatLemmas, FiniteSetTheorems, TLAPS

-----------------------------------------------------------------------------
(* The loops that look ahead, in the pattern and in the text *)

\* The tokens before q that open a group.
Opening(q) == {i \in 1 .. q - 1 : pat[i].op \in {"open", "rep"}}
GroupsBefore(q) == Cardinality(Opening(q))

LEMMA GroupsAreCounted ==
  ASSUME NEW q \in Int
  PROVE  IsFiniteSet(Opening(q)) /\ GroupsBefore(q) \in Nat
<1>1. IsFiniteSet(1 .. q - 1) /\ Opening(q) \subseteq 1 .. q - 1
  BY FS_Interval DEF Opening
<1>2. IsFiniteSet(Opening(q))
  BY <1>1, FS_Subset
<1> QED
  BY <1>2, FS_CardinalityType DEF GroupsBefore

LEMMA OpeningNext ==
  ASSUME NEW q \in Nat \ {0}
  PROVE  GroupsBefore(q + 1) = IF pat[q].op \in {"open", "rep"} THEN GroupsBefore(q) + 1
                                ELSE GroupsBefore(q)
<1>2. IsFiniteSet(Opening(q))
  BY GroupsAreCounted
<1>3. CASE pat[q].op \in {"open", "rep"}
  <2>1. Opening(q + 1) = Opening(q) \cup {q} /\ q \notin Opening(q)
    BY <1>3 DEF Opening
  <2> QED
    BY <1>2, <1>3, <2>1, FS_AddElement, FS_CardinalityType DEF GroupsBefore
<1>4. CASE pat[q].op \notin {"open", "rep"}
  <2>1. Opening(q + 1) = Opening(q)
    BY <1>4 DEF Opening
  <2> QED
    BY <1>2, <1>4, <2>1, FS_CardinalityType DEF GroupsBefore
<1> QED
  BY <1>3, <1>4

\* What a look that began at token q has come to: it counted the captures of
\* the match so far and at most one for each group it went past.
LooksOn(q) ==
  {s \in Looking : q <= s.q /\ capnum <= s.num /\ s.num + GroupsBefore(q) <= capnum + GroupsBefore(s.q)}

LEMMA FurtherIsLooking ==
  ASSUME MaxCapt \in Nat, Len(pat) \in Nat, NEW s \in Looking, s.q <= Len(pat), NEW k \in {0, 1}
  PROVE  Further(s, k) \in Looking /\ Further(s, k).q = s.q + 1
  BY DEF Looking, Further, NewNum, Smaller

LEMMA FurtherLooks ==
  ASSUME MaxCapt \in Nat, Len(pat) \in Nat, NEW q \in Nat \ {0}, capnum \in Nat,
         NEW s \in LooksOn(q), s.q <= Len(pat)
  PROVE  Further(s, 1) \in LooksOn(q) /\ Further(s, 1).q = s.q + 1
<1>1. s.q \in Nat \ {0} /\ s \in Looking
  BY DEF LooksOn, Looking
<1>2. GroupsBefore(q) \in Nat /\ GroupsBefore(s.q) \in Nat /\ GroupsBefore(s.q + 1) \in Nat
  <2>1. q \in Int /\ s.q \in Int /\ s.q + 1 \in Int
    BY <1>1
  <2> QED
    BY <2>1, GroupsAreCounted, Zenon
<1>3. GroupsBefore(s.q + 1) = IF pat[s.q].op \in {"open", "rep"} THEN GroupsBefore(s.q) + 1
                              ELSE GroupsBefore(s.q)
  BY <1>1, OpeningNext
<1>4. Further(s, 1) \in Looking /\ Further(s, 1).q = s.q + 1
  BY <1>1, FurtherIsLooking
<1>5. /\ Further(s, 1).num >= s.num
      /\ Further(s, 1).num + GroupsBefore(s.q) <= s.num + GroupsBefore(s.q + 1)
  <2>1. s.num \in 0 .. MaxCapt
    BY <1>1 DEF Looking
  <2>2. Further(s, 1).num = IF pat[s.q].op \in {"open", "rep"} THEN NewNum(s.num, 1) ELSE s.num
    BY DEF Further
  <2>3. NewNum(s.num, 1) \in {s.num, s.num + 1}
    BY <2>1 DEF NewNum, Smaller
  <2> QED
    BY <1>2, <1>3, <2>1, <2>2, <2>3
<1>6. q <= s.q /\ capnum <= s.num /\ s.num + GroupsBefore(q) <= capnum + GroupsBefore(s.q)
  BY DEF LooksOn
<1>7. Further(s, 1).num \in Nat /\ s.num \in Nat
  BY <1>1, <1>4 DEF Looking
<1> DEFINE g == Further(s, 1)
<1> HIDE DEF g
<1>8. q <= g.q /\ capnum <= g.num /\ g.num + GroupsBefore(q) <= capnum + GroupsBefore(g.q)
  <2> DEFINE b == GroupsBefore(q)
             d == GroupsBefore(s.q)
             e == GroupsBefore(s.q + 1)
  <2>1. b \in Nat /\ d \in Nat /\ e \in Nat
    BY <1>2
  <2>2. g.q = s.q + 1 /\ g.num \in Nat /\ s.num \in Nat /\ g.num >= s.num
    BY <1>4, <1>5, <1>7 DEF g
  <2>3. g.num + d <= s.num + e /\ s.num + b <= capnum + d
    BY <1>5, <1>6 DEF g
  <2>4. GroupsBefore(g.q) = e
    BY <2>2
  <2>5. q <= g.q /\ capnum <= g.num
    BY <1>1, <1>6, <2>2
  <2> HIDE DEF b, d, e
  <2>6. g.num + b <= capnum + e
    BY <2>1, <2>2, <2>3
  <2> QED
    BY <2>4, <2>5, <2>6 DEF b
<1> QED
  BY <1>4, <1>8 DEF LooksOn, g

\* A loop over the pattern that stops at its end, if not before, ends.
LEMMA LooksEnd ==
  ASSUME MaxCapt \in Nat, Len(pat) \in Nat, NEW stop,
         \A s \in Looking : s.q > Len(pat) => stop[s]
  PROVE  \E f : f = [s \in Looking |-> IF stop[s] THEN s ELSE f[Further(s, 1)]]
<1> DEFINE next == [s \in Looking |-> Further(s, 1)]
           m == [s \in Looking |-> Len(pat) + 1 - s.q]
<1>1. \A s \in Looking : m[s] \in 0 .. Len(pat)
  BY DEF Looking
<1>2. ASSUME NEW s \in Looking, ~ stop[s] PROVE next[s] \in Looking /\ m[next[s]] < m[s]
  <2>1. s.q <= Len(pat) /\ s.q \in Nat
    BY <1>2 DEF Looking
  <2>2. Further(s, 1) \in Looking /\ Further(s, 1).q = s.q + 1
    BY <2>1, FurtherIsLooking
  <2> QED
    BY <2>1, <2>2
<1>3. Shrinks(Looking, stop, next, m, Len(pat))
  BY <1>1, <1>2 DEF Shrinks
<1> HIDE DEF m
<1>4. PICK f : f = [s \in Looking |-> TailTurn(f, s, stop, next)]
  BY <1>3, LoopExists
<1>5. \A s \in Looking : TailTurn(f, s, stop, next) = IF stop[s] THEN s ELSE f[Further(s, 1)]
  BY DEF TailTurn
<1> HIDE DEF next
<1>6. f = [s \in Looking |-> IF stop[s] THEN s ELSE f[Further(s, 1)]]
  BY <1>4, <1>5
<1> QED
  BY <1>6

LEMMA LookLeaves ==
  ASSUME MaxCapt \in Nat, Len(pat) \in Nat, capnum \in 0 .. MaxCapt, NEW q \in 1 .. Len(pat) + 1,
         NEW stop, \A s \in Looking : s.q > Len(pat) => stop[s],
         NEW f, f = [s \in Looking |-> IF stop[s] THEN s ELSE f[Further(s, 1)]]
  PROVE  f[From(q)] \in LooksOn(q) /\ stop[f[From(q)]]
<1> DEFINE m == [s \in Looking |-> Len(pat) + 1 - s.q]
           R == {s \in LooksOn(q) : stop[s]}
<1>1. LooksOn(q) \subseteq Looking
  BY DEF LooksOn
<1>2. \A s \in LooksOn(q) : m[s] \in Nat
  BY <1>1 DEF Looking
<1>3. ASSUME NEW s \in LooksOn(q)
      PROVE  f[s] \in R \/ \E y \in LooksOn(q) : m[y] < m[s] /\ f[y] = f[s]
  <2>1. CASE stop[s]
    BY <2>1, <1>1
  <2>2. CASE ~ stop[s]
    <3>1. s.q <= Len(pat) /\ s.q \in Nat
      BY <2>2, <1>1 DEF Looking
    <3>2. Further(s, 1) \in LooksOn(q) /\ Further(s, 1).q = s.q + 1
      BY <3>1, FurtherLooks
    <3>3. f[s] = f[Further(s, 1)]
      BY <2>2, <1>1
    <3>4. m[Further(s, 1)] < m[s]
      BY <3>1, <3>2, <1>1
    <3> QED
      BY <3>2, <3>3, <3>4
  <2> QED
    BY <2>1, <2>2
<1>4. From(q) \in LooksOn(q)
  <2>1. From(q) \in Looking /\ From(q).q = q /\ From(q).num = capnum
    BY DEF From, Looking
  <2>2. q \in Int /\ GroupsBefore(q) \in Nat
    BY GroupsAreCounted
  <2> QED
    BY <2>1, <2>2 DEF LooksOn
<1> HIDE DEF m, R
<1>5. \A s \in LooksOn(q) : f[s] \in R
  BY <1>2, <1>3, LoopLeaves, Zenon
<1> QED
  BY <1>4, <1>5 DEF R

\* utl_pmx_alt: where the look stops, and what it has counted.
LEMMA AlternativeLooks ==
  ASSUME MaxCapt \in Nat, Len(pat) \in Nat, capnum \in 0 .. MaxCapt,
         NEW q \in 1 .. Len(pat) + 1, NEW st
  PROVE  Alternative(st, q) \in LooksOn(q) /\ Stops(st, Alternative(st, q))
<1> DEFINE stop == [s \in Looking |-> Stops(st, s)]
           scan == CHOOSE f : f = [s \in Looking |-> IF Stops(st, s) THEN s ELSE f[Further(s, 1)]]
<1>1. \A s \in Looking : s.q > Len(pat) => stop[s]
  BY DEF Stops
<1>2. \E f : f = [s \in Looking |-> IF stop[s] THEN s ELSE f[Further(s, 1)]]
  <2> HIDE DEF stop
  <2> QED
    BY <1>1, LooksEnd
<1>3. PICK f : f = [s \in Looking |-> IF stop[s] THEN s ELSE f[Further(s, 1)]]
  BY <1>2
<1>4. f = [s \in Looking |-> IF Stops(st, s) THEN s ELSE f[Further(s, 1)]]
  BY <1>3
<1>5. scan = [s \in Looking |-> IF Stops(st, s) THEN s ELSE scan[Further(s, 1)]]
  BY <1>4
<1>6. Alternative(st, q) = scan[From(q)]
  BY DEF Alternative, Scan
<1> HIDE DEF scan
<1>7. scan = [s \in Looking |-> IF stop[s] THEN s ELSE scan[Further(s, 1)]]
  BY <1>5
<1>8. scan[From(q)] \in LooksOn(q) /\ stop[scan[From(q)]]
  <2> HIDE DEF stop
  <2> QED
    BY <1>1, <1>7, LookLeaves
<1> QED
  BY <1>6, <1>8 DEF LooksOn

\* The loop of utl_W goes on in the text and stops inside it.
LEMMA RunInText ==
  ASSUME Len(txt) \in Nat, t \in Offset,
         NEW len, \A u \in 0 .. Len(txt) - 1 : len[u] \in Nat /\ u + len[u] <= Len(txt)
  PROVE  Run(len)[2] \in t .. Len(txt)
<1> DEFINE S == Nat \X Nat
           go(s) == At(s[2]) /\ len[s[2]] > 0 /\ s[1] < Tok.max
           after(s) == << s[1] + 1, s[2] + len[s[2]] >>
           stop == [s \in S |-> ~ go(s)]
           next == [s \in S |-> after(s)]
           m == [s \in S |-> IF s[2] <= Len(txt) THEN Len(txt) - s[2] ELSE 0]
           run == CHOOSE f : f = [s \in S |-> IF go(s) THEN f[after(s)] ELSE s]
<1>1. ASSUME NEW s \in S, go(s)
      PROVE  after(s) \in S /\ m[after(s)] < m[s] /\ s[2] < after(s)[2] /\ after(s)[2] <= Len(txt)
  BY <1>1 DEF At
<1>2. \A s \in S : m[s] \in 0 .. Len(txt)
  OBVIOUS
<1> HIDE DEF m, go, after, S
<1>3. Shrinks(S, stop, next, m, Len(txt))
  BY <1>1, <1>2 DEF Shrinks
<1>4. PICK f : f = [s \in S |-> TailTurn(f, s, stop, next)]
  <2> HIDE DEF stop, next, run
  <2> QED
    BY <1>3, LoopExists
<1>5. f = [s \in S |-> IF go(s) THEN f[after(s)] ELSE s]
  BY <1>4 DEF TailTurn
<1>6. run = [s \in S |-> IF go(s) THEN run[after(s)] ELSE s]
  BY <1>5
<1>7. Run(len) = run[<< 0, t >>]
  BY DEF Run, go, after, S
<1> HIDE DEF run
<1> DEFINE I == {s \in S : s[2] \in t .. Len(txt)}
<1>8. ASSUME NEW s \in I PROVE run[s] \in I \/ \E y \in I : m[y] < m[s] /\ run[y] = run[s]
  <2>1. s \in S /\ s[2] \in t .. Len(txt)
    OBVIOUS
  <2>2. CASE go(s)
    <3>1. after(s) \in S /\ m[after(s)] < m[s] /\ s[2] < after(s)[2] /\ after(s)[2] <= Len(txt)
      BY <1>1, <2>1, <2>2
    <3>2. after(s)[2] \in Nat
      BY <3>1 DEF S
    <3>3. after(s) \in I
      BY <2>1, <3>1, <3>2 DEF Offset
    <3>4. run[after(s)] = run[s]
      BY <1>6, <2>1, <2>2
    <3> QED
      BY <3>1, <3>3, <3>4
  <2>3. CASE ~ go(s)
    BY <1>6, <2>1, <2>3
  <2> QED
    BY <2>2, <2>3
<1>9. << 0, t >> \in I
  BY DEF Offset, S
<1>10. \A s \in I : m[s] \in Nat
  BY <1>2
<1> HIDE DEF I
<1>11. \A s \in I : run[s] \in I
  <2> HIDE DEF stop, next
  <2> QED
    BY <1>8, <1>10, LoopLeaves, ZenonT(30)
<1> QED
  BY <1>7, <1>9, <1>11 DEF I

\* utl_pmx_get_delimited: what it takes is in the text.
LEMMA DelimitedInText ==
  ASSUME Len(txt) \in Nat, NEW u \in 0 .. Len(txt) - 1, NEW b, NEW e, NEW x
  PROVE  /\ Delimited(u, b, e, x)[1] \in Nat /\ u + Delimited(u, b, e, x)[1] <= Len(txt)
         /\ Delimited(u, b, e, x)[2] \in BOOLEAN
<1> DEFINE S == Nat \X Nat
           over(v, cnt) ==
             ~ At(v) \/ (txt[v + 1] = e /\ cnt = 0) \/ (txt[v + 1] \notin {b, e} /\ txt[v + 1] = x /\ ~ At(v + 1))
           after(s) == LET v == s[1] ch == txt[v + 1] IN
                       IF ch = e THEN << v + 1, s[2] - 1 >>
                       ELSE IF ch = b THEN << v + 1, s[2] + 1 >>
                       ELSE IF ch = x THEN << v + 2, s[2] >> ELSE << v + 1, s[2] >>
           turn(f, s) == LET v == s[1] ch == txt[v + 1] IN
                         IF over(v, s[2]) THEN s
                         ELSE IF ch = e THEN f[<< v + 1, s[2] - 1 >>]
                         ELSE IF ch = b THEN f[<< v + 1, s[2] + 1 >>]
                         ELSE IF ch = x THEN f[<< v + 2, s[2] >>] ELSE f[<< v + 1, s[2] >>]
           stop == [s \in S |-> over(s[1], s[2])]
           next == [s \in S |-> after(s)]
           m == [s \in S |-> IF s[1] <= Len(txt) THEN Len(txt) - s[1] ELSE 0]
           go == CHOOSE f : f = [s \in S |-> turn(f, s)]
           end == go[<< u + 1, 0 >>][1]
<1>1. ASSUME NEW s \in S, ~ over(s[1], s[2])
      PROVE  after(s) \in S /\ m[after(s)] < m[s] /\ s[1] < after(s)[1]
  <2>1. s[1] \in Nat /\ s[2] \in Nat /\ s[1] < Len(txt)
    BY <1>1 DEF At
  <2>2. after(s) \in S /\ after(s)[1] \in {s[1] + 1, s[1] + 2}
    BY <1>1, <2>1
  <2> QED
    BY <2>1, <2>2
<1>2. \A s \in S : m[s] \in 0 .. Len(txt)
  OBVIOUS
<1>3. ASSUME NEW f, NEW s \in S PROVE turn(f, s) = IF over(s[1], s[2]) THEN s ELSE f[after(s)]
  OBVIOUS
<1>4. /\ Delimited(u, b, e, x) =
           IF txt[u + 1] # b \/ ~ At(end) THEN << 0, FALSE >> ELSE << end + 1 - u, txt[end + 1] # e >>
  BY DEF Delimited
<1>5. << u + 1, 0 >> \in S
  OBVIOUS
<1> HIDE DEF m, after, over, turn, S
<1>6. Shrinks(S, stop, next, m, Len(txt))
  BY <1>1, <1>2 DEF Shrinks
<1>7. PICK f : f = [s \in S |-> TailTurn(f, s, stop, next)]
  <2> HIDE DEF stop, next, go
  <2> QED
    BY <1>6, LoopExists
<1>8. f = [s \in S |-> turn(f, s)]
  BY <1>3, <1>7 DEF TailTurn
<1>9. go = [s \in S |-> turn(go, s)]
  BY <1>8
<1> DEFINE I == {s \in S : s[1] >= u + 1}
<1> HIDE DEF go
<1>10. ASSUME NEW s \in I PROVE go[s] \in I \/ \E y \in I : m[y] < m[s] /\ go[y] = go[s]
  <2>1. s \in S /\ s[1] >= u + 1 /\ s[1] \in Nat
    BY DEF S
  <2>2. CASE over(s[1], s[2])
    BY <1>3, <1>9, <2>1, <2>2
  <2>3. CASE ~ over(s[1], s[2])
    <3>1. after(s) \in S /\ m[after(s)] < m[s] /\ s[1] < after(s)[1]
      BY <1>1, <2>1, <2>3
    <3>2. after(s)[1] \in Nat
      BY <3>1 DEF S
    <3>3. after(s) \in I
      BY <2>1, <3>1, <3>2
    <3>4. go[after(s)] = go[s]
      BY <1>3, <1>9, <2>1, <2>3
    <3> QED
      BY <3>1, <3>3, <3>4
  <2> QED
    BY <2>2, <2>3
<1>11. << u + 1, 0 >> \in I
  BY <1>5
<1>12. \A s \in I : m[s] \in Nat
  BY <1>2
<1> HIDE DEF I
<1>13. \A s \in I : go[s] \in I
  <2> HIDE DEF stop, next, end
  <2> QED
    BY <1>10, <1>12, LoopLeaves
<1>14. end \in Nat /\ end >= u + 1
  BY <1>11, <1>13 DEF I, S
<1> HIDE DEF end
<1>15. CASE txt[u + 1] # b \/ ~ At(end)
  <2>1. Delimited(u, b, e, x) = << 0, FALSE >>
    BY <1>4, <1>15
  <2> QED
    BY <2>1
<1>16. CASE ~ (txt[u + 1] # b \/ ~ At(end))
  <2>1. Delimited(u, b, e, x) = << end + 1 - u, txt[end + 1] # e >>
    BY <1>4, <1>16
  <2>2. end < Len(txt)
    BY <1>16 DEF At
  <2> QED
    BY <2>1, <2>2, <1>14
<1> QED
  BY <1>15, <1>16

-----------------------------------------------------------------------------
(* The invariant *)

Groups == [pat : 1 .. Len(pat) + 1, txt : Offset, min : Nat, max : Nat, n : Nat,
           inv : BOOLEAN, cap : Nat]

\* The groups that are open when the text is matched up to u, one in the other:
\* the first is the whole match.
Nested(st, u) ==
  /\ st \in Seq(Groups) /\ Len(st) \in 1 .. MaxCapt
  /\ st[1].cap = 0 /\ st[1].txt = from
  /\ \A i \in 1 .. Len(st) : from <= st[i].txt /\ st[i].txt <= u
  /\ \A i, j \in 1 .. Len(st) : i < j => st[i].cap < st[j].cap /\ st[i].txt <= st[j].txt

\* Each of them has one of the n captures c, that began where the group did or,
\* when it is repeated, later; the whole match begins where the attempt did.
Captured(st, c, n) ==
  /\ \A i \in 1 .. Len(st) :
       /\ st[i].cap < n
       /\ c[st[i].cap] \in Offset \X Offset /\ st[i].txt <= c[st[i].cap][1]
  /\ c[0] \in Offset \X Offset /\ c[0][1] = from

Stretches(c, n) ==
  \A i \in 0 .. n - 1 :
    \/ c[i] = Nothing
    \/ c[i] \in Offset \X Offset /\ from <= c[i][1] /\ c[i][1] <= c[i][2]

\* No capture is taken when the match failed, and nothing is left to match.
MatchInv ==
  /\ ph = "match" => Nested(stack, t) /\ (capnum > 0 => Captured(stack, capt, capnum))
  /\ capnum = 0 => p > Len(pat)
  /\ Stretches(capt, capnum)
  /\ ph = "done" /\ ~ (mode = "scan" /\ txt = <<>>) => \A i \in capnum .. MaxCapt - 1 : capt[i] = Nothing

IInv == PmxTypeOK /\ MatchInv

\* There are no more groups on the way than captures: utl_pmx_newcap has taken
\* one for each group that is open.
EveryGroupHasCapture == \A i \in 1 .. Len(stack) : stack[i].cap < MaxCapt

LEMMA GroupFields ==
  ASSUME Len(txt) \in Nat, NEW g \in Groups
  PROVE  g.cap \in Nat /\ g.n \in Nat /\ g.txt \in Offset /\ g.txt \in Nat /\ g.inv \in BOOLEAN
         /\ g.pat \in 1 .. Len(pat) + 1
  BY DEF Groups, Offset

\* What the calls are given.
LEMMA CallTypes ==
  ASSUME CallAssumption, PmxTypeOK
  PROVE  /\ MaxCapt \in Nat \ {0} /\ Enough \in Nat
         /\ Len(pat) \in Nat /\ Len(txt) \in Nat
         /\ DOMAIN pat = 1 .. Len(pat)
         /\ txt \in Seq(Range(txt))
         /\ \A i \in 1 .. Len(pat) :
              /\ pat[i].op \in {"open", "rep"} => pat[i].inv \in BOOLEAN
              /\ pat[i].op = "rep" => pat[i].min \in Nat /\ pat[i].max \in Nat
              /\ pat[i].op = "ref" => pat[i].k \in 1 .. 9
              /\ pat[i].op = "case" => pat[i].sens \in BOOLEAN
<1> DEFINE c == << pat, txt, mode >>
<1>1. c \in Calls /\ c[1] = pat /\ c[2] = txt
  BY DEF PmxTypeOK
<1> HIDE DEF c
<1>2. IsCall(c)
  BY <1>1 DEF CallAssumption
<1>3. pat \in Seq(Range(pat)) /\ txt \in Seq(Range(txt))
  BY <1>1, <1>2 DEF IsCall
<1>4. /\ Len(pat) \in Nat /\ Len(txt) \in Nat /\ DOMAIN pat = 1 .. Len(pat)
  BY <1>3
<1> QED
  BY <1>1, <1>2, <1>3, <1>4 DEF IsCall, CallAssumption

LEMMA CapturesKept ==
  ASSUME MaxCapt \in Nat, NEW c \in [0 .. MaxCapt - 1 -> Span], NEW k \in 0 .. MaxCapt,
         NEW n \in Nat, NEW v \in Span
  PROVE  /\ WithCaptures(c, k, n, v) \in [0 .. MaxCapt - 1 -> Span]
         /\ \A i \in 0 .. MaxCapt - 1 : i < k => WithCaptures(c, k, n, v)[i] = c[i]
         /\ \A i \in 0 .. MaxCapt - 1 : k <= i /\ i < k + n => WithCaptures(c, k, n, v)[i] = v
  BY DEF WithCaptures

LEMMA Implied == ASSUME CallAssumption, IInv PROVE InText
<1>1. /\ \A i \in 0 .. capnum - 1 :
           capt[i] = Nothing \/ (from <= capt[i][1] /\ capt[i][1] <= capt[i][2])
  BY DEF IInv, MatchInv, Stretches
<1>2. ASSUME ph = "match", NEW i \in 1 .. Len(stack)
      PROVE  /\ capnum > 0 => stack[i].cap < capnum
             /\ i > 1 => stack[i - 1].cap < stack[i].cap /\ stack[i - 1].txt <= stack[i].txt
             /\ stack[i].txt <= t /\ from <= stack[i].txt
  <2>1. Nested(stack, t) /\ (capnum > 0 => Captured(stack, capt, capnum))
    BY <1>2 DEF IInv, MatchInv
  <2>2. i > 1 => i - 1 \in 1 .. Len(stack) /\ i - 1 < i
    BY <2>1 DEF Nested
  <2> QED
    BY <2>1, <2>2 DEF Nested, Captured
<1> QED
  BY <1>1, <1>2 DEF InText, IInv, MatchInv

\* What a turn of the loop leaves.
Kept ==
  /\ p' \in 1 .. Len(pat) + 1 /\ t' \in Offset /\ error' \in BOOLEAN /\ csens' \in BOOLEAN
  /\ capnum' \in 0 .. MaxCapt /\ capt' \in [0 .. MaxCapt - 1 -> Span]
  /\ Nested(stack', t')
  /\ capnum' > 0 => Captured(stack', capt', capnum')
  /\ capnum' = 0 => p' > Len(pat)
  /\ Stretches(capt', capnum')

LEMMA KeptInv ==
  ASSUME CallAssumption, IInv, Kept, inv' \in BOOLEAN, ph = "match", UNCHANGED << call, from, ph >>
  PROVE  IInv'
<1>1. pat' = pat /\ txt' = txt /\ mode' = mode /\ from' = from /\ ph' = "match"
  BY DEF call
<1>2. Offset' = Offset /\ Span' = Span /\ Groups' = Groups
  BY <1>1 DEF Offset, Span, Groups
<1>3. PmxTypeOK'
  BY <1>1, <1>2 DEF Kept, PmxTypeOK, IInv, Nested, call
<1>4. Nested(stack, t)' /\ (capnum' > 0 => Captured(stack, capt, capnum)')
  BY <1>1, <1>2 DEF Kept, Nested, Captured
<1>5. Stretches(capt, capnum)'
  BY <1>1, <1>2 DEF Kept, Stretches
<1> QED
  BY <1>1, <1>3, <1>4, <1>5 DEF IInv, MatchInv, Kept

\* What is known in a turn of the loop.
InTurn ==
  /\ PmxTypeOK /\ ph = "match" /\ p <= Len(pat) /\ capnum > 0
  /\ Nested(stack, t) /\ Captured(stack, capt, capnum) /\ Stretches(capt, capnum)

LEMMA TurnKnows ==
  ASSUME CallAssumption, IInv, ph = "match", p <= Len(pat)
  PROVE  InTurn
<1>1. Len(pat) \in Nat /\ MaxCapt \in Nat
  BY CallTypes DEF IInv
<1> QED
  BY <1>1 DEF InTurn, IInv, MatchInv, PmxTypeOK

\* The state utl_pmx_state_pop leaves.
LEMMA Popped ==
  ASSUME MaxCapt \in Nat, NEW st, NEW u, Nested(st, u), Len(st) >= 2
  PROVE  /\ Front(st) \in Seq(Groups) /\ Len(Front(st)) = Len(st) - 1
         /\ \A i \in 1 .. Len(st) - 1 : Front(st)[i] = st[i]
         /\ Nested(Front(st), u)
         /\ \A c, n : Captured(st, c, n) => Captured(Front(st), c, n)
<1>1. st \in Seq(Groups) /\ Len(st) \in Nat
  BY DEF Nested
<1>2. /\ Front(st) \in Seq(Groups) /\ Len(Front(st)) = Len(st) - 1
      /\ \A i \in 1 .. Len(st) - 1 : Front(st)[i] = st[i]
  BY <1>1 DEF Front
<1>3. \A i \in 1 .. Len(st) - 1 : i \in 1 .. Len(st)
  BY <1>1
<1>4. 1 \in 1 .. Len(st) - 1
  BY <1>1
<1>5. Nested(Front(st), u)
  BY <1>1, <1>2, <1>3, <1>4 DEF Nested
<1>6. ASSUME NEW c, NEW n, Captured(st, c, n) PROVE Captured(Front(st), c, n)
  BY <1>2, <1>3, <1>6 DEF Captured
<1> QED
  BY <1>2, <1>5, <1>6

\* Captures that hold nothing, for the groups that were passed over.
LEMMA PassedOver ==
  ASSUME CallAssumption, InTurn, NEW st, Captured(st, capt, capnum), Len(st) \in Nat \ {0},
         \A i \in 1 .. Len(st) : st[i].cap \in Nat,
         NEW num \in capnum .. MaxCapt, NEW c, c = WithCaptures(capt, capnum, num - capnum, Nothing)
  PROVE  /\ c \in [0 .. MaxCapt - 1 -> Span]
         /\ \A i \in 1 .. Len(st) : c[st[i].cap] = capt[st[i].cap]
         /\ Captured(st, c, num) /\ Stretches(c, num)
<1>1. MaxCapt \in Nat \ {0} /\ capnum \in 1 .. MaxCapt /\ capt \in [0 .. MaxCapt - 1 -> Span]
  BY CallTypes DEF InTurn, PmxTypeOK
<1>2. Nothing \in Span /\ num - capnum \in Nat
  BY <1>1 DEF Span
<1>3. /\ c \in [0 .. MaxCapt - 1 -> Span]
      /\ \A i \in 0 .. MaxCapt - 1 : i < capnum => c[i] = capt[i]
      /\ \A i \in 0 .. MaxCapt - 1 : capnum <= i /\ i < capnum + (num - capnum) => c[i] = Nothing
  BY <1>1, <1>2, CapturesKept
<1>4. \A i \in 1 .. Len(st) : c[st[i].cap] = capt[st[i].cap]
  BY <1>1, <1>3 DEF Captured
<1>5. Captured(st, c, num)
  BY <1>1, <1>3, <1>4 DEF Captured
<1>6. Stretches(c, num)
  BY <1>1, <1>3 DEF Stretches, InTurn
<1> QED
  BY <1>3, <1>4, <1>5, <1>6

\* utl_pmx_alt, wherever it finds to go on.
LEMMA FailKeeps ==
  ASSUME CallAssumption, InTurn, NEW st, Nested(st, t), Captured(st, capt, capnum),
         NEW q \in 1 .. Len(pat) + 1, NEW er \in BOOLEAN, Fail(st, q, er)
  PROVE  Kept /\ (capnum' = 0 \/ capnum' + GroupsBefore(q) <= capnum + GroupsBefore(p'))
<1> DEFINE a == Alternative(st, q)
           g == Last(st)
           how == IF a.q > Len(pat) THEN "end" ELSE IF pat[a.q].op = "alt" THEN "alt"
                  ELSE IF g.inv THEN "inv" ELSE "enough"
           next == Smaller(a.q, Len(pat)) + 1
           passed == WithCaptures(capt, capnum, a.num - capnum, Nothing)
<1>1. /\ MaxCapt \in Nat \ {0} /\ Len(pat) \in Nat /\ capnum \in 1 .. MaxCapt /\ t \in Offset
      /\ capt \in [0 .. MaxCapt - 1 -> Span] /\ error \in BOOLEAN /\ csens \in BOOLEAN
      /\ Len(txt) \in Nat /\ from \in Offset
  BY CallTypes DEF InTurn, PmxTypeOK
<1>2. a \in LooksOn(q) /\ Stops(st, a)
  BY <1>1, AlternativeLooks
<1>3. /\ p' = next
      /\ capnum' = IF next > Len(pat) THEN 0 ELSE a.num
      /\ error' = (error \/ er \/ (a.er /\ Len(st) < 2))
      /\ stack' = IF how \in {"end", "alt"} THEN st ELSE Front(st)
      /\ t' = IF how \in {"alt", "inv"} THEN passed[g.cap][1] ELSE t
      /\ capt' = IF how = "enough" THEN [passed EXCEPT ![g.cap] = << g.txt, t >>] ELSE passed
      /\ csens' = csens
  BY DEF Fail
<1> HIDE DEF a
<1>4. /\ a.q \in q .. Len(pat) + 1 /\ a.num \in capnum .. MaxCapt /\ a.er \in BOOLEAN
      /\ a.num + GroupsBefore(q) <= capnum + GroupsBefore(a.q)
  BY <1>1, <1>2 DEF LooksOn, Looking
<1>5. /\ st \in Seq(Groups) /\ Len(st) \in 1 .. MaxCapt
      /\ \A i \in 1 .. Len(st) : st[i] \in Groups
      /\ g = st[Len(st)] /\ g \in Groups
  BY <1>1 DEF Nested, Last
<1>6. /\ how \in {"inv", "enough"} => Len(st) >= 2
      /\ how \in {"end", "alt", "inv", "enough"}
  BY <1>1, <1>2, <1>4 DEF Stops
<1>7. /\ passed \in [0 .. MaxCapt - 1 -> Span]
      /\ \A i \in 1 .. Len(st) : passed[st[i].cap] = capt[st[i].cap]
      /\ Captured(st, passed, a.num) /\ Stretches(passed, a.num)
  <2>1. \A i \in 1 .. Len(st) : st[i].cap \in Nat
    BY <1>5 DEF Groups
  <2> HIDE DEF passed
  <2> QED
    BY <1>4, <1>5, <2>1, PassedOver DEF passed
<1>8. /\ next \in 1 .. Len(pat) + 1 /\ next > 1
      /\ next > Len(pat) \/ next = a.q + 1
  <2>1. a.q \in Nat \ {0} /\ a.q <= Len(pat) + 1 /\ Len(pat) > 0
    <3>1. q \in Nat \ {0} /\ Len(pat) > 0 /\ q <= a.q
      BY <1>1, <1>4 DEF InTurn, PmxTypeOK
    <3> QED
      BY <1>1, <1>4, <3>1
  <2> QED
    BY <1>1, <2>1 DEF Smaller
<1> HIDE DEF passed, how, next, g
<1>9. /\ g.txt <= passed[g.cap][1] /\ passed[g.cap][1] \in Offset /\ g.txt \in Offset
      /\ g.cap \in 0 .. MaxCapt - 1 /\ g.cap < a.num
      /\ from <= g.txt /\ g.txt <= t
  <2>1. Len(st) \in 1 .. Len(st)
    BY <1>5
  <2>2. g.cap \in Nat /\ g.txt \in Offset /\ a.num \in Nat /\ a.num <= MaxCapt
    BY <1>1, <1>4, <1>5, GroupFields
  <2>3. g.cap < a.num /\ passed[g.cap] \in Offset \X Offset /\ g.txt <= passed[g.cap][1]
    BY <1>5, <1>7, <2>1 DEF Captured
  <2>4. from <= g.txt /\ g.txt <= t
    BY <1>5, <2>1 DEF Nested
  <2> QED
    BY <1>1, <2>2, <2>3, <2>4
<1>15. \A i \in 1 .. Len(st) - 1 : /\ st[i].cap < g.cap /\ st[i].cap \in Nat
                                   /\ st[i].txt <= g.txt /\ st[i].txt \in Nat
  <2> TAKE i \in 1 .. Len(st) - 1
  <2>1. i \in 1 .. Len(st) /\ Len(st) \in 1 .. Len(st) /\ i < Len(st)
    BY <1>5
  <2>2. st[i].cap < st[Len(st)].cap /\ st[i].txt <= st[Len(st)].txt
    BY <2>1 DEF Nested
  <2>3. st[i].cap \in Nat /\ st[i].txt \in Nat
    BY <1>1, <1>5, <2>1, GroupFields
  <2> QED
    BY <1>5, <2>2, <2>3
<1>10. t' \in Offset /\ Nested(st, t')
  <2>1. CASE how \in {"alt", "inv"}
    <3>1. t' = passed[g.cap][1]
      BY <1>3, <2>1
    <3>2. \A i \in 1 .. Len(st) : st[i].txt <= g.txt /\ st[i].txt \in Nat
      <4> TAKE i \in 1 .. Len(st)
      <4>1. CASE i = Len(st)
        BY <1>5, <1>9, <4>1 DEF Offset
      <4>2. CASE i # Len(st)
        BY <1>5, <1>15, <4>2
      <4> QED
        BY <4>1, <4>2
    <3>3. \A i \in 1 .. Len(st) : st[i].txt <= t'
      <4>1. t' \in Nat /\ g.txt \in Nat /\ g.txt <= t'
        BY <1>1, <1>9, <3>1 DEF Offset
      <4> QED
        BY <3>2, <4>1
    <3> QED
      BY <1>9, <3>1, <3>3 DEF Nested
  <2>2. CASE how \notin {"alt", "inv"}
    BY <1>1, <1>3, <2>2
  <2> QED
    BY <2>1, <2>2
<1>11. Nested(stack', t')
  <2>1. CASE how \in {"end", "alt"}
    BY <1>3, <1>10, <2>1
  <2>2. CASE how \in {"inv", "enough"}
    BY <1>1, <1>3, <1>6, <1>10, <2>2, Popped
  <2> QED
    BY <1>6, <2>1, <2>2
<1>16. /\ p' \in 1 .. Len(pat) + 1 /\ error' \in BOOLEAN /\ csens' \in BOOLEAN
       /\ capnum' = 0 \/ capnum' = a.num
       /\ capnum' = 0 => p' > Len(pat)
       /\ capnum' \in 0 .. MaxCapt /\ a.num \in Nat
  BY <1>1, <1>3, <1>4, <1>8
<1>17. \A c : Stretches(c, 0)
  BY DEF Stretches
<1>12. ASSUME how # "enough" PROVE Kept
  <2>1. capt' = passed
    BY <1>3, <1>12
  <2>2. Captured(stack', capt', a.num)
    <3>1. CASE how \in {"end", "alt"}
      BY <1>3, <1>7, <2>1, <3>1
    <3>2. CASE how = "inv"
      BY <1>1, <1>3, <1>6, <1>7, <1>10, <2>1, <3>2, Popped
    <3> QED
      BY <1>6, <1>12, <3>1, <3>2
  <2>3. capnum' > 0 => Captured(stack', capt', capnum')
    BY <1>16, <2>2
  <2>4. Stretches(capt', capnum')
    <3>1. Stretches(capt', a.num)
      BY <1>7, <2>1
    <3> QED
      BY <1>16, <1>17, <3>1
  <2> QED
    BY <1>7, <1>10, <1>11, <1>16, <2>1, <2>3, <2>4 DEF Kept
<1>13. ASSUME how = "enough" PROVE Kept
  <2>1. capt' = [passed EXCEPT ![g.cap] = << g.txt, t >>]
    BY <1>3, <1>13
  <2>2. Captured(stack', passed, a.num) /\ stack' = Front(st)
    BY <1>1, <1>3, <1>6, <1>7, <1>10, <1>13, Popped
  <2>3. /\ Len(stack') = Len(st) - 1 /\ \A i \in 1 .. Len(st) - 1 : stack'[i] = st[i]
    BY <1>1, <1>6, <1>10, <1>13, <2>2, Popped
  <2>4. \A i \in 1 .. Len(stack') : stack'[i].cap < g.cap /\ stack'[i].cap \in Nat
    BY <1>15, <2>3
  <2>5. 0 < g.cap
    <3>1. 1 \in 1 .. Len(st) - 1 /\ st[1].cap = 0
      BY <1>5, <1>6, <1>13 DEF Nested
    <3> QED
      BY <1>15, <3>1
  <2>6. << g.txt, t >> \in Offset \X Offset /\ << g.txt, t >> \in Span
    BY <1>1, <1>9 DEF Span
  <2>7. capt' \in [0 .. MaxCapt - 1 -> Span]
    BY <1>7, <2>1, <2>6
  <2>8. \A i \in 0 .. MaxCapt - 1 : i # g.cap => capt'[i] = passed[i]
    BY <1>7, <2>1
  <2>9. capt'[g.cap] = << g.txt, t >>
    BY <1>7, <1>9, <2>1
  <2>10. Captured(stack', capt', a.num)
    <3>1. ASSUME NEW i \in 1 .. Len(stack') PROVE capt'[stack'[i].cap] = passed[stack'[i].cap]
      <4> DEFINE k == stack'[i].cap
      <4>1. k < g.cap /\ k \in Nat
        BY <2>4
      <4> HIDE DEF k
      <4>2. k \in 0 .. MaxCapt - 1 /\ k # g.cap
        BY <1>1, <1>9, <4>1
      <4>3. capt'[k] = passed[k]
        BY <2>8, <4>2
      <4> QED
        BY <4>3 DEF k
    <3>2. capt'[0] = passed[0]
      BY <1>1, <1>9, <2>5, <2>8
    <3> QED
      BY <2>2, <3>1, <3>2 DEF Captured
  <2>11. Stretches(capt', a.num)
    <3> SUFFICES ASSUME NEW i \in 0 .. a.num - 1
                 PROVE  \/ capt'[i] = Nothing
                        \/ capt'[i] \in Offset \X Offset /\ from <= capt'[i][1] /\ capt'[i][1] <= capt'[i][2]
      BY DEF Stretches
    <3>1. CASE i = g.cap
      BY <1>9, <2>6, <2>9, <3>1
    <3>2. CASE i # g.cap
      <4>1. i \in 0 .. MaxCapt - 1
        BY <1>1, <1>4
      <4> QED
        BY <1>7, <2>8, <3>2, <4>1 DEF Stretches
    <3> QED
      BY <3>1, <3>2
  <2>12. capnum' > 0 => Captured(stack', capt', capnum')
    BY <1>16, <2>10
  <2>13. Stretches(capt', capnum')
    BY <1>16, <1>17, <2>11
  <2> QED
    BY <1>10, <1>11, <1>16, <2>7, <2>12, <2>13 DEF Kept
<1>14. capnum' = 0 \/ capnum' + GroupsBefore(q) <= capnum + GroupsBefore(p')
  <2>1. CASE next > Len(pat)
    BY <1>3, <2>1
  <2>2. CASE ~ (next > Len(pat))
    <3>1. next = a.q + 1 /\ a.q \in Nat \ {0} /\ q \in Int /\ a.q \in Int /\ a.q + 1 \in Int
      BY <1>4, <1>8, <2>2
    <3>2. GroupsBefore(a.q + 1) = IF pat[a.q].op \in {"open", "rep"} THEN GroupsBefore(a.q) + 1
                                  ELSE GroupsBefore(a.q)
      BY <3>1, OpeningNext
    <3>3. GroupsBefore(a.q) \in Nat /\ GroupsBefore(q) \in Nat /\ GroupsBefore(a.q + 1) \in Nat
      BY <3>1, GroupsAreCounted, Zenon
    <3>4. capnum' = a.num /\ p' = a.q + 1
      BY <1>3, <2>2, <3>1
    <3>5. GroupsBefore(p') = GroupsBefore(a.q + 1)
      BY <3>4
    <3> DEFINE b == GroupsBefore(q)
               d == GroupsBefore(a.q)
               e == GroupsBefore(a.q + 1)
    <3>6. a.num + b <= capnum + d /\ d <= e /\ b \in Nat /\ d \in Nat /\ e \in Nat
      BY <1>4, <3>2, <3>3
    <3>7. a.num \in Nat /\ capnum \in Nat
      BY <1>1, <1>16
    <3> HIDE DEF b, d, e
    <3>8. a.num + b <= capnum + e
      BY <3>6, <3>7
    <3> QED
      BY <3>4, <3>5, <3>8 DEF b, e
  <2> QED
    BY <2>1, <2>2
<1> QED
  BY <1>12, <1>13, <1>14

-----------------------------------------------------------------------------
(* One turn of the loop *)

\* A turn that ends at token p' takes a capture for each group it goes past, if
\* it does not go back in the pattern.
Counts(q) == capnum' = 0 \/ capnum' + GroupsBefore(q) <= capnum + GroupsBefore(p')

LEMMA GroupsGrow ==
  ASSUME NEW q \in Nat \ {0}
  PROVE  /\ GroupsBefore(q) \in Nat /\ GroupsBefore(q + 1) \in Nat
         /\ GroupsBefore(q) <= GroupsBefore(q + 1) /\ GroupsBefore(q + 1) <= GroupsBefore(q) + 1
<1>1. q \in Int /\ q + 1 \in Int
  OBVIOUS
<1>2. GroupsBefore(q) \in Nat /\ GroupsBefore(q + 1) \in Nat
  BY <1>1, GroupsAreCounted, Zenon
<1>3. GroupsBefore(q + 1) = IF pat[q].op \in {"open", "rep"} THEN GroupsBefore(q) + 1
                                ELSE GroupsBefore(q)
  BY OpeningNext
<1> QED
  BY <1>2, <1>3

LEMMA CountsNext ==
  ASSUME CallAssumption, InTurn, capnum' \in Nat, p' \in Nat \ {0}, Counts(p + 1)
  PROVE  Counts(p)
<1>1. p \in Nat \ {0} /\ capnum \in Nat
  BY CallTypes DEF InTurn, PmxTypeOK
<1>2. GroupsBefore(p) \in Nat /\ GroupsBefore(p + 1) \in Nat /\ GroupsBefore(p) <= GroupsBefore(p + 1)
  BY <1>1, GroupsGrow
<1>3. GroupsBefore(p') \in Nat
  <2>1. p' \in Int
    OBVIOUS
  <2> QED
    BY <2>1, GroupsAreCounted, Zenon
<1> QED
  BY <1>1, <1>2, <1>3 DEF Counts

\* On to the next token, further in the text or not.
LEMMA GoesOn ==
  ASSUME CallAssumption, InTurn, p' = p + 1, t' \in t .. Len(txt), csens' \in BOOLEAN, error' \in BOOLEAN,
         UNCHANGED << stack, capt, capnum >>
  PROVE  Kept /\ Counts(p)
<1>1. /\ Len(pat) \in Nat /\ Len(txt) \in Nat /\ MaxCapt \in Nat \ {0} /\ from \in Nat
      /\ t \in Offset /\ p \in 1 .. Len(pat) /\ capnum \in 1 .. MaxCapt /\ p \in Nat \ {0}
      /\ capt \in [0 .. MaxCapt - 1 -> Span]
  BY CallTypes DEF InTurn, PmxTypeOK, Offset
<1>2. t' \in Offset /\ t <= t'
  BY <1>1 DEF Offset
<1>3. Nested(stack, t) /\ Captured(stack, capt, capnum) /\ Stretches(capt, capnum)
  BY DEF InTurn
<1>4. \A i \in 1 .. Len(stack) : stack[i].txt \in Nat
  <2> TAKE i \in 1 .. Len(stack)
  <2>1. stack[i] \in Groups
    BY <1>3 DEF Nested
  <2> QED
    BY <1>1, <2>1, GroupFields
<1>5. \A i \in 1 .. Len(stack) : stack[i].txt <= t'
  <2> TAKE i \in 1 .. Len(stack)
  <2>1. stack[i].txt <= t
    BY <1>3 DEF Nested
  <2>2. t \in Nat /\ t' \in Nat
    BY <1>1, <1>2 DEF Offset
  <2> QED
    BY <1>2, <1>4, <2>1, <2>2
<1>6. Nested(stack', t')
  BY <1>3, <1>5 DEF Nested
<1>7. GroupsBefore(p) \in Nat /\ GroupsBefore(p + 1) \in Nat /\ GroupsBefore(p) <= GroupsBefore(p + 1)
  BY <1>1, GroupsGrow
<1>8. Counts(p)
  BY <1>1, <1>7 DEF Counts
<1>9. Captured(stack', capt', capnum') /\ Stretches(capt', capnum')
  BY <1>3
<1>10. p' \in 1 .. Len(pat) + 1 /\ capnum' \in 0 .. MaxCapt /\ capnum' # 0 /\ capt' \in [0 .. MaxCapt - 1 -> Span]
  BY <1>1
<1> QED
  BY <1>2, <1>6, <1>8, <1>9, <1>10 DEF Kept

\* utl_pmx_state_push
LEMMA PushKeeps ==
  ASSUME CallAssumption, InTurn, NEW min \in Nat, NEW max \in Nat, NEW neg \in BOOLEAN,
         PushGroup(p + 1, min, max, neg), pat[p].op \in {"open", "rep"},
         \A i \in 1 .. Len(stack') : stack'[i].cap < MaxCapt
  PROVE  Kept /\ Counts(p)
<1>1. /\ Len(pat) \in Nat /\ Len(txt) \in Nat /\ MaxCapt \in Nat \ {0} /\ from \in Offset
      /\ t \in Offset /\ t \in Nat /\ p \in 1 .. Len(pat) /\ capnum \in 1 .. MaxCapt /\ p \in Nat \ {0}
      /\ capt \in [0 .. MaxCapt - 1 -> Span] /\ error \in BOOLEAN /\ csens \in BOOLEAN
  <2>1. PmxTypeOK /\ p <= Len(pat) /\ capnum > 0
    BY DEF InTurn
  <2>2. MaxCapt \in Nat \ {0} /\ Len(pat) \in Nat /\ Len(txt) \in Nat
    BY <2>1, CallTypes
  <2>3. from \in Offset /\ t \in Offset /\ p \in 1 .. Len(pat) + 1 /\ capnum \in 0 .. MaxCapt
        /\ capt \in [0 .. MaxCapt - 1 -> Span] /\ error \in BOOLEAN /\ csens \in BOOLEAN
    BY <2>1 DEF PmxTypeOK
  <2>4. t \in Nat /\ p \in 1 .. Len(pat) /\ p \in Nat \ {0} /\ capnum \in 1 .. MaxCapt
    BY <2>1, <2>2, <2>3 DEF Offset
  <2> QED
    BY <2>2, <2>3, <2>4
<1>2. Nested(stack, t) /\ Captured(stack, capt, capnum) /\ Stretches(capt, capnum)
  BY DEF InTurn
<1>3. p' = p + 1 /\ t' = t /\ csens' = csens /\ t' \in t .. Len(txt)
  BY <1>1 DEF PushGroup, Offset
<1>4. CASE Len(stack) >= MaxCapt
  <2>1. error' = TRUE /\ UNCHANGED << stack, capt, capnum >>
    <3>1. Len(stack) \in Nat
      BY <1>1, <1>2 DEF Nested
    <3>2. ~ (Len(stack) < MaxCapt)
      BY <1>1, <1>4, <3>1
    <3> QED
      BY <3>2 DEF PushGroup
  <2> QED
    BY <1>1, <1>3, <2>1, GoesOn
<1>5. ASSUME Len(stack) < MaxCapt PROVE Kept /\ Counts(p)
  <2> DEFINE g == Group(p + 1, min, max, neg)
             n == Len(stack)
  <2>1. /\ stack' = Append(stack, g) /\ capt' = WithCaptures(capt, capnum, 1, << t, t >>)
        /\ capnum' = NewNum(capnum, 1) /\ error' = error
    BY <1>5 DEF PushGroup
  <2>2. g \in Groups /\ g.cap = capnum /\ g.txt = t
    BY <1>1 DEF Group, Groups
  <2>3. n \in Nat \ {0} /\ stack \in Seq(Groups)
    BY <1>1, <1>2 DEF Nested
  <2> HIDE DEF g
  <2>4. /\ stack' \in Seq(Groups) /\ Len(stack') = n + 1 /\ stack'[n + 1] = g
        /\ \A i \in 1 .. n : stack'[i] = stack[i]
    BY <2>1, <2>2, <2>3
  <2> HIDE DEF n
  <2>5. capnum < MaxCapt
    <3>1. n + 1 \in 1 .. Len(stack') /\ stack'[n + 1].cap = capnum
      BY <2>2, <2>3, <2>4
    <3> QED
      BY <3>1
  <2>6. capnum' = capnum + 1
    BY <1>1, <2>1, <2>5 DEF NewNum, Smaller
  <2>7. << t, t >> \in Span /\ << t, t >> \in Offset \X Offset
    BY <1>1 DEF Span
  <2>8. /\ capt' \in [0 .. MaxCapt - 1 -> Span]
        /\ \A i \in 0 .. MaxCapt - 1 : i < capnum => capt'[i] = capt[i]
        /\ \A i \in 0 .. MaxCapt - 1 : capnum <= i /\ i < capnum + 1 => capt'[i] = << t, t >>
    <3>1. capnum \in 0 .. MaxCapt /\ 1 \in Nat /\ MaxCapt \in Nat /\ capt \in [0 .. MaxCapt - 1 -> Span]
      BY <1>1
    <3> DEFINE v == << t, t >>
               c == WithCaptures(capt, capnum, 1, v)
    <3>4. v \in Span
      BY <2>7
    <3> HIDE DEF v
    <3>2. /\ c \in [0 .. MaxCapt - 1 -> Span]
          /\ \A i \in 0 .. MaxCapt - 1 : i < capnum => c[i] = capt[i]
          /\ \A i \in 0 .. MaxCapt - 1 : capnum <= i /\ i < capnum + 1 => c[i] = v
      BY <3>1, <3>4, CapturesKept
    <3> HIDE DEF c
    <3>3. capt' = c
      BY <2>1 DEF c, v
    <3> QED
      BY <3>2, <3>3 DEF v
  <2>9. capt'[capnum] = << t, t >>
    BY <1>1, <2>5, <2>8
  <2>10. \A i \in 1 .. n : /\ stack[i].cap \in Nat /\ stack[i].cap < capnum
                           /\ stack[i].txt \in Nat /\ stack[i].txt <= t /\ from <= stack[i].txt
    <3> TAKE i \in 1 .. n
    <3>1. stack[i] \in Groups
      BY <2>3 DEF n
    <3>2. stack[i].cap \in Nat /\ stack[i].txt \in Nat
      BY <1>1, <3>1, GroupFields
    <3>3. stack[i].cap < capnum
      BY <1>2 DEF Captured, n
    <3>4. stack[i].txt <= t /\ from <= stack[i].txt
      BY <1>2 DEF Nested, n
    <3> QED
      BY <3>2, <3>3, <3>4
  <2>11. from <= t
    <3>1. 1 \in 1 .. n /\ stack[1].txt = from
      BY <1>2, <2>3 DEF Nested
    <3> QED
      BY <2>10, <3>1
  <2>12. Nested(stack', t')
    <3>1. Len(stack') \in 1 .. MaxCapt
      BY <1>1, <1>5, <2>3, <2>4 DEF n
    <3>2. stack'[1].cap = 0 /\ stack'[1].txt = from
      <4>1. 1 \in 1 .. n
        BY <2>3
      <4> QED
        BY <1>2, <2>4, <4>1 DEF Nested
    <3>3. ASSUME NEW i \in 1 .. Len(stack') PROVE from <= stack'[i].txt /\ stack'[i].txt <= t'
      <4>1. CASE i = n + 1
        BY <1>1, <1>3, <2>2, <2>4, <2>11, <4>1
      <4>2. CASE i # n + 1
        <5>1. i \in 1 .. n
          BY <2>3, <2>4, <4>2
        <5> QED
          BY <1>3, <2>4, <2>10, <5>1
      <4> QED
        BY <4>1, <4>2
    <3>4. ASSUME NEW i \in 1 .. Len(stack'), NEW j \in 1 .. Len(stack'), i < j
          PROVE  stack'[i].cap < stack'[j].cap /\ stack'[i].txt <= stack'[j].txt
      <4>1. i \in 1 .. n /\ stack'[i] = stack[i]
        BY <2>3, <2>4, <3>4
      <4>2. CASE j = n + 1
        BY <2>2, <2>4, <2>10, <4>1, <4>2
      <4>3. CASE j # n + 1
        <5>1. j \in 1 .. n /\ stack'[j] = stack[j]
          BY <2>3, <2>4, <4>3
        <5> QED
          BY <1>2, <3>4, <4>1, <5>1 DEF Nested, n
      <4> QED
        BY <4>2, <4>3
    <3> QED
      BY <2>4, <3>1, <3>2, <3>3, <3>4 DEF Nested
  <2>13. Captured(stack', capt', capnum')
    <3>1. ASSUME NEW i \in 1 .. Len(stack')
          PROVE  /\ stack'[i].cap < capnum'
                 /\ capt'[stack'[i].cap] \in Offset \X Offset /\ stack'[i].txt <= capt'[stack'[i].cap][1]
      <4>1. CASE i = n + 1
        <5>1. stack'[i].cap = capnum /\ stack'[i].txt = t
          BY <2>2, <2>4, <4>1
        <5>2. capt'[capnum] \in Offset \X Offset /\ capt'[capnum][1] = t
          BY <2>7, <2>9
        <5>3. capnum < capnum' /\ t <= t
          BY <1>1, <2>6
        <5> DEFINE h == stack'[i]
        <5>4. h.cap = capnum /\ h.txt = t
          BY <5>1
        <5> HIDE DEF h
        <5>5. h.cap < capnum' /\ capt'[h.cap] \in Offset \X Offset /\ h.txt <= capt'[h.cap][1]
          BY <5>2, <5>3, <5>4
        <5> QED
          BY <5>5 DEF h
      <4>2. CASE i # n + 1
        <5>1. i \in 1 .. n /\ stack'[i] = stack[i]
          <6>1. n \in Nat /\ i \in 1 .. n + 1
            BY <2>3, <2>4
          <6>2. i \in 1 .. n
            BY <4>2, <6>1
          <6>3. \A k \in 1 .. n : stack'[k] = stack[k]
            BY <2>4
          <6> QED
            BY <6>2, <6>3
        <5>2. stack[i].cap \in Nat /\ stack[i].cap < capnum
          BY <2>10, <5>1
        <5> DEFINE k == stack[i].cap
        <5>5. k \in Nat /\ k < capnum
          BY <5>2
        <5>6. capnum \in Nat /\ MaxCapt \in Nat /\ capnum < MaxCapt
          BY <1>1, <2>5
        <5> HIDE DEF k
        <5>7. k \in 0 .. MaxCapt - 1 /\ k < capnum'
          BY <2>6, <5>5, <5>6
        <5>8. capt'[k] = capt[k]
          BY <2>8, <5>5, <5>7
        <5>3. stack[i].cap < capnum'
          BY <5>7 DEF k
        <5>4. capt'[stack[i].cap] = capt[stack[i].cap]
          BY <5>8 DEF k
        <5> QED
          BY <1>2, <5>1, <5>3, <5>4 DEF Captured, n
      <4> QED
        BY <4>1, <4>2
    <3>2. capt'[0] = capt[0]
      BY <1>1, <2>8
    <3> QED
      BY <1>2, <3>1, <3>2 DEF Captured
  <2>14. Stretches(capt', capnum')
    <3> SUFFICES ASSUME NEW i \in 0 .. capnum' - 1
                 PROVE  \/ capt'[i] = Nothing
                        \/ capt'[i] \in Offset \X Offset /\ from <= capt'[i][1] /\ capt'[i][1] <= capt'[i][2]
      BY DEF Stretches
    <3>1. CASE i = capnum
      BY <1>1, <2>7, <2>9, <2>11, <3>1
    <3>2. CASE i # capnum
      <4>1. i \in 0 .. capnum - 1 /\ i \in 0 .. MaxCapt - 1 /\ i < capnum
        BY <1>1, <2>6, <3>2
      <4>2. capt'[i] = capt[i]
        BY <2>8, <4>1
      <4> QED
        BY <1>2, <4>1, <4>2 DEF Stretches
    <3> QED
      BY <3>1, <3>2
  <2>15. Counts(p)
    <3>1. GroupsBefore(p) \in Nat /\ GroupsBefore(p + 1) = GroupsBefore(p) + 1
      BY <1>1, OpeningNext, GroupsGrow
    <3> QED
      BY <1>1, <1>3, <2>6, <3>1 DEF Counts
  <2>16. p' \in 1 .. Len(pat) + 1 /\ capnum' \in 1 .. MaxCapt
    BY <1>1, <1>3, <2>5, <2>6
  <2>17. error' \in BOOLEAN /\ csens' \in BOOLEAN /\ t' \in Offset /\ capnum' # 0
    BY <1>1, <1>3, <2>1, <2>16
  <2> QED
    BY <2>8, <2>12, <2>13, <2>14, <2>15, <2>16, <2>17 DEF Kept
<1>6. MaxCapt \in Nat /\ Len(stack) \in Nat
  BY <1>1, <1>2 DEF Nested
<1> QED
  BY <1>4, <1>5, <1>6

LEMMA AltKeeps ==
  ASSUME CallAssumption, InTurn, Alt
  PROVE  Kept /\ Counts(p)
<1>1. /\ Len(pat) \in Nat /\ Len(txt) \in Nat /\ MaxCapt \in Nat \ {0}
      /\ t \in Offset /\ p \in 1 .. Len(pat) /\ capnum \in 1 .. MaxCapt /\ p \in Nat \ {0}
      /\ capnum \in 0 .. MaxCapt /\ p + 1 \in 1 .. Len(pat) + 1
      /\ error \in BOOLEAN /\ csens \in BOOLEAN
  BY CallTypes DEF InTurn, PmxTypeOK
<1>2. Nested(stack, t) /\ Captured(stack, capt, capnum) /\ Stretches(capt, capnum)
  BY DEF InTurn
<1> DEFINE ends(s) == s.q > Len(pat) \/ (pat[s.q].op = "close" /\ s.paren = 0)
           stop == [s \in Looking |-> ends(s)]
           skip == CHOOSE f : f = [s \in Looking |-> IF ends(s) THEN s ELSE f[Further(s, 1)]]
           e == skip[From(p + 1)]
<1>3. /\ p' = e.q /\ capt' = WithCaptures(capt, capnum, e.num - capnum, Nothing) /\ capnum' = e.num
      /\ UNCHANGED << t, inv, stack, csens, error >> /\ Tok.op = "alt"
  BY DEF Alt, Turn
<1>4. \A s \in Looking : s.q > Len(pat) => stop[s]
  OBVIOUS
<1>5. PICK f : f = [s \in Looking |-> IF stop[s] THEN s ELSE f[Further(s, 1)]]
  <2> HIDE DEF stop
  <2> QED
    BY <1>1, <1>4, LooksEnd
<1>6. f = [s \in Looking |-> IF ends(s) THEN s ELSE f[Further(s, 1)]]
  BY <1>5
<1>7. skip = [s \in Looking |-> IF ends(s) THEN s ELSE skip[Further(s, 1)]]
  BY <1>6
<1> HIDE DEF skip
<1>8. skip = [s \in Looking |-> IF stop[s] THEN s ELSE skip[Further(s, 1)]]
  BY <1>7
<1>9. e \in LooksOn(p + 1)
  <2> HIDE DEF stop
  <2> QED
    BY <1>1, <1>4, <1>8, LookLeaves
<1> HIDE DEF e
<1>10. /\ e.q \in p + 1 .. Len(pat) + 1 /\ e.num \in capnum .. MaxCapt
       /\ e.num + GroupsBefore(p + 1) <= capnum + GroupsBefore(e.q)
  BY <1>1, <1>9 DEF LooksOn, Looking
<1>11. Len(stack) \in Nat \ {0} /\ \A i \in 1 .. Len(stack) : stack[i].cap \in Nat
  <2>1. stack \in Seq(Groups) /\ Len(stack) \in Nat \ {0}
    BY <1>1, <1>2 DEF Nested
  <2>2. \A i \in 1 .. Len(stack) : stack[i] \in Groups
    BY <2>1
  <2> QED
    BY <1>1, <2>1, <2>2, GroupFields
<1> DEFINE c == WithCaptures(capt, capnum, e.num - capnum, Nothing)
<1>12. capt' = c
  BY <1>3
<1>13. c \in [0 .. MaxCapt - 1 -> Span] /\ Captured(stack, c, e.num) /\ Stretches(c, e.num)
  <2> HIDE DEF c
  <2> QED
    BY <1>2, <1>10, <1>11, PassedOver DEF c
<1> HIDE DEF c
<1>14. Counts(p + 1)
  BY <1>3, <1>10 DEF Counts
<1>15. capnum' \in 1 .. MaxCapt /\ p' \in 1 .. Len(pat) + 1
  BY <1>1, <1>3, <1>10
<1>16. Counts(p)
  BY <1>14, <1>15, CountsNext
<1>17. Nested(stack', t') /\ Captured(stack', capt', capnum') /\ Stretches(capt', capnum')
  BY <1>2, <1>3, <1>12, <1>13
<1>18. error' \in BOOLEAN /\ csens' \in BOOLEAN /\ t' \in Offset /\ capnum' # 0 /\ capnum' \in 0 .. MaxCapt
       /\ capt' \in [0 .. MaxCapt - 1 -> Span]
  BY <1>1, <1>3, <1>12, <1>13, <1>15
<1> QED
  BY <1>15, <1>16, <1>17, <1>18 DEF Kept

\* ")" writes the capture of its group: from the start of the group or, when it
\* is repeated, of its next match.
LEMMA Recaptured ==
  ASSUME CallAssumption, InTurn, Len(stack) >= 2, NEW b \in {t, Last(stack).txt},
         NEW c, c = [capt EXCEPT ![Last(stack).cap] = << b, t >>]
  PROVE  /\ c \in [0 .. MaxCapt - 1 -> Span] /\ Captured(stack, c, capnum) /\ Stretches(c, capnum)
         /\ Last(stack) = stack[Len(stack)] /\ Last(stack) \in Groups
<1> DEFINE g == Last(stack)
<1>1. /\ Len(pat) \in Nat /\ Len(txt) \in Nat /\ MaxCapt \in Nat \ {0} /\ from \in Nat
      /\ t \in Offset /\ t \in Nat /\ capnum \in 1 .. MaxCapt
      /\ capt \in [0 .. MaxCapt - 1 -> Span]
  BY CallTypes DEF InTurn, PmxTypeOK, Offset
<1>2. Nested(stack, t) /\ Captured(stack, capt, capnum) /\ Stretches(capt, capnum)
  BY DEF InTurn
<1>3. stack \in Seq(Groups) /\ Len(stack) \in Nat /\ Len(stack) \in 1 .. Len(stack) /\ 1 \in 1 .. Len(stack)
  BY <1>1, <1>2 DEF Nested
<1>4. g = stack[Len(stack)] /\ \A i \in 1 .. Len(stack) : stack[i] \in Groups
  BY <1>3 DEF Last
<1>5. g.cap \in Nat /\ g.cap < capnum /\ g.txt \in Offset /\ g.txt \in Nat /\ from <= g.txt /\ g.txt <= t /\ g \in Groups
  <2>1. g \in Groups
    BY <1>3, <1>4
  <2>2. g.cap \in Nat /\ g.txt \in Offset /\ g.txt \in Nat
    BY <1>1, <2>1, GroupFields
  <2>3. g.cap < capnum
    BY <1>2, <1>3, <1>4 DEF Captured
  <2>4. from <= g.txt /\ g.txt <= t
    BY <1>2, <1>3, <1>4 DEF Nested
  <2> QED
    BY <2>1, <2>2, <2>3, <2>4
<1>6. 0 < g.cap
  <2>1. 1 < Len(stack) /\ stack[1].cap = 0
    BY <1>2, <1>3 DEF Nested
  <2> QED
    BY <1>2, <1>3, <1>4, <2>1 DEF Nested
<1>7. b \in Offset /\ b \in Nat /\ g.txt <= b /\ b <= t /\ from <= b /\ << b, t >> \in Span /\ << b, t >> \in Offset \X Offset
  <2>1. b = t \/ b = g.txt
    OBVIOUS
  <2> HIDE DEF g
  <2> QED
    BY <1>1, <1>5, <2>1 DEF Span
<1> HIDE DEF g
<1>8. c = [capt EXCEPT ![g.cap] = << b, t >>]
  BY DEF g
<1>9. /\ c \in [0 .. MaxCapt - 1 -> Span]
      /\ c[g.cap] = << b, t >> /\ \A i \in 0 .. MaxCapt - 1 : i # g.cap => c[i] = capt[i]
  <2> DEFINE v == << b, t >>
  <2>1. g.cap \in 0 .. MaxCapt - 1 /\ v \in Span
    BY <1>1, <1>5, <1>7
  <2> HIDE DEF v
  <2>2. c = [capt EXCEPT ![g.cap] = v]
    BY <1>8 DEF v
  <2>3. /\ c \in [0 .. MaxCapt - 1 -> Span]
        /\ c[g.cap] = v /\ \A i \in 0 .. MaxCapt - 1 : i # g.cap => c[i] = capt[i]
    BY <1>1, <2>1, <2>2
  <2> QED
    BY <2>3 DEF v
<1>10. Captured(stack, c, capnum)
  <2>1. ASSUME NEW i \in 1 .. Len(stack)
        PROVE  /\ stack[i].cap < capnum
               /\ c[stack[i].cap] \in Offset \X Offset /\ stack[i].txt <= c[stack[i].cap][1]
    <3>1. stack[i].cap \in Nat /\ stack[i].txt \in Nat /\ stack[i].cap < capnum
      BY <1>1, <1>2, <1>4, GroupFields DEF Captured
    <3>2. CASE stack[i].cap = g.cap
      <4>1. stack[i].txt <= g.txt
        <5>1. CASE i = Len(stack)
          BY <1>4, <1>5, <5>1
        <5>2. CASE i # Len(stack)
          BY <1>2, <1>3, <1>4, <5>2 DEF Nested
        <5> QED
          BY <5>1, <5>2
      <4>2. stack[i].txt <= b
        BY <1>5, <1>7, <3>1, <4>1
      <4> QED
        BY <1>7, <1>9, <3>1, <3>2, <4>2
    <3>3. CASE stack[i].cap # g.cap
      <4>1. stack[i].cap \in 0 .. MaxCapt - 1
        BY <1>1, <3>1
      <4>2. c[stack[i].cap] = capt[stack[i].cap]
        BY <1>9, <3>3, <4>1
      <4> QED
        BY <1>2, <3>1, <4>2 DEF Captured
    <3> QED
      BY <3>2, <3>3
  <2>2. c[0] = capt[0]
    BY <1>1, <1>6, <1>9
  <2> QED
    BY <1>2, <2>1, <2>2 DEF Captured
<1>11. Stretches(c, capnum)
  <2> SUFFICES ASSUME NEW i \in 0 .. capnum - 1
               PROVE  \/ c[i] = Nothing
                      \/ c[i] \in Offset \X Offset /\ from <= c[i][1] /\ c[i][1] <= c[i][2]
    BY DEF Stretches
  <2>1. CASE i = g.cap
    BY <1>7, <1>9, <2>1
  <2>2. CASE i # g.cap
    <3>1. i \in 0 .. MaxCapt - 1
      BY <1>1
    <3>2. c[i] = capt[i]
      BY <1>9, <2>2, <3>1
    <3> QED
      BY <1>2, <3>2 DEF Stretches
  <2> QED
    BY <2>1, <2>2
<1> QED
  BY <1>4, <1>5, <1>9, <1>10, <1>11 DEF g

\* ")" goes back to the start of its group only to repeat it.
LEMMA CloseKeeps ==
  ASSUME CallAssumption, InTurn, Close, inv \in BOOLEAN
  PROVE  /\ Kept /\ inv' \in BOOLEAN
         /\ Counts(p) \/ (Len(stack) >= 2 /\ Repeats(Last(stack)))
<1> DEFINE g == Last(stack)
<1>1. /\ Len(pat) \in Nat /\ Len(txt) \in Nat /\ MaxCapt \in Nat \ {0} /\ Enough \in Nat
      /\ t \in Offset /\ t \in Nat /\ p \in 1 .. Len(pat) /\ capnum \in 1 .. MaxCapt /\ p \in Nat \ {0}
      /\ t <= Len(txt)
      /\ p + 1 \in 1 .. Len(pat) + 1 /\ error \in BOOLEAN /\ csens \in BOOLEAN
  BY CallTypes DEF InTurn, PmxTypeOK, Offset
<1>2. Nested(stack, t) /\ Captured(stack, capt, capnum) /\ Stretches(capt, capnum)
  BY DEF InTurn
<1>3. Len(stack) \in Nat /\ stack \in Seq(Groups)
  BY <1>1, <1>2 DEF Nested
<1>4. ASSUME Len(stack) < 2 PROVE Kept /\ inv' \in BOOLEAN /\ Counts(p)
  <2>1. error' = TRUE /\ p' = p + 1 /\ UNCHANGED << t, inv, stack, capt, capnum, csens >>
    BY <1>4 DEF Close
  <2>2. t' \in t .. Len(txt)
    BY <1>1, <2>1
  <2> QED
    BY <1>1, <2>1, <2>2, GoesOn
<1>5. ASSUME ~ (Len(stack) < 2), g.inv, inv' = g.inv, Fail(Front(stack), p + 1, FALSE)
      PROVE  Kept /\ Counts(p)
  <2>1. Nested(Front(stack), t) /\ Captured(Front(stack), capt, capnum)
    <3>1. Len(stack) >= 2 /\ MaxCapt \in Nat
      BY <1>1, <1>3, <1>5
    <3> QED
      BY <1>2, <3>1, Popped
  <2>2. Kept /\ (capnum' = 0 \/ capnum' + GroupsBefore(p + 1) <= capnum + GroupsBefore(p'))
    BY <1>1, <1>5, <2>1, FailKeeps
  <2>3. Counts(p + 1)
    BY <2>2 DEF Counts
  <2>4. capnum' \in Nat /\ p' \in Nat \ {0}
    BY <1>1, <2>2 DEF Kept
  <2> QED
    BY <2>2, <2>3, <2>4, CountsNext
<1>6. ASSUME ~ (Len(stack) < 2),
             capt' = [capt EXCEPT ![g.cap] = << IF Repeats(g) THEN t ELSE g.txt, t >>],
             stack' = IF Repeats(g) THEN Append(Front(stack), [g EXCEPT !.n = Counted(@)]) ELSE Front(stack),
             p' = IF Repeats(g) THEN g.pat ELSE p + 1,
             UNCHANGED << t, capnum, csens, error >>
      PROVE  Kept /\ (Counts(p) \/ Repeats(g))
  <2> DEFINE b == IF Repeats(g) THEN t ELSE g.txt
             m == Len(stack)
  <2>1. b \in {t, g.txt} /\ m >= 2 /\ capt' = [capt EXCEPT ![g.cap] = << b, t >>]
    BY <1>3, <1>6
  <2> HIDE DEF b
  <2>2. /\ capt' \in [0 .. MaxCapt - 1 -> Span] /\ Captured(stack, capt', capnum) /\ Stretches(capt', capnum)
        /\ g = stack[m] /\ g \in Groups
    BY <2>1, Recaptured
  <2>3. /\ Front(stack) \in Seq(Groups) /\ Len(Front(stack)) = m - 1
        /\ \A i \in 1 .. m - 1 : Front(stack)[i] = stack[i]
        /\ Nested(Front(stack), t) /\ Captured(Front(stack), capt', capnum)
    BY <1>1, <1>2, <2>1, <2>2, Popped
  <2> HIDE DEF g
  <2>4. g.n \in Nat /\ g.pat \in 1 .. Len(pat) + 1
    BY <1>1, <2>2, GroupFields
  <2>5. Nested(stack', t) /\ Captured(stack', capt', capnum)
    <3>1. CASE ~ Repeats(g)
      BY <1>6, <2>3, <3>1
    <3>2. CASE Repeats(g)
      <4> DEFINE h == [g EXCEPT !.n = Counted(@)]
      <4>1. h \in Groups /\ h.cap = g.cap /\ h.txt = g.txt
        <5>1. Counted(g.n) \in Nat
          BY <1>1, <2>4 DEF Counted, Smaller
        <5> QED
          BY <2>2, <5>1 DEF Groups
      <4> HIDE DEF h
      <4>2. stack' = Append(Front(stack), h)
        BY <1>6, <3>2 DEF h
      <4>3. /\ stack' \in Seq(Groups) /\ Len(stack') = m /\ stack'[m] = h
            /\ \A i \in 1 .. m - 1 : stack'[i] = stack[i]
        BY <1>3, <2>3, <4>1, <4>2
      <4>4. \A i \in 1 .. m : stack'[i].cap = stack[i].cap /\ stack'[i].txt = stack[i].txt
        <5> TAKE i \in 1 .. m
        <5>1. CASE i = m
          BY <2>2, <4>1, <4>3, <5>1
        <5>2. CASE i # m
          <6>1. i \in 1 .. m - 1
            BY <1>3, <5>2
          <6> QED
            BY <4>3, <6>1
        <5> QED
          BY <5>1, <5>2
      <4>5. 1 \in 1 .. m
        BY <1>3, <2>1
      <4>6. Nested(stack', t)
        BY <1>2, <4>3, <4>4, <4>5 DEF Nested
      <4>7. Captured(stack', capt', capnum)
        BY <2>2, <4>3, <4>4 DEF Captured
      <4> QED
        BY <4>6, <4>7
    <3> QED
      BY <3>1, <3>2
  <2>6. p' \in 1 .. Len(pat) + 1
    BY <1>1, <1>6, <2>4
  <2>7. Counts(p) \/ Repeats(g)
    <3>1. CASE ~ Repeats(g)
      <4>1. p' = p + 1 /\ capnum' = capnum
        BY <1>6, <3>1
      <4>2. GroupsBefore(p) \in Nat /\ GroupsBefore(p + 1) \in Nat /\ GroupsBefore(p) <= GroupsBefore(p + 1)
        BY <1>1, GroupsGrow
      <4> QED
        BY <1>1, <4>1, <4>2 DEF Counts
    <3> QED
      BY <3>1
  <2>8. capnum' = capnum /\ t' = t /\ csens' = csens /\ error' = error
    BY <1>6
  <2>9. Nested(stack', t') /\ Captured(stack', capt', capnum') /\ Stretches(capt', capnum')
    BY <2>2, <2>5, <2>8
  <2>10. error' \in BOOLEAN /\ csens' \in BOOLEAN /\ t' \in Offset /\ capnum' # 0 /\ capnum' \in 0 .. MaxCapt
    BY <1>1, <2>8
  <2> QED
    BY <2>2, <2>6, <2>7, <2>9, <2>10 DEF Kept
<1>7. CASE Len(stack) < 2
  BY <1>4, <1>7
<1>8. CASE ~ (Len(stack) < 2)
  <2>1. /\ inv' = g.inv
        /\ \/ g.inv /\ Fail(Front(stack), p + 1, FALSE)
           \/ /\ capt' = [capt EXCEPT ![g.cap] = << IF Repeats(g) THEN t ELSE g.txt, t >>]
              /\ stack' = IF Repeats(g) THEN Append(Front(stack), [g EXCEPT !.n = Counted(@)]) ELSE Front(stack)
              /\ p' = IF Repeats(g) THEN g.pat ELSE p + 1
              /\ UNCHANGED << t, capnum, csens, error >>
    BY <1>8 DEF Close
  <2>2. g.inv \in BOOLEAN
    <3>1. Len(stack) \in 1 .. Len(stack)
      BY <1>3, <1>8
    <3>2. g \in Groups
      BY <1>3, <3>1 DEF Last
    <3> HIDE DEF g
    <3> QED
      BY <1>1, <3>2, GroupFields
  <2>3. Len(stack) >= 2
    BY <1>3, <1>8
  <2>4. Kept /\ (Counts(p) \/ Repeats(g))
    BY <1>5, <1>6, <1>8, <2>1
  <2> QED
    BY <2>1, <2>2, <2>3, <2>4
<1> QED
  BY <1>7, <1>8

\* A failure at a token or past it.
LEMMA FailsKeeps ==
  ASSUME CallAssumption, InTurn, NEW q \in {p, p + 1}, NEW er \in BOOLEAN, Fail(stack, q, er)
  PROVE  Kept /\ Counts(p)
<1>1. q \in 1 .. Len(pat) + 1 /\ Nested(stack, t) /\ Captured(stack, capt, capnum)
  BY CallTypes DEF InTurn, PmxTypeOK
<1>2. Kept /\ (capnum' = 0 \/ capnum' + GroupsBefore(q) <= capnum + GroupsBefore(p'))
  BY <1>1, FailKeeps
<1>3. Counts(q)
  BY <1>2 DEF Counts
<1>4. capnum' \in Nat /\ p' \in Nat \ {0}
  BY CallTypes, <1>2 DEF Kept, InTurn
<1> QED
  BY <1>2, <1>3, <1>4, CountsNext

LEMMA AcceptKeeps ==
  ASSUME CallAssumption, InTurn, NEW u \in t .. Len(txt), Accept(u)
  PROVE  Kept /\ Counts(p)
<1>1. csens' \in BOOLEAN /\ error' \in BOOLEAN
  BY DEF Accept, InTurn, PmxTypeOK
<1> QED
  BY <1>1, GoesOn DEF Accept

LEMMA RecognizedKeeps ==
  ASSUME CallAssumption, InTurn, NEW len,
         \A u \in 0 .. Len(txt) - 1 : len[u] \in Nat /\ u + len[u] <= Len(txt),
         Recognized(Run(len)[1], Run(len)[2])
  PROVE  Kept /\ Counts(p)
<1>1. Len(txt) \in Nat /\ t \in Offset
  BY CallTypes DEF InTurn, PmxTypeOK
<1>2. Run(len)[2] \in t .. Len(txt)
  BY <1>1, RunInText
<1>3. CASE Fail(stack, p + 1, FALSE)
  BY <1>3, FailsKeeps
<1>4. CASE Accept(Run(len)[2])
  BY <1>2, <1>4, AcceptKeeps
<1> QED
  BY <1>3, <1>4 DEF Recognized

LEMMA CharKeeps ==
  ASSUME CallAssumption, InTurn, Char
  PROVE  Kept /\ Counts(p)
<1>1. Len(txt) \in Nat /\ t \in 0 .. Len(txt)
  BY CallTypes DEF InTurn, PmxTypeOK, Offset
<1>2. CASE At(t) /\ Accept(t + 1)
  <2>1. t + 1 \in t .. Len(txt)
    BY <1>1, <1>2 DEF At
  <2> QED
    BY <1>2, <2>1, AcceptKeeps
<1>3. CASE Fail(stack, p, FALSE)
  BY <1>3, FailsKeeps
<1> QED
  BY <1>2, <1>3 DEF Char

LEMMA ClassKeeps ==
  ASSUME CallAssumption, InTurn, Class
  PROVE  Kept /\ Counts(p)
<1> DEFINE len == [u \in 0 .. Len(txt) - 1 |-> IF (txt[u + 1] \in Tok.set) # Tok.inv THEN 1 ELSE 0]
<1>1. Len(txt) \in Nat
  BY CallTypes DEF InTurn
<1>2. \A u \in 0 .. Len(txt) - 1 : len[u] \in Nat /\ u + len[u] <= Len(txt)
  BY <1>1
<1>3. Recognized(Run(len)[1], Run(len)[2])
  BY DEF Class
<1> HIDE DEF len
<1> QED
  BY <1>2, <1>3, RecognizedKeeps

\* utl_pmx_iscapt: what is repeated is in the text.
LEMMA RepeatedInText ==
  ASSUME CallAssumption, PmxTypeOK, NEW k \in Nat, NEW u \in 0 .. Len(txt) - 1
  PROVE  Repeated(k, u) \in Nat /\ u + Repeated(k, u) <= Len(txt)
<1>1. Len(txt) \in Nat /\ MaxCapt \in Nat /\ capnum \in 0 .. MaxCapt /\ capt \in [0 .. MaxCapt - 1 -> Span]
  BY CallTypes DEF PmxTypeOK
<1>2. CASE k >= capnum \/ capt[k][1] = None
  BY <1>1, <1>2 DEF Repeated
<1>3. CASE ~ (k >= capnum \/ capt[k][1] = None)
  <2> DEFINE n == capt[k][2] - capt[k][1]
             same == SubSeq(txt, u + 1, u + n) = SubSeq(txt, capt[k][1] + 1, capt[k][2])
  <2>1. k \in 0 .. MaxCapt - 1
    BY <1>1, <1>3
  <2>2. capt[k] \in Span /\ capt[k] # Nothing
    BY <1>1, <1>3, <2>1 DEF Nothing
  <2>3. PICK b \in Offset, e \in Offset : capt[k] = << b, e >>
    BY <2>2 DEF Span
  <2>4. n \in Int
    BY <1>1, <2>3 DEF Offset
  <2>5. Repeated(k, u) = IF n > 0 /\ u + n <= Len(txt) /\ same THEN n ELSE 0
    BY <1>3 DEF Repeated
  <2> HIDE DEF n, same
  <2> QED
    BY <1>1, <2>4, <2>5
<1> QED
  BY <1>2, <1>3

LEMMA TokenTypes ==
  ASSUME CallAssumption, InTurn
  PROVE  /\ p \in 1 .. Len(pat) /\ Tok = pat[p]
         /\ Tok.op \in {"open", "rep"} => Tok.inv \in BOOLEAN
         /\ Tok.op = "rep" => Tok.min \in Nat /\ Tok.max \in Nat
         /\ Tok.op = "ref" => Tok.k \in 1 .. 9
         /\ Tok.op = "case" => Tok.sens \in BOOLEAN
<1>1. PmxTypeOK /\ p <= Len(pat)
  BY DEF InTurn
<1>2. p \in 1 .. Len(pat)
  <2>1. Len(pat) \in Nat
    BY <1>1, CallTypes
  <2> QED
    BY <1>1, <2>1 DEF PmxTypeOK
<1> QED
  BY <1>1, <1>2, CallTypes DEF Tok

LEMMA BackRefKeeps ==
  ASSUME CallAssumption, InTurn, BackRef
  PROVE  Kept /\ Counts(p)
<1> DEFINE len == [u \in 0 .. Len(txt) - 1 |-> Repeated(Tok.k, u)]
<1>1. Len(txt) \in Nat /\ Tok.k \in Nat
  <2>1. Tok.op = "ref"
    BY DEF BackRef, Turn
  <2>2. Len(txt) \in Nat
    BY CallTypes DEF InTurn
  <2> QED
    BY <2>1, <2>2, TokenTypes
<1>2. \A u \in 0 .. Len(txt) - 1 : len[u] \in Nat /\ u + len[u] <= Len(txt)
  <2> TAKE u \in 0 .. Len(txt) - 1
  <2>1. Repeated(Tok.k, u) \in Nat /\ u + Repeated(Tok.k, u) <= Len(txt)
    BY <1>1, RepeatedInText DEF InTurn
  <2> QED
    BY <2>1
<1>3. Recognized(Run(len)[1], Run(len)[2])
  BY DEF BackRef
<1> HIDE DEF len
<1> QED
  BY <1>2, <1>3, RecognizedKeeps

LEMMA QuotedKeeps ==
  ASSUME CallAssumption, InTurn, Quoted
  PROVE  Kept /\ Counts(p)
<1> DEFINE lim(u) == IF Tok.lim # <<>> THEN Tok.lim
                     ELSE IF txt[u + 1] \in DOMAIN Tok.guess THEN Tok.guess[txt[u + 1]] ELSE <<>>
           d(u) == IF ~ At(u) THEN << 0, FALSE >>
                   ELSE IF lim(u) = <<>> THEN << 0, FALSE >>
                   ELSE Delimited(u, lim(u)[1], lim(u)[2], lim(u)[3])
           u1 == t + d(t)[1]
<1>1. Len(txt) \in Nat /\ t \in 0 .. Len(txt) /\ csens \in BOOLEAN /\ error \in BOOLEAN
  BY CallTypes DEF InTurn, PmxTypeOK, Offset
<1>2. \/ Fail(stack, p + 1, FALSE)
      \/ /\ p' = p + 1 /\ t' = u1 /\ error' = (error \/ d(t)[2] \/ d(u1)[2])
         /\ UNCHANGED << stack, capt, capnum, csens >>
  BY DEF Quoted
<1> HIDE DEF lim
<1>3. ASSUME NEW u \in 0 .. Len(txt)
      PROVE  d(u)[1] \in Nat /\ u + d(u)[1] <= Len(txt) /\ d(u)[2] \in BOOLEAN
  <2>1. CASE ~ At(u) \/ lim(u) = <<>>
    <3>1. d(u) = << 0, FALSE >>
      BY <2>1
    <3> HIDE DEF d
    <3>2. d(u)[1] = 0 /\ d(u)[2] = FALSE
      BY <3>1
    <3>3. u + 0 <= Len(txt)
      BY <1>1
    <3>4. d(u)[1] \in Nat /\ u + d(u)[1] <= Len(txt)
      BY <3>2, <3>3
    <3>5. d(u)[2] \in BOOLEAN
      BY <3>2, Zenon
    <3> QED
      BY <3>4, <3>5
  <2>2. CASE ~ (~ At(u) \/ lim(u) = <<>>)
    <3>1. d(u) = Delimited(u, lim(u)[1], lim(u)[2], lim(u)[3])
      BY <2>2
    <3>2. u \in 0 .. Len(txt) - 1
      BY <1>1, <2>2 DEF At
    <3> HIDE DEF d
    <3> QED
      BY <1>1, <3>1, <3>2, DelimitedInText
  <2> QED
    BY <2>1, <2>2
<1> HIDE DEF d
<1>4. d(t)[1] \in Nat /\ t + d(t)[1] <= Len(txt)
  BY <1>1, <1>3
<1>5. u1 \in t .. Len(txt) /\ u1 \in 0 .. Len(txt)
  BY <1>1, <1>4
<1>6. d(t)[2] \in BOOLEAN /\ d(u1)[2] \in BOOLEAN
  BY <1>1, <1>3, <1>5
<1> HIDE DEF u1
<1>7. CASE Fail(stack, p + 1, FALSE)
  BY <1>7, FailsKeeps
<1>8. CASE /\ p' = p + 1 /\ t' = u1 /\ error' = (error \/ d(t)[2] \/ d(u1)[2])
           /\ UNCHANGED << stack, capt, capnum, csens >>
  <2>1. csens' \in BOOLEAN /\ error' \in BOOLEAN /\ t' \in t .. Len(txt)
    BY <1>1, <1>5, <1>6, <1>8
  <2> QED
    BY <1>8, <2>1, GoesOn
<1> QED
  BY <1>2, <1>7, <1>8

LEMMA EndOfTextKeeps ==
  ASSUME CallAssumption, InTurn, EndOfText
  PROVE  Kept /\ Counts(p)
<1>1. t \in t .. Len(txt)
  BY CallTypes DEF InTurn, PmxTypeOK, Offset
<1>2. CASE Accept(t)
  BY <1>1, <1>2, AcceptKeeps
<1>3. CASE Fail(stack, p + 1, FALSE)
  BY <1>3, FailsKeeps
<1> QED
  BY <1>2, <1>3 DEF EndOfText

LEMMA CaseSenseKeeps ==
  ASSUME CallAssumption, InTurn, CaseSense
  PROVE  Kept /\ Counts(p)
<1>1. error \in BOOLEAN /\ t \in t .. Len(txt)
  BY CallTypes DEF InTurn, PmxTypeOK, Offset
<1>2. Tok.sens \in BOOLEAN
  <2>1. Tok.op = "case"
    BY DEF CaseSense, Turn
  <2> QED
    BY <2>1, TokenTypes
<1>3. /\ p' = p + 1 /\ t' \in t .. Len(txt) /\ csens' \in BOOLEAN /\ error' \in BOOLEAN
      /\ UNCHANGED << stack, capt, capnum >>
  BY <1>1, <1>2 DEF CaseSense
<1> QED
  BY <1>3, GoesOn

LEMMA OpenKeeps ==
  ASSUME CallAssumption, InTurn, Open, \A i \in 1 .. Len(stack') : stack'[i].cap < MaxCapt, inv \in BOOLEAN
  PROVE  Kept /\ Counts(p) /\ inv' \in BOOLEAN
<1>1. Tok.op = "open" /\ inv' = (inv \/ Tok.inv) /\ PushGroup(p + 1, 1, 1, inv')
  BY DEF Open, Turn
<1>2. inv' \in BOOLEAN /\ pat[p].op \in {"open", "rep"}
  BY <1>1, TokenTypes
<1> QED
  BY <1>1, <1>2, PushKeeps

LEMMA RepKeeps ==
  ASSUME CallAssumption, InTurn, Rep, \A i \in 1 .. Len(stack') : stack'[i].cap < MaxCapt, inv \in BOOLEAN
  PROVE  Kept /\ Counts(p) /\ inv' \in BOOLEAN
<1>1. Tok.op = "rep"
  BY DEF Rep, Turn
<1>2. Tok.inv \in BOOLEAN /\ Tok.min \in Nat /\ Tok.max \in Nat /\ pat[p].op \in {"open", "rep"}
  BY <1>1, TokenTypes
<1>3. inv' \in BOOLEAN /\ PushGroup(p + 1, Tok.min, Tok.max, Tok.inv)
  BY DEF Rep
<1> QED
  BY <1>1, <1>2, <1>3, PushKeeps

LEMMA TurnKeeps ==
  ASSUME CallAssumption, IInv, LoopTurn, \A i \in 1 .. Len(stack') : stack'[i].cap < MaxCapt
  PROVE  /\ Kept /\ inv' \in BOOLEAN /\ ph = "match" /\ UNCHANGED << call, from, ph >>
         /\ Counts(p) \/ (Len(stack) >= 2 /\ Repeats(Last(stack)) /\ Close)
<1>1. ph = "match" /\ p <= Len(pat) /\ UNCHANGED << call, from, ph >>
  BY DEF LoopTurn, Turn, Open, Rep, Alt, Close, Char, Class, BackRef, Quoted, EndOfText,
         CaseSense, Unknown
<1>2. InTurn /\ inv \in BOOLEAN
  BY <1>1, TurnKnows DEF IInv, PmxTypeOK
<1>3. CASE Open
  BY <1>1, <1>2, <1>3, OpenKeeps
<1>4. CASE Rep
  BY <1>1, <1>2, <1>4, RepKeeps
<1>5. CASE Alt
  BY <1>1, <1>2, <1>5, AltKeeps DEF Alt
<1>6. CASE Close
  BY <1>1, <1>2, <1>6, CloseKeeps
<1>7. CASE Char
  BY <1>1, <1>2, <1>7, CharKeeps DEF Char
<1>8. CASE Class
  BY <1>1, <1>2, <1>8, ClassKeeps DEF Class
<1>9. CASE BackRef
  BY <1>1, <1>2, <1>9, BackRefKeeps DEF BackRef
<1>10. CASE Quoted
  BY <1>1, <1>2, <1>10, QuotedKeeps DEF Quoted
<1>11. CASE EndOfText
  BY <1>1, <1>2, <1>11, EndOfTextKeeps DEF EndOfText
<1>12. CASE CaseSense
  BY <1>1, <1>2, <1>12, CaseSenseKeeps DEF CaseSense
<1>13. CASE Unknown
  BY <1>1, <1>2, <1>13, FailsKeeps DEF Unknown
<1> QED
  BY <1>3, <1>4, <1>5, <1>6, <1>7, <1>8, <1>9, <1>10, <1>11, <1>12, <1>13 DEF LoopTurn

-----------------------------------------------------------------------------
(* The calls *)

\* What utl_pmx_match leaves when the loop ended: nothing beyond the captures
\* of the match.
LEMMA ResultKeeps1 ==
  ASSUME CallAssumption, IInv, AttemptOver
  PROVE  /\ Result \in [0 .. MaxCapt - 1 -> Span] /\ Stretches(Result, capnum)
         /\ \A i \in capnum .. MaxCapt - 1 : Result[i] = Nothing
         /\ capnum > 0 => from <= t
<1>1. /\ Len(txt) \in Nat /\ MaxCapt \in Nat \ {0} /\ from \in Nat
      /\ t \in Offset /\ t \in Nat /\ capnum \in 0 .. MaxCapt
      /\ capt \in [0 .. MaxCapt - 1 -> Span] /\ DOMAIN capt = 0 .. MaxCapt - 1
  BY CallTypes DEF IInv, PmxTypeOK, Offset
<1>2. ph = "match" /\ Nested(stack, t) /\ (capnum > 0 => Captured(stack, capt, capnum)) /\ Stretches(capt, capnum)
  BY DEF IInv, MatchInv, AttemptOver
<1>3. from <= t
  <2>1. 1 \in 1 .. Len(stack) /\ stack[1].txt = from
    BY <1>1, <1>2 DEF Nested
  <2> QED
    BY <1>2, <2>1 DEF Nested
<1>4. /\ \A i \in 0 .. MaxCapt - 1 : i >= capnum => Result[i] = Nothing
      /\ \A i \in 0 .. MaxCapt - 1 : i < capnum /\ i > 0 => Result[i] = capt[i]
      /\ capnum > 0 => Result[0] = << capt[0][1], t >>
  BY <1>1 DEF Result
<1>5. ASSUME capnum > 0
      PROVE  Result[0] = << from, t >> /\ << from, t >> \in Span /\ << from, t >> \in Offset \X Offset
  <2>1. capt[0][1] = from
    BY <1>2, <1>5 DEF Captured
  <2>2. from \in Offset
    BY DEF IInv, PmxTypeOK
  <2> QED
    BY <1>1, <1>4, <1>5, <2>1, <2>2 DEF Span
<1>6. Nothing \in Span
  BY DEF Span
<1>7. Result \in [0 .. MaxCapt - 1 -> Span]
  <2>1. ASSUME NEW i \in 0 .. MaxCapt - 1 PROVE Result[i] \in Span
    <3>1. CASE i >= capnum
      BY <1>4, <1>6, <3>1
    <3>2. CASE i < capnum /\ i > 0
      BY <1>1, <1>4, <3>2
    <3>3. CASE i = 0 /\ capnum > 0
      BY <1>5, <3>3
    <3> QED
      BY <1>1, <3>1, <3>2, <3>3
  <2> QED
    BY <1>1, <2>1 DEF Result
<1>8. Stretches(Result, capnum)
  <2> SUFFICES ASSUME NEW i \in 0 .. capnum - 1
               PROVE  \/ Result[i] = Nothing
                      \/ Result[i] \in Offset \X Offset /\ from <= Result[i][1] /\ Result[i][1] <= Result[i][2]
    BY DEF Stretches
  <2>1. CASE i = 0
    <3>1. Result[0] = << from, t >> /\ << from, t >> \in Offset \X Offset
      BY <1>1, <1>5
    <3>2. Result[0] \in Offset \X Offset /\ Result[0][1] = from /\ Result[0][2] = t
      BY <3>1
    <3> QED
      BY <1>1, <1>3, <2>1, <3>2
  <2>2. CASE i # 0
    <3>1. Result[i] = capt[i]
      BY <1>1, <1>4, <2>2
    <3> QED
      BY <1>2, <3>1 DEF Stretches
  <2> QED
    BY <2>1, <2>2
<1>9. \A i \in capnum .. MaxCapt - 1 : Result[i] = Nothing
  BY <1>1, <1>4
<1> QED
  BY <1>3, <1>7, <1>8, <1>9

LEMMA EndInv ==
  ASSUME CallAssumption, IInv, AttemptOver, End, UNCHANGED call
  PROVE  IInv'
<1>1. /\ Result \in [0 .. MaxCapt - 1 -> Span] /\ Stretches(Result, capnum)
      /\ \A i \in capnum .. MaxCapt - 1 : Result[i] = Nothing
  BY ResultKeeps1
<1>2. /\ ph' = "done" /\ capt' = Result
      /\ UNCHANGED << pat, txt, mode, from, p, t, inv, stack, capnum, csens, error >>
  BY DEF End, call
<1> HIDE DEF Result
<1>3. Offset' = Offset /\ Span' = Span
  BY <1>2 DEF Offset, Span
<1>4. PmxTypeOK'
  BY <1>1, <1>2, <1>3 DEF IInv, PmxTypeOK
<1>5. Stretches(capt, capnum)'
  BY <1>1, <1>2, <1>3 DEF Stretches
<1>6. (capnum = 0 => p > Len(pat))'
  BY <1>2 DEF IInv, MatchInv
<1>7. (\A i \in capnum .. MaxCapt - 1 : capt[i] = Nothing)'
  BY <1>1, <1>2
<1> QED
  BY <1>2, <1>4, <1>5, <1>6, <1>7 DEF IInv, MatchInv

LEMMA BeginInv ==
  ASSUME CallAssumption, IInv, AttemptOver, UNCHANGED call, NEW f \in Offset, Begin(f, Result)
  PROVE  IInv' /\ capnum' = 1 /\ Len(stack') = 1 /\ stack'[1].max = 1
<1>1. Result \in [0 .. MaxCapt - 1 -> Span]
  BY ResultKeeps1
<1>2. /\ Len(txt) \in Nat /\ MaxCapt \in Nat \ {0} /\ Len(pat) \in Nat /\ f \in Nat
      /\ csens \in BOOLEAN /\ error \in BOOLEAN
  BY CallTypes DEF IInv, PmxTypeOK, Offset
<1> DEFINE g == [pat |-> 1, txt |-> f, min |-> 1, max |-> 1, n |-> 0, inv |-> FALSE, cap |-> 0]
<1>3. /\ ph' = "match" /\ from' = f /\ p' = 1 /\ t' = f /\ inv' = FALSE /\ stack' = << g >>
      /\ capt' = [Result EXCEPT ![0] = << f, f >>] /\ capnum' = 1
      /\ UNCHANGED << pat, txt, mode, csens, error >>
  BY DEF Begin, call
<1> HIDE DEF Result
<1>4. Offset' = Offset /\ Span' = Span /\ Groups' = Groups
  BY <1>3 DEF Offset, Span, Groups
<1>5. g \in Groups /\ g.cap = 0 /\ g.txt = f /\ g.max = 1
  BY <1>2 DEF Groups
<1>6. << f, f >> \in Span /\ << f, f >> \in Offset \X Offset
  BY DEF Span
<1> HIDE DEF g
<1>7. /\ capt' \in [0 .. MaxCapt - 1 -> Span] /\ capt'[0] = << f, f >>
  <2> DEFINE v == << f, f >>
  <2>1. 0 \in 0 .. MaxCapt - 1
    BY <1>2
  <2> HIDE DEF v
  <2>2. capt' = [Result EXCEPT ![0] = v] /\ v \in Span
    BY <1>3, <1>6 DEF v
  <2>3. capt' \in [0 .. MaxCapt - 1 -> Span] /\ capt'[0] = v
    BY <1>1, <2>1, <2>2
  <2> QED
    BY <2>3 DEF v
<1>8. Len(stack') = 1 /\ stack'[1] = g /\ stack' \in Seq(Groups)
  BY <1>3, <1>5
<1>9. PmxTypeOK'
  <2>1. inv' \in BOOLEAN /\ csens' \in BOOLEAN /\ error' \in BOOLEAN
    BY <1>2, <1>3, Zenon
  <2>2. << pat', txt', mode' >> \in Calls
    BY <1>3 DEF PmxTypeOK, IInv
  <2>3. from' \in Offset' /\ t' \in Offset' /\ p' \in 1 .. Len(pat') + 1
    BY <1>2, <1>3, <1>4
  <2>4. Len(stack') \in 1 .. MaxCapt /\ capnum' \in 0 .. MaxCapt
    BY <1>2, <1>3, <1>8
  <2>5. capt' \in [0 .. MaxCapt - 1 -> Span'] /\ ph' \in {"match", "done"}
    BY <1>3, <1>4, <1>7
  <2> QED
    BY <2>1, <2>2, <2>3, <2>4, <2>5 DEF PmxTypeOK
<1>10. Nested(stack, t)'
  BY <1>2, <1>3, <1>4, <1>5, <1>8 DEF Nested
<1>11. Captured(stack, capt, capnum)'
  <2>1. capt'[0] \in Offset \X Offset /\ capt'[0][1] = f
    BY <1>6, <1>7
  <2> QED
    BY <1>2, <1>3, <1>4, <1>5, <1>8, <2>1 DEF Captured
<1>12. Stretches(capt, capnum)'
  <2>1. capt'[0] \in Offset \X Offset /\ capt'[0][1] = f /\ capt'[0][2] = f
    BY <1>6, <1>7
  <2>2. \A i \in 0 .. 1 - 1 : i = 0
    OBVIOUS
  <2> QED
    BY <1>2, <1>3, <1>4, <2>1, <2>2 DEF Stretches
<1> QED
  BY <1>3, <1>5, <1>8, <1>9, <1>10, <1>11, <1>12 DEF IInv, MatchInv

\* A call ends, or starts its next attempt.
CallTurn == Answer \/ Retry \/ ScanReport \/ ScanMiss

LEMMA CallTurnInv ==
  ASSUME CallAssumption, IInv, CallTurn
  PROVE  /\ IInv' /\ UNCHANGED call
         /\ \/ ph' = "done" /\ stack' = stack
            \/ ph' = "match" /\ capnum' = 1 /\ p' = 1 /\ Len(stack') = 1 /\ stack'[1].max = 1
<1>1. AttemptOver /\ UNCHANGED call
  BY DEF CallTurn, Answer, Retry, ScanReport, ScanMiss, Over
<1>2. Len(txt) \in Nat /\ from \in 0 .. Len(txt) /\ t \in 0 .. Len(txt)
  BY CallTypes DEF IInv, PmxTypeOK, Offset
<1>3. CASE End
  <2>1. IInv'
    BY <1>1, <1>3, EndInv
  <2> QED
    BY <1>1, <1>3, <2>1 DEF End
<1>4. CASE \E f \in Offset : Begin(f, Result)
  <2>1. PICK f \in Offset : Begin(f, Result)
    BY <1>4
  <2>2. IInv' /\ capnum' = 1 /\ Len(stack') = 1 /\ stack'[1].max = 1
    BY <1>1, <2>1, BeginInv
  <2> QED
    BY <1>1, <2>1, <2>2 DEF Begin
<1>5. ASSUME NEW f \in Nat, ScanFrom(f) PROVE End \/ \E v \in Offset : Begin(v, Result)
  BY <1>2, <1>5 DEF ScanFrom, At, Offset
<1>6. CASE Answer
  BY <1>3, <1>6 DEF Answer
<1>7. CASE Retry
  <2>1. from + 1 \in Offset /\ Begin(from + 1, Result)
    BY <1>2, <1>7 DEF Retry, At, Offset
  <2> QED
    BY <1>4, <2>1
<1>8. CASE ScanReport
  <2>1. t \in Nat /\ (ScanFrom(t) \/ End)
    BY <1>2, <1>8 DEF ScanReport
  <2> QED
    BY <1>3, <1>4, <1>5, <2>1
<1>9. CASE ScanMiss
  <2>1. from + 1 \in Nat /\ ScanFrom(from + 1)
    BY <1>2, <1>9 DEF ScanMiss
  <2> QED
    BY <1>3, <1>4, <1>5, <2>1
<1> QED
  BY <1>6, <1>7, <1>8, <1>9 DEF CallTurn

LEMMA InitInv ==
  ASSUME CallAssumption, PmxInit
  PROVE  IInv
<1>1. MaxCapt \in Nat \ {0}
  BY DEF CallAssumption
<1>2. PICK c \in Calls : pat = c[1] /\ txt = c[2] /\ mode = c[3]
  BY DEF PmxInit
<1>3. c = << c[1], c[2], c[3] >> /\ c[1] \in Seq(Range(c[1])) /\ c[2] \in Seq(Range(c[2]))
  BY DEF CallAssumption, IsCall
<1>4. << pat, txt, mode >> \in Calls
  BY <1>2, <1>3
<1>5. Len(pat) \in Nat /\ Len(txt) \in Nat
  BY <1>2, <1>3
<1> DEFINE g == [pat |-> 1, txt |-> 0, min |-> 1, max |-> 1, n |-> 0, inv |-> FALSE, cap |-> 0]
<1>6. /\ ph \in {"match", "done"} /\ (ph = "done" => mode = "scan" /\ txt = <<>>)
      /\ from = 0 /\ p = 1 /\ t = 0 /\ inv = FALSE /\ csens = TRUE /\ error = FALSE
      /\ stack = << g >>
      /\ capt = [i \in 0 .. MaxCapt - 1 |-> IF i = 0 THEN << 0, 0 >> ELSE Nothing]
      /\ capnum = 1
  BY DEF PmxInit
<1>7. 0 \in Offset
  BY <1>5 DEF Offset
<1>8. g \in Groups /\ g.cap = 0 /\ g.txt = 0
  BY <1>5, <1>7 DEF Groups
<1> HIDE DEF g
<1>9. << 0, 0 >> \in Span /\ << 0, 0 >> \in Offset \X Offset /\ Nothing \in Span
  BY <1>7 DEF Span
<1>10. /\ capt \in [0 .. MaxCapt - 1 -> Span] /\ capt[0] = << 0, 0 >>
  BY <1>1, <1>6, <1>9
<1>11. Len(stack) = 1 /\ stack[1] = g /\ stack \in Seq(Groups)
  BY <1>6, <1>8
<1>12. PmxTypeOK
  <2>1. inv \in BOOLEAN /\ csens \in BOOLEAN /\ error \in BOOLEAN
    BY <1>6, Zenon
  <2>2. from \in Offset /\ t \in Offset /\ p \in 1 .. Len(pat) + 1
    BY <1>5, <1>6, <1>7
  <2>3. Len(stack) \in 1 .. MaxCapt /\ capnum \in 0 .. MaxCapt
    BY <1>1, <1>6, <1>11
  <2> QED
    BY <1>4, <1>6, <1>10, <2>1, <2>2, <2>3 DEF PmxTypeOK
<1>13. Nested(stack, t)
  BY <1>1, <1>6, <1>7, <1>8, <1>11 DEF Nested
<1>14. Captured(stack, capt, capnum)
  <2>1. capt[0] \in Offset \X Offset /\ capt[0][1] = 0
    BY <1>9, <1>10
  <2>2. from = 0 /\ capnum = 1 /\ Len(stack) = 1 /\ stack[1].cap = 0 /\ stack[1].txt = 0
    BY <1>6, <1>8, <1>11
  <2>3. \A i \in 1 .. Len(stack) : i = 1
    BY <2>2
  <2> QED
    BY <2>1, <2>2, <2>3 DEF Captured
<1>15. Stretches(capt, capnum)
  <2>1. capt[0] \in Offset \X Offset /\ capt[0][1] = 0 /\ capt[0][2] = 0
    BY <1>9, <1>10
  <2>2. \A i \in 0 .. 1 - 1 : i = 0
    OBVIOUS
  <2> QED
    BY <1>6, <2>1, <2>2 DEF Stretches
<1> QED
  BY <1>6, <1>12, <1>13, <1>14, <1>15 DEF IInv, MatchInv

-----------------------------------------------------------------------------
(* Patterns with few groups *)

\* No group is repeated, and there are fewer than captures.
FewGroups ==
  /\ \A i \in 1 .. Len(pat) : pat[i].op = "rep" => pat[i].max <= 1
  /\ GroupsBefore(Len(pat) + 1) < MaxCapt

\* No more captures are taken than groups were gone past.
CountInv ==
  /\ FewGroups
  /\ ph = "match" => capnum <= 1 + GroupsBefore(p)
  /\ \A i \in 1 .. Len(stack) : stack[i].cap < MaxCapt /\ stack[i].max <= 1

LEMMA GroupsMonotonic ==
  ASSUME NEW q \in Int, NEW r \in Int, q <= r
  PROVE  GroupsBefore(q) <= GroupsBefore(r)
<1>1. Opening(q) \subseteq Opening(r)
  BY DEF Opening
<1>2. IsFiniteSet(Opening(r))
  BY GroupsAreCounted
<1> QED
  BY <1>1, <1>2, FS_Subset DEF GroupsBefore

\* A turn leaves the groups that are open as they are, up to the matches they
\* counted, closes some or opens one.
SameGroup(g, h) == g.cap = h.cap /\ g.max = h.max
Opens(g) == pat[p].op \in {"open", "rep"} /\ g.cap = capnum /\ (g.max = 1 \/ (pat[p].op = "rep" /\ g.max = pat[p].max))
StackTurn ==
  \A i \in 1 .. Len(stack') :
    Opens(stack'[i]) \/ (i \in 1 .. Len(stack) /\ SameGroup(stack'[i], stack[i]))

LEMMA FrontGroups ==
  ASSUME NEW s \in Seq(Groups), Len(s) > 0
  PROVE  Front(s) \in Seq(Groups) /\ Len(Front(s)) = Len(s) - 1
         /\ \A i \in 1 .. Len(s) - 1 : Front(s)[i] = s[i]
<1>1. Len(s) \in Nat \ {0} /\ Len(s) - 1 \in Nat
  OBVIOUS
<1>2. \A i \in 1 .. Len(s) - 1 : s[i] \in Groups
  BY <1>1
<1> DEFINE n == Len(s) - 1
           f == [i \in 1 .. n |-> s[i]]
<1>3. Front(s) = f
  BY <1>1, <1>2 DEF Front
<1>4. f \in Seq(Groups) /\ Len(f) = n /\ \A i \in 1 .. n : f[i] = s[i]
  <2>1. n \in Nat /\ \A i \in 1 .. n : s[i] \in Groups
    BY <1>1, <1>2
  <2> HIDE DEF n
  <2> QED
    BY <2>1
<1> HIDE DEF f, n
<1>5. Front(s) \in Seq(Groups) /\ Len(Front(s)) = n /\ \A i \in 1 .. n : Front(s)[i] = s[i]
  BY <1>3, <1>4
<1> QED
  BY <1>5 DEF n

LEMMA FailStack ==
  ASSUME NEW st \in Seq(Groups), Len(st) > 0, st = stack \/ st = Front(stack), stack \in Seq(Groups), Len(stack) > 0,
         NEW q, NEW er, Fail(st, q, er)
  PROVE  StackTurn
<1>1. stack' \in {st, Front(st)}
  BY DEF Fail
<1>2. ASSUME NEW s \in Seq(Groups), Len(s) > 0
      PROVE  Front(s) \in Seq(Groups) /\ Len(Front(s)) = Len(s) - 1
             /\ \A i \in 1 .. Len(s) - 1 : Front(s)[i] = s[i]
  BY <1>2, FrontGroups
<1>3. Len(st) <= Len(stack) /\ \A i \in 1 .. Len(st) : i \in 1 .. Len(stack) /\ st[i] = stack[i]
  <2>1. CASE st = stack
    BY <2>1
  <2>2. CASE st = Front(stack)
    BY <1>2, <2>2
  <2> QED
    BY <2>1, <2>2
<1>4. \A i \in 1 .. Len(stack') : i \in 1 .. Len(st) /\ stack'[i] = st[i]
  <2>1. CASE stack' = st
    BY <2>1
  <2>2. CASE stack' = Front(st)
    BY <1>2, <2>2
  <2> QED
    BY <1>1, <2>1, <2>2
<1> QED
  BY <1>3, <1>4 DEF StackTurn, SameGroup

LEMMA PushStack ==
  ASSUME stack \in Seq(Groups), NEW min, NEW max, NEW neg, PushGroup(p + 1, min, max, neg),
         pat[p].op \in {"open", "rep"}, max = 1 \/ (pat[p].op = "rep" /\ max = pat[p].max)
  PROVE  StackTurn
<1>1. CASE stack' = stack
  BY <1>1 DEF StackTurn, SameGroup
<1>2. CASE stack' = Append(stack, Group(p + 1, min, max, neg))
  <2> DEFINE g == Group(p + 1, min, max, neg)
  <2>1. g.cap = capnum /\ g.max = max
    BY DEF Group
  <2> HIDE DEF g
  <2>2. /\ Len(stack') = Len(stack) + 1 /\ stack'[Len(stack) + 1] = g
        /\ \A i \in 1 .. Len(stack) : stack'[i] = stack[i]
    BY <1>2 DEF g
  <2>3. Opens(g)
    BY <2>1 DEF Opens
  <2>4. \A i \in 1 .. Len(stack) + 1 : i = Len(stack) + 1 \/ i \in 1 .. Len(stack)
    OBVIOUS
  <2> QED
    BY <2>2, <2>3, <2>4 DEF StackTurn, SameGroup
<1> QED
  BY <1>1, <1>2 DEF PushGroup

LEMMA TurnStack ==
  ASSUME CallAssumption, InTurn, LoopTurn
  PROVE  StackTurn
<1>1. stack \in Seq(Groups) /\ Len(stack) > 0 /\ Len(stack) \in Nat
  BY CallTypes DEF InTurn, Nested
<1>2. ASSUME UNCHANGED stack PROVE StackTurn
  BY <1>2 DEF StackTurn, SameGroup
<1>3. ASSUME NEW q, NEW er, Fail(stack, q, er) PROVE StackTurn
  BY <1>1, <1>3, FailStack
<1>4. CASE Open
  <2>1. pat[p].op = "open" /\ PushGroup(p + 1, 1, 1, inv')
    BY <1>4 DEF Open, Turn, Tok
  <2> QED
    BY <1>1, <2>1, PushStack
<1>5. CASE Rep
  <2>1. pat[p].op = "rep" /\ PushGroup(p + 1, Tok.min, Tok.max, Tok.inv) /\ Tok.max = pat[p].max
    BY <1>5 DEF Rep, Turn, Tok
  <2> QED
    BY <1>1, <2>1, PushStack
<1>6. CASE Alt \/ CaseSense
  BY <1>2, <1>6 DEF Alt, CaseSense
<1>7. CASE Close
  <2> DEFINE g == Last(stack)
  <2>1. CASE Len(stack) < 2
    BY <1>2, <1>7, <2>1 DEF Close
  <2>2. CASE ~ (Len(stack) < 2)
    <3>1. /\ Front(stack) \in Seq(Groups) /\ Len(Front(stack)) = Len(stack) - 1 /\ Len(stack) - 1 \in Nat \ {0}
          /\ \A i \in 1 .. Len(stack) - 1 : Front(stack)[i] = stack[i]
      BY <1>1, <2>2, FrontGroups
    <3>2. g = stack[Len(stack)] /\ g \in Groups
      BY <1>1, <2>2 DEF Last
    <3>3. CASE Fail(Front(stack), p + 1, FALSE)
      <4>1. Len(Front(stack)) > 0
        BY <3>1
      <4> QED
        BY <1>1, <3>1, <3>3, <4>1, FailStack
    <3>4. CASE stack' = IF Repeats(g) THEN Append(Front(stack), [g EXCEPT !.n = Counted(@)])
                        ELSE Front(stack)
      <4> DEFINE h == [g EXCEPT !.n = Counted(@)]
      <4>1. h.cap = g.cap /\ h.max = g.max
        BY <3>2 DEF Groups
      <4> HIDE DEF h
      <4>2. CASE Repeats(g)
        <5>1. stack' = Append(Front(stack), h)
          BY <3>4, <4>2 DEF h
        <5>2. /\ Len(stack') = Len(stack) /\ stack'[Len(stack)] = h
              /\ \A i \in 1 .. Len(stack) - 1 : stack'[i] = stack[i]
          BY <1>1, <3>1, <5>1
        <5>3. \A i \in 1 .. Len(stack) : i = Len(stack) \/ i \in 1 .. Len(stack) - 1
          BY <1>1
        <5>4. \A i \in 1 .. Len(stack) : SameGroup(stack'[i], stack[i])
          BY <3>2, <4>1, <5>2, <5>3 DEF SameGroup
        <5> QED
          BY <5>2, <5>4 DEF StackTurn
      <4>3. CASE ~ Repeats(g)
        <5>1. stack' = Front(stack)
          BY <3>4, <4>3
        <5>2. \A i \in 1 .. Len(stack') : i \in 1 .. Len(stack) /\ stack'[i] = stack[i]
          BY <1>1, <3>1, <5>1
        <5> QED
          BY <5>2 DEF StackTurn, SameGroup
      <4> QED
        BY <4>2, <4>3
    <3> QED
      BY <1>7, <2>2, <3>3, <3>4 DEF Close
  <2> QED
    BY <2>1, <2>2
<1>8. CASE Char
  BY <1>2, <1>3, <1>8 DEF Char, Accept
<1>9. CASE Class
  BY <1>2, <1>3, <1>9 DEF Class, Recognized, Accept
<1>10. CASE BackRef
  BY <1>2, <1>3, <1>10 DEF BackRef, Recognized, Accept
<1>11. CASE Quoted
  BY <1>2, <1>3, <1>11 DEF Quoted
<1>12. CASE EndOfText
  BY <1>2, <1>3, <1>12 DEF EndOfText, Accept
<1>13. CASE Unknown
  BY <1>3, <1>13 DEF Unknown
<1> QED
  BY <1>4, <1>5, <1>6, <1>7, <1>8, <1>9, <1>10, <1>11, <1>12, <1>13 DEF LoopTurn

-----------------------------------------------------------------------------
(* Theorems *)

LEMMA StutterInv ==
  ASSUME IInv, UNCHANGED << pat, txt, mode, from, p, t, inv, stack, capt, capnum, csens, error, ph >>
  PROVE  IInv'
<1>1. Offset' = Offset
  BY DEF Offset
<1>2. Span' = Span /\ Groups' = Groups
  BY <1>1 DEF Span, Groups
<1>3. PmxTypeOK'
  BY <1>1, <1>2 DEF IInv, PmxTypeOK
<1>5. Nested(stack, t)' <=> Nested(stack, t)
  BY <1>2 DEF Nested
<1>6. Captured(stack, capt, capnum)' <=> Captured(stack, capt, capnum)
  BY <1>1 DEF Captured
<1>7. Stretches(capt, capnum)' <=> Stretches(capt, capnum)
  BY <1>1 DEF Stretches
<1>8. (\A i \in capnum .. MaxCapt - 1 : capt[i] = Nothing)' <=> \A i \in capnum .. MaxCapt - 1 : capt[i] = Nothing
  OBVIOUS
<1> QED
  BY <1>3, <1>5, <1>6, <1>7, <1>8 DEF IInv, MatchInv

LEMMA MatchStep ==
  ASSUME CallAssumption, IInv, [PmxNext]_pmxvars, EveryGroupHasCapture'
  PROVE  IInv'
<1>1. CASE LoopTurn
  <2>1. \A i \in 1 .. Len(stack') : stack'[i].cap < MaxCapt
    BY DEF EveryGroupHasCapture, CallAssumption
  <2>2. Kept /\ inv' \in BOOLEAN /\ ph = "match" /\ UNCHANGED << call, from, ph >>
    BY <1>1, <2>1, TurnKeeps
  <2> QED
    BY <2>2, KeptInv
<1>2. CASE CallTurn
  BY <1>2, CallTurnInv
<1>3. CASE UNCHANGED pmxvars
  <2>1. UNCHANGED << pat, txt, mode, from, p, t, inv, stack, capt, capnum, csens, error, ph >>
    BY <1>3 DEF pmxvars, call
  <2> QED
    BY <2>1, StutterInv
<1> QED
  BY <1>1, <1>2, <1>3 DEF PmxNext, CallTurn

\* Whatever the pattern, the text and the interface, the captures are stretches
\* of the text that start in this attempt, each open group has its own, and the
\* captures the match did not make are empty: as long as no group is entered
\* when all captures are taken, for which utl_pmx_match has no check.
THEOREM CapturesSafe ==
  ASSUME CallAssumption
  PROVE  PmxSpec /\ []EveryGroupHasCapture => [](PmxTypeOK /\ InText /\ CapturesInText)
<1>1. PmxInit => IInv
  BY InitInv
<1>2. IInv /\ [PmxNext]_pmxvars /\ EveryGroupHasCapture' => IInv'
  BY MatchStep
<1>3. IInv => PmxTypeOK /\ InText /\ CapturesInText
  BY Implied DEF IInv, CapturesInText
<1> QED
  BY <1>1, <1>2, <1>3, PTL DEF PmxSpec

LEMMA FewHaveCaptures ==
  ASSUME CallAssumption, IInv, CountInv, LoopTurn
  PROVE  /\ \A i \in 1 .. Len(stack') : stack'[i].cap < MaxCapt /\ stack'[i].max <= 1
         /\ IInv' /\ CountInv'
<1>1. ph = "match" /\ p <= Len(pat)
  BY DEF LoopTurn, Turn, Open, Rep, Alt, Close, Char, Class, BackRef, Quoted, EndOfText,
         CaseSense, Unknown
<1>2. InTurn
  BY <1>1, TurnKnows
<1>3. Len(pat) \in Nat /\ MaxCapt \in Nat \ {0} /\ p \in 1 .. Len(pat) /\ p \in Nat \ {0} /\ capnum \in Nat
  BY <1>2, CallTypes DEF InTurn, PmxTypeOK
<1>4. /\ \A i \in 1 .. Len(pat) : pat[i].op = "rep" => pat[i].max <= 1
      /\ GroupsBefore(Len(pat) + 1) < MaxCapt
      /\ capnum <= 1 + GroupsBefore(p)
      /\ \A i \in 1 .. Len(stack) : stack[i].cap < MaxCapt /\ stack[i].max <= 1
  BY <1>1 DEF CountInv, FewGroups
<1>5. ASSUME pat[p].op \in {"open", "rep"} PROVE capnum < MaxCapt
  <2>1. GroupsBefore(p + 1) = GroupsBefore(p) + 1
    BY <1>3, <1>5, OpeningNext
  <2>2. /\ GroupsBefore(p) \in Nat /\ GroupsBefore(p + 1) \in Nat /\ GroupsBefore(Len(pat) + 1) \in Nat
        /\ GroupsBefore(p + 1) <= GroupsBefore(Len(pat) + 1)
    <3>1. p \in Int /\ p + 1 \in Int /\ Len(pat) + 1 \in Int /\ p + 1 <= Len(pat) + 1
      BY <1>3
    <3> QED
      BY <3>1, GroupsAreCounted, GroupsMonotonic
  <2> QED
    BY <1>3, <1>4, <2>1, <2>2
<1>6. ASSUME NEW i \in 1 .. Len(stack') PROVE stack'[i].cap < MaxCapt /\ stack'[i].max <= 1
  <2>1. Opens(stack'[i]) \/ (i \in 1 .. Len(stack) /\ SameGroup(stack'[i], stack[i]))
    BY <1>2, TurnStack DEF StackTurn
  <2>2. CASE Opens(stack'[i])
    BY <1>3, <1>4, <1>5, <2>2 DEF Opens
  <2>3. CASE i \in 1 .. Len(stack) /\ SameGroup(stack'[i], stack[i])
    BY <1>4, <2>3 DEF SameGroup
  <2> QED
    BY <2>1, <2>2, <2>3
<1>7. /\ Kept /\ inv' \in BOOLEAN /\ UNCHANGED << call, from, ph >>
      /\ Counts(p) \/ (Len(stack) >= 2 /\ Repeats(Last(stack)) /\ Close)
  BY <1>6, TurnKeeps
<1>8. IInv'
  BY <1>1, <1>7, KeptInv
<1>9. Counts(p)
  <2>1. ASSUME Len(stack) >= 2, Repeats(Last(stack)) PROVE FALSE
    <3> DEFINE g == Last(stack)
    <3>1. stack \in Seq(Groups) /\ Len(stack) \in 1 .. Len(stack)
      BY <1>2, <2>1 DEF InTurn, Nested
    <3>2. g = stack[Len(stack)] /\ g \in Groups
      BY <3>1 DEF Last
    <3>3. g.max <= 1
      BY <1>4, <3>1, <3>2
    <3>4. g.n \in Nat /\ g.max \in Nat
      BY <3>2 DEF Groups
    <3> HIDE DEF g
    <3>5. ~ (g.n + 1 < g.max)
      BY <3>3, <3>4
    <3> QED
      BY <2>1, <3>5 DEF Repeats, g
  <2> QED
    BY <1>7, <2>1
<1>10. capnum' <= 1 + GroupsBefore(p')
  <2>1. p' \in Int /\ p \in Int /\ capnum' \in Nat
    BY <1>3, <1>7 DEF Kept
  <2>2. GroupsBefore(p) \in Nat /\ GroupsBefore(p') \in Nat
    BY <2>1, GroupsAreCounted, Zenon
  <2> QED
    BY <1>3, <1>4, <1>9, <2>1, <2>2 DEF Counts
<1>11. pat' = pat
  BY <1>7 DEF call
<1>12. CountInv'
  BY <1>4, <1>6, <1>10, <1>11 DEF CountInv, FewGroups, GroupsBefore, Opening
<1> QED
  BY <1>6, <1>8, <1>12

LEMMA FewStep ==
  ASSUME CallAssumption, IInv, CountInv, [PmxNext]_pmxvars
  PROVE  IInv' /\ CountInv'
<1>1. CASE LoopTurn
  BY <1>1, FewHaveCaptures
<1>2. CASE CallTurn
  <2>1. /\ IInv' /\ pat' = pat
        /\ \/ ph' = "done" /\ stack' = stack
           \/ ph' = "match" /\ capnum' = 1 /\ p' = 1 /\ Len(stack') = 1 /\ stack'[1].max = 1
    BY <1>2, CallTurnInv DEF call
  <2>2. /\ ph' = "match" => capnum' <= 1 + GroupsBefore(p')
        /\ \A i \in 1 .. Len(stack') : stack'[i].cap < MaxCapt /\ stack'[i].max <= 1
    <3>1. CASE ph' = "done" /\ stack' = stack
      BY <3>1 DEF CountInv
    <3>2. CASE ph' = "match" /\ capnum' = 1 /\ p' = 1 /\ Len(stack') = 1 /\ stack'[1].max = 1
      <4>1. GroupsBefore(p') \in Nat
        <5>1. p' \in Int
          BY <3>2
        <5> QED
          BY <5>1, GroupsAreCounted, Zenon
      <4>2. stack'[1].cap = 0
        BY <2>1, <3>2 DEF IInv, MatchInv, Nested
      <4>3. MaxCapt \in Nat /\ MaxCapt > 0 /\ \A i \in 1 .. 1 : i = 1
        BY DEF CallAssumption
      <4>4. capnum' <= 1 + GroupsBefore(p')
        BY <3>2, <4>1
      <4>5. \A i \in 1 .. Len(stack') : stack'[i].cap < MaxCapt /\ stack'[i].max <= 1
        BY <3>2, <4>2, <4>3
      <4> QED
        BY <4>4, <4>5
    <3> QED
      BY <2>1, <3>1, <3>2
  <2>3. FewGroups'
    BY <2>1 DEF CountInv, FewGroups, GroupsBefore, Opening
  <2> QED
    BY <2>1, <2>2, <2>3 DEF CountInv, GroupsBefore, Opening
<1>3. CASE UNCHANGED pmxvars
  <2>1. UNCHANGED << pat, txt, mode, from, p, t, inv, stack, capt, capnum, csens, error, ph >>
    BY <1>3 DEF pmxvars, call
  <2>2. IInv'
    BY <2>1, StutterInv
  <2>3. CountInv'
    BY <2>1 DEF CountInv, FewGroups, GroupsBefore, Opening
  <2> QED
    BY <2>2, <2>3
<1> QED
  BY <1>1, <1>2, <1>3 DEF PmxNext, CallTurn

LEMMA FewInit ==
  ASSUME CallAssumption, PmxInit, FewGroups
  PROVE  CountInv
<1>1. capnum = 1 /\ p = 1 /\ Len(stack) = 1 /\ stack[1].cap = 0 /\ stack[1].max = 1
  BY DEF PmxInit
<1>2. GroupsBefore(p) \in Nat
  <2>1. p \in Int
    BY <1>1
  <2> QED
    BY <2>1, GroupsAreCounted, Zenon
<1>3. MaxCapt > 0 /\ \A i \in 1 .. 1 : i = 1
  BY DEF CallAssumption
<1> QED
  BY <1>1, <1>2, <1>3 DEF CountInv

\* A pattern that repeats no group and has fewer of them than there are
\* captures never enters a group when all captures are taken: for it the
\* captures are safe without a condition.
THEOREM FewGroupsSafe ==
  ASSUME CallAssumption
  PROVE  PmxSpec /\ FewGroups =>
           [](PmxTypeOK /\ InText /\ CapturesInText /\ EveryGroupHasCapture)
<1>1. PmxInit /\ FewGroups => IInv /\ CountInv
  BY InitInv, FewInit
<1>2. IInv /\ CountInv /\ [PmxNext]_pmxvars => IInv' /\ CountInv'
  BY FewStep
<1>3. IInv /\ CountInv => PmxTypeOK /\ InText /\ CapturesInText /\ EveryGroupHasCapture
  BY Implied DEF IInv, CountInv, EveryGroupHasCapture, CapturesInText
<1> QED
  BY <1>1, <1>2, <1>3, PTL DEF PmxSpec

-----------------------------------------------------------------------------
(* The server *)

\* newconn only raises maxsock, so a socket that select did not look at is not
\* taken for a ready one later in the round.
RoundBounded == \A f \in rdsocks : f <= maxsock

\* The inductive invariant: what holds between any two steps of the server or
\* of a peer.  RoundBounded is what keeps Left from growing with maxsock.
NetInv == NetTypeOK /\ NeverBlocks /\ WatchesAll /\ RoundBounded /\ serving # "none"

USE SocketAssumption DEF SocketAssumption

LEMMA InitNet == ASSUME NetInit PROVE NetInv
<1> USE DEF NetInit, NetFresh, Socks
<1>1. NetTypeOK
  BY DEF NetTypeOK
<1>2. WatchesAll
  BY DEF WatchesAll, IsInjective
<1> QED
  BY <1>1, <1>2 DEF NetInv, NeverBlocks, RoundBounded

(* What a peer does leaves the server's state alone, and makes no socket    *)
(* unready.                                                                 *)
LEMMA PeersNet == ASSUME NetInv, PeerMoves PROVE NetInv'
<1> USE DEF NetInv
<1>1. PICK c \in Peers : Connect(c) \/ Send(c) \/ Leave(c)
  BY DEF PeerMoves
<1>2. UNCHANGED server
  BY DEF PeerMoves
<1>3. CASE Connect(c)
  <2>1. /\ backlog' = Append(backlog, c) /\ UNCHANGED << owner, unread, gone >>
        /\ backlog \in Seq(Peers)
    BY <1>3 DEF Connect, NetTypeOK
  <2>2. NetTypeOK'
    BY <1>2, <2>1 DEF NetTypeOK, server
  <2>3. ASSUME NEW f \in Socks, Ready(f) PROVE Ready(f)'
    BY <2>1, <2>3 DEF Ready
  <2>4. NeverBlocks'
    BY <1>2, <2>3 DEF NeverBlocks, Left, server, NetTypeOK
  <2>5. WatchesAll'
    <3>1. c \notin Owners /\ \A i \in 1 .. Len(backlog) : backlog[i] # c
      BY <1>3 DEF Connect, Connected
    <3>2. Owners' = Owners
      BY <2>1 DEF Owners
    <3>3. /\ Len(backlog') = Len(backlog) + 1 /\ DOMAIN backlog' = 1 .. Len(backlog')
          /\ \A i \in 1 .. Len(backlog) : backlog'[i] = backlog[i]
          /\ backlog'[Len(backlog) + 1] = c
          /\ DOMAIN backlog = 1 .. Len(backlog) /\ Len(backlog) \in Nat
      BY <2>1
    <3>4. IsInjective(backlog')
      BY <3>1, <3>3 DEF WatchesAll, IsInjective
    <3>5. \A i \in 1 .. Len(backlog') : backlog'[i] \notin Owners'
      BY <3>1, <3>2, <3>3 DEF WatchesAll
    <3> QED
      BY <1>2, <2>1, <3>4, <3>5 DEF WatchesAll, server
  <2> QED
    BY <1>2, <2>2, <2>4, <2>5 DEF RoundBounded, server
<1>4. ASSUME NEW u, NEW g, unread' = [unread EXCEPT ![c] = u], gone' = [gone EXCEPT ![c] = g],
             u \in 0 .. MaxChunks, g \in {"no", "closed", "reset"}, u > 0 \/ g # "no",
             UNCHANGED << backlog, owner >>
      PROVE  NetInv'
  <2>1. NetTypeOK'
    BY <1>2, <1>4 DEF NetTypeOK, server
  <2>2. ASSUME NEW f \in Socks, Ready(f) PROVE Ready(f)'
    BY <1>4, <2>2 DEF Ready, NetTypeOK
  <2>3. NeverBlocks'
    BY <1>2, <2>2 DEF NeverBlocks, Left, server, NetTypeOK
  <2>4. WatchesAll'
    BY <1>2, <1>4 DEF WatchesAll, Owners, server
  <2> QED
    BY <1>2, <2>1, <2>3, <2>4 DEF RoundBounded, server
<1>5. CASE Send(c)
  <2>1. gone' = [gone EXCEPT ![c] = gone[c]]
    BY <1>5 DEF Send, NetTypeOK
  <2>2. PICK n \in 1 .. MaxChunks : unread' = [unread EXCEPT ![c] = n]
    BY <1>5 DEF Send
  <2>3. n \in 0 .. MaxChunks /\ n > 0 /\ gone[c] \in {"no", "closed", "reset"}
    BY DEF NetTypeOK
  <2> QED
    BY <1>4, <1>5, <2>1, <2>2, <2>3 DEF Send
<1>6. CASE Leave(c)
  <2>1. unread[c] \in 0 .. MaxChunks /\ unread = [unread EXCEPT ![c] = unread[c]]
    BY DEF NetTypeOK
  <2> QED
    BY <1>4, <1>6, <2>1 DEF Leave
<1> QED
  BY <1>1, <1>3, <1>5, <1>6

(* The first socket of those that are left, and what is left behind it.     *)
LEMMA CurrentFirst ==
  ASSUME NetTypeOK, Left # {}
  PROVE  Current \in Left /\ \A g \in Left : Current <= g
<1>1. Left \subseteq Nat
  <2>1. rdsocks \subseteq Socks /\ Left \subseteq rdsocks
    BY DEF Left, NetTypeOK
  <2> QED
    BY <2>1 DEF Socks
<1>2. PICK n \in Left : \A g \in Left : n <= g
  BY <1>1, LeastNatural
<1> QED
  BY <1>2 DEF Current

(* What is left after the first socket was served.                          *)
LEMMA LeftBehind ==
  ASSUME NetTypeOK, RoundBounded, Left # {}, rdsocks' = rdsocks, sock' = Current + 1
  PROVE  Left' \subseteq Left \ {Current}
<1>1. Current \in Left
  BY CurrentFirst
<1> SUFFICES ASSUME NEW g \in Left' PROVE g \in Left /\ g # Current
  OBVIOUS
<1>2. g \in rdsocks /\ Current + 1 <= g
  BY DEF Left
<1>3. g \in Nat /\ Current \in Nat /\ sock \in Nat /\ sock <= Current
  BY <1>1, <1>2 DEF Left, NetTypeOK, Socks
<1>4. g <= maxsock
  BY <1>2 DEF RoundBounded
<1>5. sock <= g /\ g # Current
  BY <1>2, <1>3
<1> QED
  BY <1>2, <1>4, <1>5 DEF Left

LEMMA NewConnNet ==
  ASSUME NetInv, serving = "round", Left # {}, NewConn, sock' = Current + 1
  PROVE  NetInv'
<1> USE DEF NetInv
<1> DEFINE h == Head(backlog)
<1>1. /\ Current \in Left /\ Current \in Socks /\ Current = srvsock
      /\ \A g \in Left : Current <= g
  BY CurrentFirst DEF Left, NetTypeOK, NewConn
<1>2. /\ backlog \in Seq(Peers) /\ backlog # <<>> /\ backlog' = Tail(backlog)
      /\ UNCHANGED << serving, rdsocks, goon >>
  BY DEF NewConn, NetTypeOK
<1>3. /\ h \in Peers /\ h = backlog[1] /\ Len(backlog') = Len(backlog) - 1
      /\ backlog' \in Seq(Peers) /\ 1 \in 1 .. Len(backlog)
      /\ \A i \in 1 .. Len(backlog') : backlog'[i] = backlog[i + 1] /\ i + 1 \in 1 .. Len(backlog)
      /\ DOMAIN backlog' = 1 .. Len(backlog') /\ DOMAIN backlog = 1 .. Len(backlog)
  BY <1>2
<1>4. /\ IsInjective(backlog') /\ \A i \in 1 .. Len(backlog') : backlog'[i] # h
  <2>1. \A i, j \in 1 .. Len(backlog) : backlog[i] = backlog[j] => i = j
    BY <1>3 DEF WatchesAll, IsInjective
  <2>2. ASSUME NEW i \in 1 .. Len(backlog') PROVE backlog'[i] # h
    <3>1. i + 1 # 1
      OBVIOUS
    <3> QED
      BY <1>3, <2>1, <3>1
  <2>3. ASSUME NEW i \in 1 .. Len(backlog'), NEW j \in 1 .. Len(backlog'), backlog'[i] = backlog'[j]
        PROVE  i = j
    <3>1. i + 1 = j + 1
      BY <1>3, <2>1, <2>3
    <3> QED
      BY <3>1
  <2> QED
    BY <1>3, <2>2, <2>3 DEF IsInjective
<1>5. h \notin Owners
  BY <1>3 DEF WatchesAll
<1>6. sock' \in 1 .. MaxSock + 1
  BY <1>1 DEF Socks
<1>7. CASE \E f \in Socks :
             /\ f # srvsock /\ owner[f] = NoPeer
             /\ owner' = [owner EXCEPT ![f] = h]
             /\ socksfd' = socksfd \cup {f}
             /\ maxsock' = NewMax(f)
             /\ UNCHANGED << unread, gone >>
  <2>1. PICK f \in Socks :
             /\ f # srvsock /\ owner[f] = NoPeer
             /\ owner' = [owner EXCEPT ![f] = h]
             /\ socksfd' = socksfd \cup {f}
             /\ maxsock' = NewMax(f)
             /\ UNCHANGED << unread, gone >>
    BY <1>7
  <2>2. /\ maxsock' \in Socks /\ maxsock' >= maxsock /\ maxsock' >= f
    BY <2>1 DEF NewMax, NetTypeOK, Socks
  <2>3. NetTypeOK'
    BY <1>2, <1>3, <1>6, <2>1, <2>2 DEF NetTypeOK
  <2>4. RoundBounded'
    BY <1>2, <2>2 DEF RoundBounded, NetTypeOK, Socks
  <2>5. Left' \subseteq Left \ {Current}
    BY <1>2, LeftBehind
  <2>6. ASSUME NEW g \in Left' PROVE Ready(g)'
    <3>1. g \in Left /\ g # srvsock /\ g \in Socks
      BY <1>1, <2>5 DEF Left, NetTypeOK
    <3>2. Ready(g)
      BY <3>1 DEF NeverBlocks
    <3> QED
      BY <2>1, <3>1, <3>2 DEF Ready, NetTypeOK
  <2>7. owner'[f] = h /\ \A g \in Socks : g # f => owner'[g] = owner[g]
    BY <2>1 DEF NetTypeOK
  <2>8. h # NoPeer
    BY <1>3
  <2>9. \A g \in Socks : owner[g] # h
    BY <1>5, <2>8 DEF Owners
  <2>10. socksfd' = {srvsock} \cup {g \in Socks : owner'[g] # NoPeer}
    BY <2>1, <2>7, <2>8 DEF WatchesAll
  <2>11. \A g \in socksfd' : g <= maxsock'
    BY <2>1, <2>2 DEF WatchesAll, NetTypeOK, Socks
  <2>12. \A g, k \in Socks : owner'[g] = owner'[k] /\ owner'[g] # NoPeer => g = k
    BY <2>7, <2>9 DEF WatchesAll
  <2>13. \A i \in 1 .. Len(backlog') : backlog'[i] \notin Owners'
    <3>1. Owners' \subseteq Owners \cup {h}
      BY <2>7 DEF Owners
    <3> QED
      BY <1>3, <1>4, <3>1 DEF WatchesAll
  <2>14. WatchesAll'
    BY <1>4, <2>10, <2>11, <2>12, <2>13 DEF WatchesAll
  <2> QED
    BY <1>2, <2>3, <2>4, <2>6, <2>14 DEF NeverBlocks
<1>8. CASE Forgotten(h) /\ UNCHANGED << owner, socksfd, maxsock >>
  <2>1. NetTypeOK'
    BY <1>2, <1>3, <1>6, <1>8 DEF NetTypeOK, Forgotten
  <2>2. RoundBounded'
    BY <1>2, <1>8 DEF RoundBounded
  <2>3. Left' \subseteq Left \ {Current}
    BY <1>2, LeftBehind
  <2>4. ASSUME NEW g \in Left' PROVE Ready(g)'
    <3>1. g \in Left /\ g # srvsock /\ g \in Socks
      BY <1>1, <2>3 DEF Left, NetTypeOK
    <3>2. Ready(g)
      BY <3>1 DEF NeverBlocks
    <3>3. owner[g] # NoPeer /\ owner[g] # h /\ owner[g] \in Peers
      BY <1>5, <3>1, <3>2 DEF Ready, Owners, NetTypeOK
    <3> QED
      BY <1>8, <3>1, <3>2, <3>3 DEF Ready, NetTypeOK, Forgotten
  <2>5. WatchesAll'
    <3>1. Owners' = Owners
      BY <1>8 DEF Owners
    <3> QED
      BY <1>3, <1>4, <1>8, <3>1 DEF WatchesAll
  <2> QED
    BY <1>2, <2>1, <2>2, <2>4, <2>5 DEF NeverBlocks
<1> QED
  BY <1>7, <1>8 DEF NewConn

LEMMA GotBytesNet ==
  ASSUME NetInv, serving = "round", Left # {}, GotBytes, sock' = Current + 1
  PROVE  NetInv'
<1> USE DEF NetInv
<1> DEFINE c == owner[Current]
<1>1. /\ Current \in Left /\ Current \in Socks /\ Current # srvsock
      /\ \A g \in Left : Current <= g
      /\ c \in Peers
  BY CurrentFirst DEF Left, NetTypeOK, GotBytes
<1>2. UNCHANGED << maxsock, rdsocks, backlog >>
  BY DEF GotBytes
<1>3. RoundBounded' /\ sock' \in 1 .. MaxSock + 1
  BY <1>1, <1>2 DEF RoundBounded, Socks
<1>4. Left' \subseteq Left \ {Current}
  BY <1>2, LeftBehind
\* The sockets behind the current one belong to other peers.
<1>5. ASSUME NEW g \in Left'
      PROVE  /\ g \in Socks /\ g # Current /\ Ready(g)
             /\ g # srvsock => owner[g] # c /\ owner[g] \in Peers
  <2>1. g \in Left /\ g # Current /\ g \in Socks
    BY <1>4 DEF Left, NetTypeOK
  <2>2. Ready(g)
    BY <2>1 DEF NeverBlocks
  <2> QED
    BY <1>1, <2>1, <2>2 DEF Ready, WatchesAll, NetTypeOK
<1>6. CASE unread[c] > 0
  <2>1. /\ unread' = [unread EXCEPT ![c] = unread[c] - 1]
        /\ goon' \in BOOLEAN /\ serving' \in {"round", "sending", "killed"}
        /\ UNCHANGED << socksfd, owner, gone >>
    BY <1>6 DEF GotBytes
  <2>2. NetTypeOK'
    BY <1>1, <1>2, <1>3, <1>6, <2>1 DEF NetTypeOK
  <2>3. \A g \in Left' : Ready(g)'
    BY <1>1, <1>2, <1>5, <2>1 DEF Ready, NetTypeOK
  <2>4. WatchesAll'
    BY <1>2, <2>1 DEF WatchesAll, Owners
  <2> QED
    BY <1>3, <2>1, <2>2, <2>3, <2>4 DEF NeverBlocks
<1>7. CASE ~ (unread[c] > 0)
  <2>1. /\ goon' \in BOOLEAN /\ socksfd' = socksfd \ {Current}
        /\ owner' = [owner EXCEPT ![Current] = NoPeer]
        /\ Forgotten(c) /\ UNCHANGED serving
    BY <1>7 DEF GotBytes, Watched
  <2>2. NetTypeOK'
    BY <1>1, <1>2, <1>3, <2>1 DEF NetTypeOK, Forgotten
  <2>3. owner'[Current] = NoPeer /\ \A g \in Socks : g # Current => owner'[g] = owner[g]
    BY <1>1, <2>1 DEF NetTypeOK
  <2>4. \A g \in Left' : Ready(g)'
    BY <1>1, <1>2, <1>5, <2>1, <2>3 DEF Ready, NetTypeOK, Forgotten
  <2>5. Owners' \subseteq Owners
    BY <2>3 DEF Owners
  <2>6. WatchesAll'
    <3>1. socksfd' = {srvsock} \cup {g \in Socks : owner'[g] # NoPeer}
      BY <1>1, <2>1, <2>3 DEF WatchesAll
    <3>2. \A g, k \in Socks : owner'[g] = owner'[k] /\ owner'[g] # NoPeer => g = k
      BY <2>3 DEF WatchesAll
    <3>3. \A i \in 1 .. Len(backlog') : backlog'[i] \notin Owners'
      BY <1>2, <2>5 DEF WatchesAll
    <3>4. \A g \in socksfd' : g <= maxsock'
      BY <1>2, <2>1 DEF WatchesAll
    <3> QED
      BY <1>2, <3>1, <3>2, <3>3, <3>4 DEF WatchesAll
  <2> QED
    BY <1>3, <2>1, <2>2, <2>4, <2>6 DEF NeverBlocks
<1> QED
  BY <1>6, <1>7

LEMMA NextNet == ASSUME NetInv, [NetNext]_netvars PROVE NetInv'
<1> USE DEF NetInv
<1>1. CASE PeerMoves
  BY <1>1, PeersNet
<1>2. CASE Select
  <2>1. /\ serving' = "round" /\ sock' = 1
        /\ rdsocks' = {f \in socksfd : f <= maxsock /\ Ready(f)}
        /\ UNCHANGED << maxsock, socksfd, goon, peers >>
    BY <1>2 DEF Select
  <2>2. NetTypeOK'
    BY <2>1 DEF NetTypeOK, peers
  <2>3. \A f : Ready(f) => Ready(f)'
    BY <2>1 DEF Ready, peers
  <2>4. NeverBlocks'
    BY <2>1, <2>3 DEF NeverBlocks, Left
  <2>5. WatchesAll' /\ RoundBounded'
    BY <2>1 DEF WatchesAll, Owners, RoundBounded, peers
  <2> QED
    BY <2>1, <2>2, <2>4, <2>5
<1>3. CASE Timeout \/ Interrupted \/ EndRound
  <2>0. goon' \in BOOLEAN
    <3>1. (Interrupted \/ EndRound) => goon' = goon
      BY DEF Interrupted, EndRound
    <3>2. Timeout => goon' \in BOOLEAN
      BY DEF Timeout
    <3> QED
      BY <1>3, <3>1, <3>2 DEF NetTypeOK
  <2>1. /\ serving' \in {"select", "stopped"}
        /\ UNCHANGED << maxsock, socksfd, peers >>
        /\ UNCHANGED << rdsocks, sock >> \/ (rdsocks' = {} /\ sock' = 1)
    <3>1. CASE Timeout
      BY <3>1 DEF Timeout
    <3>2. CASE Interrupted
      BY <3>2 DEF Interrupted
    <3>3. CASE EndRound
      BY <3>3 DEF EndRound
    <3> QED
      BY <1>3, <3>1, <3>2, <3>3
  <2>2. NetTypeOK'
    BY <2>0, <2>1 DEF NetTypeOK, peers
  <2>3. NeverBlocks' /\ RoundBounded'
    BY <2>1 DEF NeverBlocks, RoundBounded
  <2>4. WatchesAll'
    BY <2>1 DEF WatchesAll, Owners, peers
  <2> QED
    BY <2>1, <2>2, <2>3, <2>4
<1>4. CASE Serve
  BY <1>4, NewConnNet, GotBytesNet DEF Serve
<1>6. CASE Sent
  <2>1. /\ serving = "sending" /\ serving' \in {"round", "killed"}
        /\ UNCHANGED << maxsock, socksfd, rdsocks, sock, goon, peers >>
    BY <1>6 DEF Sent
  <2>2. NetTypeOK' /\ NeverBlocks' /\ WatchesAll' /\ RoundBounded'
    BY <2>1 DEF NetTypeOK, NeverBlocks, Left, Ready, WatchesAll, Owners, RoundBounded, peers
  <2> QED
    BY <2>1, <2>2
<1>5. CASE UNCHANGED netvars
  BY <1>5 DEF netvars, server, peers, NetTypeOK, NeverBlocks, Left, Ready, WatchesAll, Owners, RoundBounded
<1> QED
  BY <1>1, <1>2, <1>3, <1>4, <1>5, <1>6 DEF NetNext, ServerStep

(* The server never waits in recv or accept, and the set it gives to select *)
(* is that of its connections: for every number of peers and sockets.       *)
THEOREM OnlyReadyServed == NetSpec => []ServesOnlyReady
<1>1. NetInv => ServesOnlyReady
  BY DEF NetInv, ServesOnlyReady
<1> QED
  BY InitNet, NextNet, <1>1, PTL DEF NetSpec

=============================================================================
