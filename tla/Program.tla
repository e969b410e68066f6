------------------------------ MODULE Program -------------------------------
(***************************************************************************)
(* A program that uses exceptions, the log and the memory tracer.  They    *)
(* meet in the log file, which every traced allocation prints to, and in   *)
(* the C stack, which a throw unwinds under the feet of a logwatch.        *)
(***************************************************************************)
EXTENDS Tracing, MemCheck

vars == << blocks, log, mem >>

Init ==
  /\ run = "yes" /\ scopes = <<>> /\ jmp = 0 /\ watch = 0 /\ left = FALSE
  /\ file = "none" /\ num = 0 /\ fails = 0 /\ dbg = UTL_LOG_T /\ prd = UTL_LOG_T
  /\ MemInit

Trace ==
  /\ \/ EnterTry \/ LeaveTry \/ Throw
     \/ LogOpen \/ LogClose \/ LogCheck \/ LogAssert \/ SetLevel
     \/ EnterWatch \/ Message \/ LeaveWatch \/ ReadDeadWatch
  /\ UNCHANGED mem

\* A call of the tracer prints; a write into a block does not.
Allocation ==
  /\ run = "yes"
  /\ \/ (Malloc \/ Free \/ Realloc) /\ file' = Opened(file)
     \/ Overrun /\ UNCHANGED file
  /\ UNCHANGED << blocks, num, fails, dbg, prd >>

Next == Trace \/ Allocation

Spec == Init /\ [][Next]_vars

-----------------------------------------------------------------------------
(* Properties *)

Scope ==
  [kind : {"try"}, body : BOOLEAN, catches : SUBSET Excs, prv : 0 .. MaxDepth]
  \cup [kind : {"watch"}, prv : 0 .. MaxDepth, want : SUBSET Pats, ban : SUBSET Pats,
        todo : SUBSET Pats, seen : SUBSET Pats]

TypeOK ==
  /\ run \in {"yes", "aborted", "undefined"}
  /\ scopes \in Seq(Scope) /\ Depth <= MaxDepth
  /\ jmp \in 0 .. MaxDepth /\ watch \in 0 .. MaxDepth /\ left \in BOOLEAN

\* Block i is where a throw should go: a try block whose body is running.
Armed(i) == scopes[i].kind = "try" /\ scopes[i].body

\* d is the innermost armed block of the first n, or 0.
IsInnermostArmed(d, n) ==
  /\ d \in 0 .. n
  /\ d > 0 => Armed(d)
  /\ \A i \in d + 1 .. n : ~ Armed(i)

\* utl_jmp_list is the innermost try block whose body is running, however the
\* blocks inside it were left and whichever clauses are running now: a throw
\* never jumps into a function that has returned, nor back into the block whose
\* clause throws (UTL_TRY_INIT, utl_catch, catchall).
ThrowFindsHandler == IsInnermostArmed(jmp, Depth)

\* utl_log_watch is the innermost live logwatch block as long as no exception
\* has left one.
WatchIsLive == left \/ watch = Innermost

\* Both pointers into the C stack are live and the innermost of their kind.
ScopesAgree == ThrowFindsHandler /\ WatchIsLive

\* doc/log.md: when a watched block ends, exactly the wanted patterns that no
\* message has matched while the block was the innermost one become failures,
\* and no pattern is counted twice, whatever blocks were entered, left and
\* unwound in between.
ReportsAreRight ==
  [][LeaveWatch /\ dbg <= UTL_LOG_D =>
       /\ fails' - fails = Cardinality(Top.want \ Top.seen)
       /\ num' - num = Cardinality(Top.want \ Top.seen) + Cardinality(Top.ban)]_vars
=============================================================================
