------------------------------ MODULE Tracing -------------------------------
(***************************************************************************)
(* Exceptions (utl_try.h) and logging (utl_log.c, utl_log.h) in one        *)
(* program.  Both keep a global pointer into the C stack: utl_jmp_list to  *)
(* the try block a throw jumps to, utl_log_watch to the logwatch block     *)
(* whose patterns the messages are checked against.                        *)
(*                                                                         *)
(* `scopes' is the stack of the live try and logwatch blocks; a pointer to *)
(* a block is its depth, 0 is NULL.  A message stands for the set of the   *)
(* patterns it matches.                                                    *)
(***************************************************************************)
EXTENDS Integers, Sequences, FiniteSets

CONSTANTS
  Excs,       \* exception numbers
  Pats,       \* patterns
  Levels,     \* the levels the program sets
  MaxDepth,   \* bound: blocks that are live at once
  MaxCount    \* bound: checks counted in one log

ASSUME BoundsAssumption == MaxDepth \in Nat /\ MaxCount \in Nat /\ IsFiniteSet(Pats)

VARIABLES
  run,           \* "yes"; "aborted" by logassert; "undefined" after a dangling read
  scopes,
  jmp,           \* utl_jmp_list
  watch,         \* utl_log_watch
  left,          \* history: an exception has left a logwatch block
  file,          \* utl_log_file: "none" (NULL), "stderr" or "log"
  num, fails,    \* utl_log_check_num, utl_log_check_fail
  dbg, prd       \* utl_log_dbglvl, utl_log_prdlvl

blocks == << run, scopes, jmp, watch, left >>
log == << file, num, fails, dbg, prd >>

UTL_LOG_N == 5
UTL_LOG_E == 4
UTL_LOG_D == 1
UTL_LOG_T == 0

Depth == Len(scopes)
Top == scopes[Depth]

-----------------------------------------------------------------------------
(* Try blocks.  `catches' are the exceptions its catch clauses name, all of   *)
(* them when there is a catchall; `body' is FALSE in a clause.                *)

EnterTry ==
  /\ run = "yes" /\ Depth < MaxDepth
  /\ \E C \in SUBSET Excs :
       scopes' = Append(scopes, [kind |-> "try", body |-> TRUE, catches |-> C, prv |-> jmp])
  /\ jmp' = Depth + 1
  /\ UNCHANGED << run, watch, left, log >>

\* The end of the body or of a clause.
LeaveTry ==
  /\ run = "yes" /\ Depth > 0 /\ Top.kind = "try"
  /\ jmp' = Top.prv
  /\ scopes' = SubSeq(scopes, 1, Depth - 1)
  /\ UNCHANGED << run, watch, left, log >>

\* Seeded fault: a clause runs with its own try block still in the list.
InClauseArmed(d) == /\ scopes' = [SubSeq(scopes, 1, d) EXCEPT ![d].body = FALSE]
                    /\ jmp' = d

InClause(d) == /\ scopes' = [SubSeq(scopes, 1, d) EXCEPT ![d].body = FALSE]
               /\ jmp' = scopes[d].prv

\* throw and rethrow, from whatever function: control goes to block jmp, the
\* blocks inside it are gone, and one of its clauses runs or, when none names
\* the exception, the program goes on behind it.  Without a try block a throw
\* does nothing.
Throw ==
  /\ run = "yes" /\ jmp > 0
  /\ \E x \in Excs :
       \/ x \in scopes[jmp].catches /\ InClause(jmp)
       \/ /\ x \notin scopes[jmp].catches
          /\ scopes' = SubSeq(scopes, 1, jmp - 1) /\ jmp' = scopes[jmp].prv
  /\ left' = (left \/ \E i \in jmp + 1 .. Depth : scopes[i].kind = "watch")
  /\ UNCHANGED << run, watch, log >>

-----------------------------------------------------------------------------
(* The log *)

\* utl_log_time, which every message calls: a closed log goes to stderr.
Opened(f) == IF f = "none" THEN "stderr" ELSE f

\* utl_log_check, ok times with success and ko times without.
Count(ok, ko) ==
  IF dbg > UTL_LOG_D THEN UNCHANGED << file, num, fails >>
  ELSE /\ num + ok + ko <= MaxCount
       /\ num' = num + ok + ko /\ fails' = fails + ko
       /\ file' = IF ok + ko > 0 THEN Opened(file) ELSE file

\* utl_log_open: fopen may fail; the message LOG START makes the file stderr then.
LogOpen ==
  /\ run = "yes"
  /\ \E f \in {"log", "none"} : file' = Opened(f)
  /\ num' = 0 /\ fails' = 0
  /\ UNCHANGED << blocks, dbg, prd >>

LogClose ==
  /\ run = "yes"
  /\ num' = 0 /\ fails' = 0 /\ file' = "none"
  /\ UNCHANGED << blocks, dbg, prd >>

LogCheck ==
  /\ run = "yes"
  /\ Count(1, 0) \/ Count(0, 1)
  /\ UNCHANGED << blocks, dbg, prd >>

\* A failed assertion closes the log and aborts, unless checks are turned off.
LogAssert ==
  /\ run = "yes" /\ dbg <= UTL_LOG_D
  /\ run' = "aborted"
  /\ num' = 0 /\ fails' = 0 /\ file' = "none"
  /\ UNCHANGED << scopes, jmp, watch, left, dbg, prd >>

\* utl_log_setlevel sets the level of the production messages, that of the
\* debugging ones, or both.
SetLevel ==
  /\ run = "yes"
  /\ dbg' \in (Levels \cap {UTL_LOG_T, UTL_LOG_D, UTL_LOG_N}) \cup {dbg}
  /\ prd' \in (Levels \ {UTL_LOG_D, UTL_LOG_T}) \cup {prd}
  /\ UNCHANGED << blocks, file, num, fails >>

-----------------------------------------------------------------------------
(* Watches.  `want' and `ban' are the patterns without and with a "!", `todo' *)
(* those of `want' still in the array; `seen' (history) all that came.        *)

Innermost == IF \E i \in 1 .. Depth : scopes[i].kind = "watch"
             THEN CHOOSE i \in 1 .. Depth :
                    /\ scopes[i].kind = "watch"
                    /\ \A j \in i + 1 .. Depth : scopes[j].kind # "watch"
             ELSE 0

Dangling == watch # Innermost

EnterWatch ==
  /\ run = "yes" /\ Depth < MaxDepth
  /\ \E W, B \in SUBSET Pats :
       /\ W \cap B = {} /\ W \cup B # {}
       /\ scopes' = Append(scopes, [kind |-> "watch", prv |-> watch, want |-> W, ban |-> B,
                                    todo |-> W, seen |-> {}])
  /\ watch' = Depth + 1
  /\ file' = IF dbg <= UTL_LOG_D THEN Opened(file) ELSE file
  /\ UNCHANGED << run, jmp, left, num, fails, dbg, prd >>

\* Seeded fault: a pattern that was found stays in the array.
RemainingAll(s, msg) == s.todo

Remaining(s, msg) == s.todo \ msg

\* logtrace, logdebug, loginfo and logerror with a message that is printed:
\* utl_log_watch_check on the innermost watch.
Message ==
  /\ run = "yes" /\ ~ Dangling
  /\ dbg <= UTL_LOG_D \/ prd <= UTL_LOG_E
  /\ \E msg \in SUBSET Pats :
       IF watch = 0 THEN file' = Opened(file) /\ UNCHANGED << scopes, num, fails >>
       ELSE LET s == scopes[watch] IN
            /\ scopes' = [scopes EXCEPT ![watch].todo = Remaining(s, msg), ![watch].seen = @ \cup msg]
            /\ IF dbg > UTL_LOG_D THEN file' = Opened(file) /\ UNCHANGED << num, fails >>
               ELSE LET ok == Cardinality(s.todo \cap msg)
                        ko == Cardinality(s.ban \cap msg)
                    IN /\ num + ok + ko <= MaxCount
                       /\ num' = num + ok + ko /\ fails' = fails + ko /\ file' = Opened(file)
  /\ UNCHANGED << run, jmp, watch, left, dbg, prd >>

\* utl_log_watch_last: what was wanted and has not come is a failure, what was
\* banned is reported as a success.
LeaveWatch ==
  /\ run = "yes" /\ Depth > 0 /\ Top.kind = "watch" /\ ~ Dangling
  /\ Count(Cardinality(Top.ban), Cardinality(Top.todo))
  /\ watch' = Top.prv
  /\ scopes' = SubSeq(scopes, 1, Depth - 1)
  /\ UNCHANGED << run, jmp, left, dbg, prd >>

\* A message or the end of a watch with utl_log_watch pointing at a dead block.
ReadDeadWatch ==
  /\ run = "yes" /\ Dangling
  /\ run' = "undefined"
  /\ UNCHANGED << scopes, jmp, watch, left, log >>

=============================================================================
