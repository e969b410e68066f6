-------------------------------- MODULE Fifo --------------------------------
(***************************************************************************)
(* What a clibutl queue promises its callers (the "// Queue" macros of     *)
(* utl_vec.h: vecenq, vecdeq, vecdeqall): a sequence of values, oldest     *)
(* first.  The detailed module VecQueue is shown to implement it.          *)
(***************************************************************************)
EXTENDS Sequences

CONSTANT Values      \* what may be enqueued

VARIABLE queue       \* the values held, oldest first

TypeOK == queue \in Seq(Values)

Init == queue = << >>

\* vecenq, when memory allows it
Enqueue(e) == queue' = Append(queue, e)

\* vecdeq drops the oldest value; an empty queue stays empty
Dequeue == /\ queue # << >>
           /\ queue' = Tail(queue)

\* vecdeqall
DequeueAll == queue' = << >>

Next == \/ \E e \in Values : Enqueue(e)
        \/ Dequeue
        \/ DequeueAll

Spec == Init /\ [][Next]_queue
=============================================================================
