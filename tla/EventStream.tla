----------------------------- MODULE EventStream -----------------------------
(***************************************************************************)
(* What the event pipeline promises its reader: the memory manager numbers *)
(* its events, the reader gets them in that order and each of them once,   *)
(* an event is lost only while as many wait as the pipeline can hold, and  *)
(* all that wait are delivered, even after the pipeline has been closed.   *)
(***************************************************************************)
EXTENDS Integers, Sequences

CONSTANT Cap   \* events that the pipeline holds before it may lose one

VARIABLES
    waiting,   \* the events accepted and not yet delivered
    count,     \* the number of the newest event
    open       \* the pipeline accepts events

stream == <<waiting, count, open>>

Init == waiting = <<>> /\ count = 0 /\ open = TRUE

Accept ==
    /\ open /\ count' = count + 1 /\ waiting' = Append(waiting, count + 1)
    /\ UNCHANGED open

Lose ==
    /\ open /\ Len(waiting) >= Cap /\ count' = count + 1
    /\ UNCHANGED <<waiting, open>>

Deliver ==
    /\ waiting # <<>> /\ waiting' = Tail(waiting)
    /\ UNCHANGED <<count, open>>

Close == open /\ open' = FALSE /\ UNCHANGED <<waiting, count>>

Next == Accept \/ Lose \/ Deliver \/ Close

\* What may happen, and then also what has to.
Safety == Init /\ [][Next]_stream
Spec == Safety /\ WF_stream(Deliver)

=============================================================================
