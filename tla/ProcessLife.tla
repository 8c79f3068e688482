----------------------------- MODULE ProcessLife -----------------------------
(***************************************************************************)
(* What the process manager and the memory manager promise together of the *)
(* numbers they hand out: each process is born, lives and dies in one step *)
(* each, a creation may fail, and no number is used twice.  The promise    *)
(* ends with the first reset, which numbers processes from 1 again while   *)
(* operations are in progress.                                             *)
(***************************************************************************)
CONSTANT PIDs

VARIABLES
    life,      \* the life of each process number
    wasReset   \* somebody has called Reset

Lives == [PIDs -> {"unborn", "alive", "dead"}]

Init == life = [pid \in PIDs |-> "unborn"] /\ wasReset = FALSE

Turns(pid, from, to) ==
    /\ ~wasReset /\ life[pid] = from
    /\ life' = [life EXCEPT ![pid] = to]
    /\ UNCHANGED wasReset

Birth(pid) == Turns(pid, "unborn", "alive")
\* A fork whose parent is gone.
Stillbirth(pid) == Turns(pid, "unborn", "dead")
Death(pid) == Turns(pid, "alive", "dead")

\* From the first reset on anything may happen to the numbers.
Reset == wasReset' = TRUE /\ life' \in Lives

Next == (\E pid \in PIDs : Birth(pid) \/ Stillbirth(pid) \/ Death(pid)) \/ Reset

Spec == Init /\ [][Next]_<<life, wasReset>>

=============================================================================
