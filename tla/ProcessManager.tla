--------------------------- MODULE ProcessManager ---------------------------
(***************************************************************************)
(* internal/process/manager.go over the process tables of the memory       *)
(* manager.  The process manager keeps a map of its own, guarded by pm.mu, *)
(* beside the page tables that mm.mu guards, and no operation holds both   *)
(* while it changes both.  Callers (HTTP handlers, the simulator) run its  *)
(* operations concurrently: each operation is a sequence of actions of one *)
(* thread, one for each critical section or atomic counter.                *)
(***************************************************************************)
EXTENDS Integers, FiniteSets

CONSTANTS
    Threads,
    MaxPID,     \* bound: process numbers drawn from nextPID in a behaviour
    MaxActive,  \* bound: the value of ActiveProcesses from which no process is made
    Ops         \* the operations that callers use, of AllOps

AllOps == {"create", "terminate", "fork", "access", "reset"}

ASSUME ThreadsAssumption == IsFiniteSet(Threads)
ASSUME MaxPIDAssumption == MaxPID \in Nat /\ MaxPID >= 1
ASSUME MaxActiveAssumption == MaxActive \in Nat
ASSUME OpsAssumption == Ops \subseteq AllOps

VARIABLES
    processes,  \* pm.processes: the process numbers that callers can see
    nextPID,    \* pm.nextPID
    tables,     \* mm.pageTables (and the other per-process maps of the memory manager)
    active,     \* metrics.ActiveProcesses
    wasReset,   \* history: somebody has called Reset
    missed,     \* history: PIDs whose termination found no page table to remove
    call        \* the operation in flight of each thread

pm == <<processes, nextPID, wasReset>>
mm == <<tables, active, missed>>
vars == <<pm, mm, call>>

PIDs == 1 .. MaxPID

\* Where the operation of a thread is: the step it takes next.
Steps == {"idle", "createTable", "publish", "removeTable", "forkDraw", "forkPublish",
          "forkTable", "unpublish", "access", "resetRemove", "resetMM"}
Call == [at : Steps, pid : PIDs, parent : PIDs, todo : SUBSET PIDs]
Idle == [at |-> "idle", pid |-> 1, parent |-> 1, todo |-> {}]

Init ==
    /\ processes = {} /\ nextPID = 1 /\ wasReset = FALSE
    /\ tables = {} /\ active = 0 /\ missed = {}
    /\ call = [t \in Threads |-> Idle]

Goto(t, c) == call' = [call EXCEPT ![t] = c]
At(t, step) == call[t].at = step
Step(t, step) == Goto(t, [call[t] EXCEPT !.at = step])
Return(t) == Goto(t, Idle)
Begin(t, op) == At(t, "idle") /\ op \in Ops

\* pm.mu is free: only Reset keeps it across steps.
Unlocked == \A t \in Threads : ~At(t, "resetRemove")

\* The bounds: numbers are left for the forks that have yet to draw one, and the
\* metric, which resets may leave too high, has not grown without end.
Drawing == {t \in Threads : At(t, "forkDraw")}
Room == nextPID + Cardinality(Drawing) < MaxPID /\ active < MaxActive

\* Mutant: the metric is decremented before the table is looked up.
RemoveTableBlind(pid) == tables' = tables \ {pid} /\ active' = active - 1

\* memoryManager.RemoveProcess; a PID without a table is an error that changes
\* nothing, and that Reset ignores.
RemoveTable(pid) ==
    /\ tables' = tables \ {pid}
    /\ active' = IF pid \in tables THEN active - 1 ELSE active

-----------------------------------------------------------------------------
(* CreateProcess *)

CreateProcess(t) ==
    /\ Begin(t, "create") /\ Room
    /\ nextPID' = nextPID + 1
    /\ Goto(t, [Idle EXCEPT !.at = "createTable", !.pid = nextPID + 1])
    /\ UNCHANGED <<processes, wasReset, mm>>

\* Mutant: the process is published before its page table exists.
CreateTableLate(t) ==
    LET pid == call[t].pid
    IN  /\ At(t, "createTable")
        /\ Unlocked
        /\ processes' = processes \cup {pid}
        /\ IF pid \in processes
           THEN tables' = tables \cup {pid} /\ active' = active + 1 /\ Return(t)
           ELSE UNCHANGED <<tables, active, call>>
        /\ UNCHANGED <<nextPID, wasReset, missed>>

\* memoryManager.CreateProcess, which refuses a PID that it knows.
CreateTable(t) ==
    LET pid == call[t].pid
    IN  /\ At(t, "createTable")
        /\ IF pid \in tables
           THEN UNCHANGED <<tables, active>> /\ Return(t)
           ELSE /\ tables' = tables \cup {pid} /\ active' = active + 1
                /\ Step(t, "publish")
        /\ UNCHANGED <<pm, missed>>

CreatePublish(t) ==
    /\ At(t, "publish") /\ Unlocked
    /\ processes' = processes \cup {call[t].pid}
    /\ Return(t)
    /\ UNCHANGED <<nextPID, wasReset, mm>>

-----------------------------------------------------------------------------
(* TerminateProcess *)

\* Mutant: the memory manager is not told.
TerminateForget(t, pid) ==
    /\ Begin(t, "terminate") /\ Unlocked
    /\ pid \in processes
    /\ processes' = processes \ {pid}
    /\ UNCHANGED <<nextPID, wasReset, mm, call>>

TerminateProcess(t, pid) ==
    /\ Begin(t, "terminate") /\ Unlocked
    /\ pid \in processes
    /\ processes' = processes \ {pid}
    /\ Goto(t, [Idle EXCEPT !.at = "removeTable", !.pid = pid])
    /\ UNCHANGED <<nextPID, wasReset, mm>>

\* Mutant: the number of the newest process is given back.
TerminateGivesBack(t) ==
    /\ At(t, "removeTable")
    /\ RemoveTable(call[t].pid)
    /\ missed' = missed \cup ({call[t].pid} \ tables)
    /\ nextPID' = IF call[t].pid = nextPID THEN nextPID - 1 ELSE nextPID
    /\ Return(t)
    /\ UNCHANGED <<processes, wasReset>>

TerminateRemove(t) ==
    /\ At(t, "removeTable")
    /\ RemoveTable(call[t].pid)
    /\ missed' = missed \cup ({call[t].pid} \ tables)
    /\ Return(t)
    /\ UNCHANGED pm

-----------------------------------------------------------------------------
(* ForkProcess *)

ForkProcess(t, parent) ==
    /\ Begin(t, "fork") /\ Unlocked /\ Room
    /\ parent \in processes
    /\ Goto(t, [Idle EXCEPT !.at = "forkDraw", !.parent = parent])
    /\ UNCHANGED <<pm, mm>>

\* Mutant: the child's number is read, not drawn.
ForkPeek(t) ==
    /\ At(t, "forkDraw")
    /\ Goto(t, [call[t] EXCEPT !.at = "forkPublish", !.pid = nextPID + 1])
    /\ UNCHANGED <<pm, mm>>

ForkDraw(t) ==
    /\ At(t, "forkDraw")
    /\ nextPID' = nextPID + 1
    /\ Goto(t, [call[t] EXCEPT !.at = "forkPublish", !.pid = nextPID + 1])
    /\ UNCHANGED <<processes, wasReset, mm>>

\* The child is visible before it has a page table.
ForkPublish(t) ==
    /\ At(t, "forkPublish") /\ Unlocked
    /\ processes' = processes \cup {call[t].pid}
    /\ Step(t, "forkTable")
    /\ UNCHANGED <<nextPID, wasReset, mm>>

\* Mutant: the metric misses forked processes.
ForkTableUncounted(t) ==
    /\ At(t, "forkTable")
    /\ IF call[t].parent \in tables
       THEN tables' = tables \cup {call[t].pid} /\ Return(t)
       ELSE UNCHANGED tables /\ Step(t, "unpublish")
    /\ UNCHANGED <<pm, active, missed>>

\* Mutant: the fork waits until its parent has a table.
ForkTableWaits(t) ==
    /\ At(t, "forkTable")
    /\ IF call[t].parent \in tables
       THEN /\ tables' = tables \cup {call[t].pid} /\ active' = active + 1
            /\ Return(t)
       ELSE UNCHANGED <<tables, active, call>>
    /\ UNCHANGED <<pm, missed>>

\* memoryManager.ForkProcess: fails if the parent's table is gone, and replaces
\* the table of a child that it knows.
ForkTable(t) ==
    /\ At(t, "forkTable")
    /\ IF call[t].parent \in tables
       THEN /\ tables' = tables \cup {call[t].pid} /\ active' = active + 1
            /\ Return(t)
       ELSE UNCHANGED <<tables, active>> /\ Step(t, "unpublish")
    /\ UNCHANGED <<pm, missed>>

\* The error path takes the child back.
ForkUnpublish(t) ==
    /\ At(t, "unpublish") /\ Unlocked
    /\ processes' = processes \ {call[t].pid}
    /\ Return(t)
    /\ UNCHANGED <<nextPID, wasReset, mm>>

-----------------------------------------------------------------------------
(* AccessMemory, and the reset of HandleReset *)

AccessMemory(t, pid) ==
    /\ Begin(t, "access") /\ Unlocked
    /\ pid \in processes
    /\ Goto(t, [Idle EXCEPT !.at = "access", !.pid = pid])
    /\ UNCHANGED <<pm, mm>>

\* memoryManager.AccessMemory: an error if the PID has no table.  What a served
\* access does to memory is module MemoryManager.
AccessServe(t) ==
    /\ At(t, "access")
    /\ Return(t)
    /\ UNCHANGED <<pm, mm>>

\* ProcessManager.Reset takes pm.mu ...
Reset(t) ==
    /\ Begin(t, "reset") /\ Unlocked
    /\ Goto(t, [Idle EXCEPT !.at = "resetRemove", !.todo = processes])
    /\ wasReset' = TRUE
    /\ UNCHANGED <<processes, nextPID, mm>>

\* Mutant: a process that the memory manager does not know is tried again.
ResetRemoveRetry(t, pid) ==
    /\ At(t, "resetRemove") /\ pid \in call[t].todo
    /\ RemoveTable(pid)
    /\ Goto(t, [call[t] EXCEPT !.todo = IF pid \in tables THEN @ \ {pid} ELSE @])
    /\ UNCHANGED <<pm, missed>>

\* ... removes one process after the other from the memory manager ...
ResetRemove(t, pid) ==
    /\ At(t, "resetRemove") /\ pid \in call[t].todo
    /\ RemoveTable(pid)
    /\ Goto(t, [call[t] EXCEPT !.todo = @ \ {pid}])
    /\ UNCHANGED <<pm, missed>>

\* ... and forgets them; HandleReset goes on with the memory manager.
ResetForget(t) ==
    /\ At(t, "resetRemove") /\ call[t].todo = {}
    /\ processes' = {} /\ nextPID' = 1
    /\ Step(t, "resetMM")
    /\ UNCHANGED <<wasReset, mm>>

\* memoryManager.Reset drops the tables that are left, those of a fork or a creation
\* that was in progress, and Metrics.Reset leaves ActiveProcesses as it is.
ResetMM(t) ==
    /\ At(t, "resetMM")
    /\ tables' = {} /\ missed' = {}
    /\ Return(t)
    /\ UNCHANGED <<pm, active>>

-----------------------------------------------------------------------------

Continue(t) ==
    \/ CreateTable(t) \/ CreatePublish(t)
    \/ TerminateRemove(t)
    \/ ForkDraw(t) \/ ForkPublish(t) \/ ForkTable(t) \/ ForkUnpublish(t)
    \/ AccessServe(t)
    \/ (\E pid \in PIDs : ResetRemove(t, pid)) \/ ResetForget(t) \/ ResetMM(t)

Start(t) ==
    \/ CreateProcess(t) \/ Reset(t)
    \/ \E pid \in PIDs : TerminateProcess(t, pid) \/ ForkProcess(t, pid) \/ AccessMemory(t, pid)

Next == \E t \in Threads : Start(t) \/ Continue(t)

Spec == Init /\ [][Next]_vars

\* Goroutines are scheduled fairly, and Go's mutexes let no waiter starve: an
\* operation that has begun goes on whenever pm.mu is free again and again.
FairSpec == Spec /\ \A t \in Threads : SF_vars(Continue(t))

-----------------------------------------------------------------------------
(* Properties *)

\* Every variable has its type: in particular nextPID stays within the numbers, and
\* the metric ActiveProcesses never drops below zero.
Typed ==
    /\ processes \subseteq PIDs /\ nextPID \in PIDs
    /\ tables \subseteq PIDs /\ active \in Nat /\ missed \subseteq PIDs
    /\ call \in [Threads -> Call]
TypeOK == Typed /\ wasReset \in BOOLEAN

\* Threads that are making process pid, by CreateProcess or by ForkProcess, and
\* those that are about to remove it.
Creating(t, pid) == call[t].pid = pid /\ call[t].at \in {"createTable", "publish"}
Forking(t, pid) ==
    call[t].pid = pid /\ call[t].at \in {"forkPublish", "forkTable", "unpublish"}
Making(t, pid) == Creating(t, pid) \/ Forking(t, pid)
Removing(t, pid) == call[t].pid = pid /\ At(t, "removeTable")

\* A process that callers see has a page table, or is the child of a fork in progress.
SeenTabled ==
    \A pid \in processes \ tables : \E t \in Threads : Forking(t, pid)

\* A page table belongs to a process that is visible, or that some operation has in
\* hand, or that was terminated before there was a table to remove.
TableOwned ==
    \A pid \in tables \ processes :
        \/ pid \in missed
        \/ \E t \in Threads : Making(t, pid) \/ Removing(t, pid)

TablesCounted == active = Cardinality(tables)

\* Two operations in flight never make the same process, and none makes one that exists.
NumbersApart ==
    /\ \A t, u \in Threads, pid \in PIDs : t # u /\ Making(t, pid) => ~Making(u, pid)
    /\ \A t \in Threads : call[t].at \in {"createTable", "forkPublish"}
         => call[t].pid \notin processes \cup tables

\* "eliminates the window where a concurrent GetProcess or AccessMemory call could
\* observe a process with no page table" (CreateProcess): until somebody resets, a
\* process that callers see has a page table, or is the child of a fork in progress.
\* A reset between the two critical sections of CreateProcess opens the window again.
VisibleHasTable == ~wasReset => SeenTabled

\* Until somebody resets, no page table is lost: its process is visible, or some
\* operation has it in hand, or it was terminated while its fork was in progress,
\* before there was a table to remove.  That last case is a leak for good: no
\* operation can reach the process any more.
TableHasOwner == ~wasReset => TableOwned

\* Until somebody resets, nextPID hands out every number once: two operations in
\* flight never make the same process, and none makes one that exists, which
\* ForkProcess of the memory manager would not notice.
PIDsUnique == ~wasReset => NumbersApart

\* Until somebody resets, the metric ActiveProcesses counts the page tables, whatever
\* is created, forked and terminated concurrently.
ActiveCounts == ~wasReset => TablesCounted

\* Resets leave the metric alone, and may drop tables that it counts: whatever the
\* interleaving with resets, it never falls below the number of page tables, so that it
\* cannot become negative when they are removed.
NeverUndercounts == active >= Cardinality(tables)

\* A child that is visible without a page table does not stay so: the fork gives it
\* one or takes it back, unless somebody resets.
ForkSettles ==
    \A pid \in PIDs :
        pid \in processes \ tables /\ ~wasReset
            ~> pid \in tables \/ pid \notin processes \/ wasReset

\* Every operation ends: nobody waits for ever for pm.mu, which Reset holds through its
\* loop over all processes, and that loop ends.  The sections of the memory manager are
\* single steps here, so that this says nothing of waiting for mm.mu.
OperationsEnd == \A t \in Threads : ~At(t, "idle") ~> At(t, "idle")

-----------------------------------------------------------------------------
(* What the operations amount to: the abstract life of a process number.      *)

\* A number is unborn until its table is made, although it is drawn, published and
\* even terminated before; it is dead when nobody can still make its table.
LifeOf(pid) ==
    IF pid \in tables THEN "alive"
    ELSE IF pid > nextPID \/ (\E t \in Threads : Making(t, pid)) THEN "unborn"
    ELSE "dead"

\* The first number that is drawn is 2.
Numbers == PIDs \ {1}
Life == INSTANCE ProcessLife WITH PIDs <- Numbers, life <- [pid \in Numbers |-> LifeOf(pid)]

\* The interleaved steps of creations, forks, terminations and their failures amount,
\* until somebody resets, to numbers that are each born once at most and that never
\* come back.
LivesOnce == Life!Spec

-----------------------------------------------------------------------------
(* The inductive invariant behind the properties that hold until a reset.     *)

\* Numbers that have not been drawn are unknown everywhere.
Drawn ==
    /\ \A pid \in processes \cup tables : pid <= nextPID
    /\ \A t \in Threads : call[t].at \notin {"idle", "forkDraw"} => call[t].pid <= nextPID

\* The numbers left suffice for the forks that have yet to draw one.
Budget == nextPID + Cardinality(Drawing) <= MaxPID

\* A process about to be published has a table; the child of a fork has none yet.
Tabled ==
    \A t \in Threads :
        /\ At(t, "publish") => call[t].pid \in tables \ processes
        /\ call[t].at \in {"forkTable", "unpublish"} => call[t].pid \notin tables

\* A process being removed is not visible, and nobody is still making it.
RemovedUnseen ==
    \A t \in Threads : At(t, "removeTable") =>
        /\ call[t].pid \notin processes
        /\ \A u \in Threads : call[u].at \in {"createTable", "publish", "forkPublish"} =>
              call[u].pid # call[t].pid

\* A child that has been published stays visible unless it is terminated.
ForkSeen ==
    \A t \in Threads : At(t, "forkTable") =>
        \/ call[t].pid \in processes \cup missed
        \/ \E u \in Threads : Removing(u, call[t].pid)

NotResetting == \A t \in Threads : call[t].at \notin {"resetRemove", "resetMM"}

Sound ==
    /\ Typed /\ NotResetting /\ Budget /\ Drawn /\ Tabled /\ RemovedUnseen /\ ForkSeen
    /\ NumbersApart /\ TablesCounted /\ SeenTabled /\ TableOwned

IInv == wasReset \in BOOLEAN /\ (~wasReset => Sound)

=============================================================================
