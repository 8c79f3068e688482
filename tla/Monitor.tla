------------------------------- MODULE Monitor -------------------------------
(***************************************************************************)
(* internal/monitor/monitor.go and the event pipeline that feeds it.  The  *)
(* memory manager counts accesses and emits events into a bounded queue,   *)
(* whose worker hands them to Monitor.handleEvent: the event is logged and *)
(* then fanned out to subscribers.  The capture goroutine takes snapshots  *)
(* of the counters, decides from a window of them whether the system is    *)
(* thrashing, and calls handleEvent too.  Each critical section is one     *)
(* action.  An event of the memory manager is its number in the order of   *)
(* emission, "thrashing_detected" is Alarm.                                *)
(***************************************************************************)
EXTENDS Integers, Sequences, FiniteSets

CONSTANTS
    QueueCap,     \* capacity of eventCh (256)
    MaxEvents,    \* maxEvents of the log (500)
    MaxHistory,   \* maxHistory (1000)
    Window,       \* thrashWindow (5)
    Subs,         \* subscribers, each of which subscribes once
    SubCap,       \* capacity of a subscriber's channel (16 or more)
    MaxEmits,     \* bound: events emitted in a behaviour, and accesses
    MaxResets,    \* bound: resets in a behaviour, 0 or 1
    MaxAfter      \* bound: accesses after a reset

ASSUME CapsAssumption ==
    /\ {QueueCap, MaxEvents, MaxHistory, Window, SubCap} \subseteq Nat \ {0}
    /\ MaxEmits \in Nat /\ MaxResets \in {0, 1} /\ MaxAfter \in 0 .. MaxEmits

VARIABLES
    faults, accesses,  \* the metrics PageFaults and TotalAccesses
    queue, closed,     \* eventCh
    dropped,           \* the metric DroppedEvents
    history, log,      \* snapshots and events of the monitor
    thrashing,         \* isThrashing
    chan,              \* the channel of each subscriber, and whether it is subscribed
    run,               \* where the worker and the capture goroutine are
    local,             \* the capture goroutine's snapshot, then its verdict
    reset,             \* where HandleReset is
    stopped,           \* monitorStop is closed
    emitted, lost, resetAt  \* history: events emitted so far, those that found the
                            \* queue full, and how many there were at the last reset, or -1

metrics == <<faults, accesses, dropped>>
pipe == <<queue, closed, emitted, lost, resetAt>>
mon == <<history, log, thrashing, chan>>
vars == <<metrics, pipe, mon, run, local, reset, stopped>>

Alarm == 0
Agents == {"worker", "capture"}
Places == {"idle", "append", "read", "decide", "log", "copy", "send", "end"}
Idle == [at |-> "idle", event |-> Alarm, todo |-> {}]
Snapshot == [faults : Nat, accesses : Nat]
NoLocal == [snap |-> [faults |-> 0, accesses |-> 0], verdict |-> FALSE]

\* The last n elements of q, or all.
Last(q, n) == IF Len(q) > n THEN SubSeq(q, Len(q) - n + 1, Len(q)) ELSE q
Members(q) == {q[i] : i \in DOMAIN q}

Init ==
    /\ faults = 0 /\ accesses = 0 /\ dropped = 0
    /\ queue = <<>> /\ closed = FALSE /\ emitted = 0 /\ lost = {} /\ resetAt = -1
    /\ history = <<>> /\ log = <<>> /\ thrashing = FALSE
    /\ chan = [s \in Subs |-> [on |-> FALSE, used |-> FALSE, q |-> <<>>, got |-> 0]]
    /\ run = [a \in Agents |-> Idle]
    /\ local = NoLocal
    /\ reset = "idle" /\ stopped = FALSE

-----------------------------------------------------------------------------
(* The memory manager *)

\* Mutant: a full queue loses the event that has waited longest.
EmitDropOldest(d) ==
    IF closed THEN UNCHANGED <<queue, emitted, lost>> /\ dropped' = d
    ELSE /\ emitted' = emitted + 1
         /\ IF Len(queue) < QueueCap
            THEN queue' = Append(queue, emitted + 1) /\ dropped' = d /\ UNCHANGED lost
            ELSE /\ dropped' = d + 1 /\ lost' = lost \cup {Head(queue)}
                 /\ queue' = Append(Tail(queue), emitted + 1)

\* emitEvent, with d events dropped before it.  The send on a closed queue panics
\* and is recovered.
Emit(d) ==
    IF closed THEN UNCHANGED <<queue, emitted, lost>> /\ dropped' = d
    ELSE /\ emitted' = emitted + 1
         /\ IF Len(queue) < QueueCap
            THEN queue' = Append(queue, emitted + 1) /\ dropped' = d /\ UNCHANGED lost
            ELSE dropped' = d + 1 /\ lost' = lost \cup {emitted + 1} /\ UNCHANGED queue

\* The bound on accesses.
Room == accesses < IF resetAt = -1 THEN MaxEmits ELSE MaxAfter

\* AccessMemory under the write lock: a hit or a fault.
Access(fault) ==
    /\ emitted < MaxEmits /\ Room /\ Emit(dropped)
    /\ accesses' = accesses + 1
    /\ faults' = IF fault THEN faults + 1 ELSE faults
    /\ UNCHANGED <<closed, resetAt, mon, run, local, reset, stopped>>

\* A read that the TLB serves counts its hit under the lock and emits its event after
\* it has released it, which is an EmitEvent; a write to a shared page that cannot be
\* copied counts as a hit and emits nothing.
AccessFast ==
    /\ Room /\ accesses' = accesses + 1
    /\ UNCHANGED <<faults, dropped, pipe, mon, run, local, reset, stopped>>

\* That event, or one of a creation, a removal, a fork, an eviction, a copy or a huge
\* page, which count no access.
EmitEvent ==
    /\ emitted < MaxEmits /\ Emit(dropped)
    /\ UNCHANGED <<faults, accesses, closed, resetAt, mon, run, local, reset, stopped>>

-----------------------------------------------------------------------------
(* handleEvent, called by agent a *)

Goto(a, r) == run' = [run EXCEPT ![a] = r]
At(a, place) == run[a].at = place

\* Mutant: a full log loses the event that is new.
LogEventKeepOld(a) ==
    /\ At(a, "log")
    /\ log' = IF Len(log) < MaxEvents THEN Append(log, run[a].event) ELSE log
    /\ Goto(a, [run[a] EXCEPT !.at = "copy"])
    /\ UNCHANGED <<metrics, pipe, history, thrashing, chan, local, reset, stopped>>

LogEvent(a) ==
    /\ At(a, "log")
    /\ log' = Last(Append(log, run[a].event), MaxEvents)
    /\ Goto(a, [run[a] EXCEPT !.at = "copy"])
    /\ UNCHANGED <<metrics, pipe, history, thrashing, chan, local, reset, stopped>>

\* Where handleEvent is when the channels in S are left to send to.
Fan(a, S) == IF S = {} THEN Idle ELSE [run[a] EXCEPT !.at = "send", !.todo = S]

\* The channels are copied under the lock, and sent to outside of it.
CopySubs(a) ==
    /\ At(a, "copy")
    /\ Goto(a, Fan(a, {s \in Subs : chan[s].on}))
    /\ UNCHANGED <<metrics, pipe, mon, local, reset, stopped>>

\* Mutant: a send is tried again until the channel is full.
SendSubAgain(a, s) ==
    /\ At(a, "send") /\ s \in run[a].todo
    /\ IF Len(chan[s].q) < SubCap
       THEN chan' = [chan EXCEPT ![s].q = Append(@, run[a].event)] /\ UNCHANGED run
       ELSE Goto(a, Fan(a, run[a].todo \ {s})) /\ UNCHANGED chan
    /\ UNCHANGED <<metrics, pipe, history, log, thrashing, local, reset, stopped>>

SendSub(a, s) ==
    /\ At(a, "send") /\ s \in run[a].todo
    /\ chan' = IF Len(chan[s].q) < SubCap
               THEN [chan EXCEPT ![s].q = Append(@, run[a].event)] ELSE chan
    /\ Goto(a, Fan(a, run[a].todo \ {s}))
    /\ UNCHANGED <<metrics, pipe, history, log, thrashing, local, reset, stopped>>

HandleEvent(a) ==
    LogEvent(a) \/ CopySubs(a) \/ \E s \in Subs : SendSub(a, s)

-----------------------------------------------------------------------------
(* eventWorker *)

\* range over the queue: what is queued is taken before a close is noticed.
Take ==
    /\ At("worker", "idle")
    /\ IF queue # <<>>
       THEN /\ Goto("worker", [Idle EXCEPT !.at = "log", !.event = Head(queue)])
            /\ queue' = Tail(queue)
       ELSE closed /\ Goto("worker", [Idle EXCEPT !.at = "end"]) /\ UNCHANGED queue
    /\ UNCHANGED <<metrics, closed, emitted, lost, resetAt, mon, local, reset, stopped>>

-----------------------------------------------------------------------------
(* The capture goroutine *)

\* CaptureSnapshot reads the metrics ...
Capture ==
    /\ At("capture", "idle")
    /\ local' = [local EXCEPT !.snap = [faults |-> faults, accesses |-> accesses]]
    /\ Goto("capture", [Idle EXCEPT !.at = "append"])
    /\ UNCHANGED <<metrics, pipe, mon, reset, stopped>>

\* ... appends them to the history ...
AppendSnapshot ==
    /\ At("capture", "append")
    /\ history' = Last(Append(history, local.snap), MaxHistory)
    /\ Goto("capture", [Idle EXCEPT !.at = "read"]) /\ local' = NoLocal
    /\ UNCHANGED <<metrics, pipe, log, thrashing, chan, reset, stopped>>

\* The fault rate from snapshot a to snapshot b is at least thrashThreshold, 0.8.
Thrash(a, b) == 5 * (b.faults - a.faults) >= 4 * (b.accesses - a.accesses)

\* ... and judges the last Window of them, unless they span no access ...
DetectRead ==
    LET w == Last(history, Window)
        judged == Len(history) >= 2 /\ w[Len(w)].accesses > Head(w).accesses
    IN  /\ At("capture", "read")
        /\ local' = IF judged THEN [local EXCEPT !.verdict = Thrash(Head(w), w[Len(w)])] ELSE local
        /\ Goto("capture", IF judged THEN [Idle EXCEPT !.at = "decide"] ELSE Idle)
        /\ UNCHANGED <<metrics, pipe, mon, reset, stopped>>

\* Mutant: the verdict is never taken back.
DecideSticky ==
    /\ At("capture", "decide")
    /\ thrashing' = (thrashing \/ local.verdict) /\ local' = NoLocal
    /\ Goto("capture", IF local.verdict /\ ~thrashing THEN [Idle EXCEPT !.at = "log"] ELSE Idle)
    /\ UNCHANGED <<metrics, pipe, history, log, chan, reset, stopped>>

\* ... in another critical section, with an event on the rising edge.
Decide ==
    /\ At("capture", "decide")
    /\ thrashing' = local.verdict /\ local' = NoLocal
    /\ Goto("capture", IF local.verdict /\ ~thrashing THEN [Idle EXCEPT !.at = "log"] ELSE Idle)
    /\ UNCHANGED <<metrics, pipe, history, log, chan, reset, stopped>>

CaptureStop ==
    /\ At("capture", "idle") /\ stopped
    /\ Goto("capture", [Idle EXCEPT !.at = "end"])
    /\ UNCHANGED <<metrics, pipe, mon, local, reset, stopped>>

-----------------------------------------------------------------------------
(* Subscribers, reset and shutdown *)

SubscribeEvents(s) ==
    /\ ~chan[s].used
    /\ chan' = [chan EXCEPT ![s].on = TRUE, ![s].used = TRUE]
    /\ UNCHANGED <<metrics, pipe, history, log, thrashing, run, local, reset, stopped>>

UnsubscribeEvents(s) ==
    /\ chan[s].on
    /\ chan' = [chan EXCEPT ![s].on = FALSE]
    /\ UNCHANGED <<metrics, pipe, history, log, thrashing, run, local, reset, stopped>>

\* External: the subscriber receives from its channel.
ReceiveEvent(s) ==
    /\ chan[s].q # <<>>
    /\ chan' = [chan EXCEPT ![s].q = Tail(@),
                            ![s].got = IF Head(chan[s].q) = Alarm THEN @ ELSE Head(chan[s].q)]
    /\ UNCHANGED <<metrics, pipe, history, log, thrashing, run, local, reset, stopped>>

\* HandleReset: MemoryManager.Reset, then the three sections of ClearHistory.
ResetMetrics ==
    /\ MaxResets = 1 /\ resetAt = -1 /\ emitted < MaxEmits
    /\ faults' = 0 /\ accesses' = 0 /\ resetAt' = emitted /\ Emit(0)
    /\ reset' = "history"
    /\ UNCHANGED <<closed, mon, run, local, stopped>>

ClearHistory ==
    \/ /\ reset = "history" /\ reset' = "events"
       /\ history' = <<>>
       /\ UNCHANGED <<metrics, pipe, log, thrashing, chan, run, local, stopped>>
    \/ /\ reset = "events" /\ reset' = "thrash"
       /\ log' = <<>>
       /\ UNCHANGED <<metrics, pipe, history, thrashing, chan, run, local, stopped>>
    \/ /\ reset = "thrash" /\ reset' = "idle"
       /\ thrashing' = FALSE
       /\ UNCHANGED <<metrics, pipe, history, log, chan, run, local, stopped>>

\* Mutant: monitorStop is not closed.
ShutdownQueueOnly ==
    /\ ~closed /\ closed' = TRUE
    /\ UNCHANGED <<metrics, queue, emitted, lost, resetAt, mon, run, local, reset, stopped>>

\* Shutdown stops the capture and then closes the queue (MemoryManager.Close).
Shutdown ==
    /\ IF stopped THEN ~closed /\ closed' = TRUE /\ UNCHANGED stopped
                  ELSE stopped' = TRUE /\ UNCHANGED closed
    /\ UNCHANGED <<metrics, queue, emitted, lost, resetAt, mon, run, local, reset>>

-----------------------------------------------------------------------------

Worker == Take \/ HandleEvent("worker")
CaptureStep ==
    Capture \/ AppendSnapshot \/ DetectRead \/ Decide \/ CaptureStop \/ HandleEvent("capture")

Next ==
    \/ (\E fault \in BOOLEAN : Access(fault)) \/ AccessFast \/ EmitEvent
    \/ Worker \/ CaptureStep
    \/ \E s \in Subs : SubscribeEvents(s) \/ UnsubscribeEvents(s) \/ ReceiveEvent(s)
    \/ ResetMetrics \/ ClearHistory \/ Shutdown

\* Neither goroutine ever blocks: sends to subscribers are non-blocking and no lock is
\* held across a call that waits.  The select of the capture goroutine chooses at
\* random between a tick and the stop, so that it does not choose ticks forever.
Fairness ==
    /\ WF_vars(Worker) /\ WF_vars(CaptureStep) /\ SF_vars(CaptureStop)

Spec == Init /\ [][Next]_vars /\ Fairness

-----------------------------------------------------------------------------
(* Properties *)

\* Every variable has its type: the queue, the log, the history and the channels
\* keep their capacities.
Run == [at : Places, event : 0 .. MaxEmits, todo : SUBSET Subs]
Chan == [on : BOOLEAN, used : BOOLEAN, q : Seq(0 .. MaxEmits), got : 0 .. MaxEmits]
TypeOK ==
    /\ accesses \in 0 .. MaxEmits /\ faults \in 0 .. accesses
    /\ queue \in Seq(1 .. MaxEmits) /\ Len(queue) <= QueueCap /\ closed \in BOOLEAN
    /\ dropped \in 0 .. MaxEmits /\ emitted \in 0 .. MaxEmits /\ resetAt \in -1 .. emitted
    /\ lost \subseteq 1 .. emitted
    /\ history \in Seq(Snapshot) /\ Len(history) <= MaxHistory
    /\ log \in Seq(0 .. MaxEmits) /\ Len(log) <= MaxEvents
    /\ thrashing \in BOOLEAN /\ stopped \in BOOLEAN
    /\ chan \in [Subs -> Chan] /\ \A s \in Subs : Len(chan[s].q) <= SubCap
    /\ run \in [Agents -> Run] /\ local \in [snap : Snapshot, verdict : BOOLEAN]
    /\ reset \in {"idle", "history", "events", "thrash"}

\* The events on their way: logged, in the worker's hand, queued.
InHand == IF At("worker", "log") THEN <<run["worker"].event>> ELSE <<>>
Trail == log \o InHand \o queue

\* The events of the memory manager in q are in the order of their emission, each once.
InOrder(q) ==
    \A i, j \in DOMAIN q : i < j /\ q[i] # Alarm /\ q[j] # Alarm => q[i] < q[j]

\* "events lost to channel backpressure" (README, dropped_events) are all that is
\* lost: from the oldest event in the log to the newest emitted one every event is
\* there once and in order, or was counted as dropped.  Events after
\* Close are no-ops by intent.  Resets, alarms of the other goroutine and shutdown do
\* not disturb it.
NothingLostSilently ==
    /\ InOrder(Trail)
    /\ \A n \in Members(Trail) \ {Alarm} :
         n <= emitted /\ n \notin lost /\ n .. emitted \subseteq Members(Trail) \cup lost
    /\ dropped = Cardinality({n \in lost : n > resetAt})

\* The queue and the worker's hand, up to the log, are the stream that the memory
\* manager's events pass through: in order, each of them once, lost only when the queue
\* is full, and delivered however shutdown, resets and the other goroutine interleave.
Stream == INSTANCE EventStream WITH
    Cap <- QueueCap, waiting <- InHand \o queue, count <- emitted, open <- ~closed
IsEventStream == Stream!Spec

\* After Shutdown the worker hands over what is queued and ends, and so does the capture
\* goroutine: neither is left behind.
GoroutinesEnd == closed ~> \A a \in Agents : At(a, "end")

\* A subscriber receives the events of the memory manager in the order of their
\* emission, although two goroutines send to its channel and may skip it when full.
SubscriberOrder == \A s \in Subs : InOrder(<<chan[s].got>> \o chan[s].q)

\* Until the first reset, the verdict that callers see is that of the newest window of
\* snapshots, as soon as the capture goroutine is done with it: no interleaving with
\* accesses makes it judge one window and publish another.  After a reset it can be
\* that of a window that is gone.
VerdictIsLatest ==
    LET w == Last(history, Window)
    IN  (/\ run["capture"].at \in {"idle", "end", "log", "copy", "send"}
         /\ resetAt = -1 /\ Len(w) >= 2) =>
           \/ w[Len(w)].accesses = Head(w).accesses
           \/ thrashing = Thrash(Head(w), w[Len(w)])

=============================================================================
