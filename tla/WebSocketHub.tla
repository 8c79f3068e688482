---------------------------- MODULE WebSocketHub ----------------------------
(***************************************************************************)
(* The WebSocket hub of pkg/api: the broadcast goroutine of server.go, and *)
(* the goroutines of each client of websocket.go (readPump, writePump, the *)
(* delayed initial state, the periodic metrics), which share the client's  *)
(* buffered channel send and its channel done.  A message is only counted. *)
(* A send on a closed channel and a second close panic, and a panic of any *)
(* of these goroutines ends the program: that is the value of crash.       *)
(***************************************************************************)
EXTENDS Integers, FiniteSets

CONSTANTS
    Clients,       \* the clients that connect, once each
    Talkers,       \* those that send messages: subscribe_metrics and request_state
    SendCap,       \* capacity of Client.send (256)
    BroadcastCap,  \* capacity of Server.broadcast (100)
    Callers,       \* goroutines that call Broadcast
    Background     \* those of them outside an HTTP handler, where nothing recovers

ASSUME CapAssumption == SendCap \in Nat \ {0} /\ BroadcastCap \in Nat \ {0}
ASSUME CallersAssumption == Background \subseteq Callers /\ Talkers \subseteq Clients

VARIABLES
    clients,    \* Server.clients
    cl,         \* the state of each client and of its goroutines
    hub,        \* handleBroadcast: waiting for a message, sending it, closing the dead
    todo,       \* the clients handleBroadcast has yet to send the message to
    dead,       \* deadClients of handleBroadcast
    queued,     \* messages in Server.broadcast
    closed,     \* broadcastClosed, and Server.broadcast is closed
    caller,     \* where each caller of Broadcast is
    crash       \* the panic that ended the program

hubVars == <<hub, todo, dead>>
server == <<queued, closed, caller>>
vars == <<clients, cl, hubVars, server, crash>>

Pump == {"new", "run", "send", "leave", "close", "end"}
Client == [
    read    : Pump,             \* readPump
    write   : Pump,             \* writePump
    initial : Pump,             \* the goroutine of the initial state
    metrics : Pump,             \* sendPeriodicMetrics
    q       : 0 .. SendCap,     \* messages in send
    open    : BOOLEAN,          \* send is open
    done    : BOOLEAN,          \* done is closed
    conn    : BOOLEAN,          \* the connection has not been closed by this side
    gone    : BOOLEAN]          \* the peer is gone: reads and writes fail
NewClient == [read |-> "new", write |-> "new", initial |-> "new", metrics |-> "new",
              q |-> 0, open |-> TRUE, done |-> FALSE, conn |-> TRUE, gone |-> FALSE]
Panics == {"send", "close", "broadcast"}

Init ==
    /\ clients = {} /\ cl = [c \in Clients |-> NewClient]
    /\ hub = "wait" /\ todo = {} /\ dead = {}
    /\ queued = 0 /\ closed = FALSE /\ caller = [b \in Callers |-> "idle"]
    /\ crash = "none"

Running == crash = "none"
Panic(p) == crash' = p
Set(c, d) == cl' = [cl EXCEPT ![c] = d]
Broken(c) == cl[c].gone \/ ~cl[c].conn

-----------------------------------------------------------------------------
(* A client's goroutines *)

\* HandleWebSocket: the client is registered and its goroutines start.
HandleWebSocket(c) ==
    /\ Running /\ cl[c].read = "new"
    /\ clients' = clients \cup {c}
    /\ Set(c, [cl[c] EXCEPT !.read = "run", !.write = "run", !.initial = "run"])
    /\ UNCHANGED <<hubVars, server, crash>>

\* External: the peer disconnects, or no longer answers within the deadlines.
Disconnect(c) ==
    /\ Running /\ cl[c].read # "new" /\ ~cl[c].gone
    /\ Set(c, [cl[c] EXCEPT !.gone = TRUE])
    /\ UNCHANGED <<clients, hubVars, server, crash>>

\* select { case c.send <- msg: case <-c.done: } of the goroutine in field g, which
\* goes on in state next or, if done was ready, in state stop.  A send to a closed
\* channel is ready too, and panics; so does one that was waiting for room.
Deliver(c, g, next, stop) ==
    /\ cl[c][g] = "send"
    /\ \/ /\ cl[c].open /\ cl[c].q < SendCap
          /\ Set(c, [cl[c] EXCEPT !.q = @ + 1, ![g] = next])
          /\ UNCHANGED crash
       \/ /\ ~cl[c].open
          /\ Panic("send")
          /\ UNCHANGED cl
       \/ /\ cl[c].done
          /\ Set(c, [cl[c] EXCEPT ![g] = stop])
          /\ UNCHANGED crash
    /\ UNCHANGED <<clients, hubVars, server>>

\* The timer or ticker of the goroutine in field g fires, or done does.
Tick(c, g) ==
    /\ cl[c][g] = "run"
    /\ \/ Set(c, [cl[c] EXCEPT ![g] = "send"])
       \/ cl[c].done /\ Set(c, [cl[c] EXCEPT ![g] = "end"])
    /\ UNCHANGED <<clients, hubVars, server, crash>>

InitialState(c) ==
    /\ Running
    /\ Tick(c, "initial") \/ Deliver(c, "initial", "end", "end")

SendPeriodicMetrics(c) ==
    /\ Running
    /\ Tick(c, "metrics") \/ Deliver(c, "metrics", "run", "end")

\* readPump with handleMessage: subscribe_metrics starts the metrics goroutine
\* unless it has been started, request_state sends, other messages do nothing.
ReadMessage(c) ==
    /\ Running /\ c \in Talkers /\ cl[c].read = "run" /\ ~Broken(c)
    /\ \/ cl[c].metrics = "new" /\ Set(c, [cl[c] EXCEPT !.metrics = "run"])
       \/ Set(c, [cl[c] EXCEPT !.read = "send"])
    /\ UNCHANGED <<clients, hubVars, server, crash>>

\* Mutant: the answer is sent without looking at done.
HandleRequestBlocking(c) ==
    /\ Running /\ cl[c].read = "send"
    /\ cl[c].open => cl[c].q < SendCap
    /\ IF cl[c].open
       THEN Set(c, [cl[c] EXCEPT !.q = @ + 1, !.read = "run"]) /\ UNCHANGED crash
       ELSE Panic("send") /\ UNCHANGED cl
    /\ UNCHANGED <<clients, hubVars, server>>

HandleRequest(c) == Running /\ Deliver(c, "read", "run", "run")

ReadFails(c) ==
    /\ Running /\ cl[c].read = "run" /\ Broken(c)
    /\ Set(c, [cl[c] EXCEPT !.read = "leave"])
    /\ UNCHANGED <<clients, hubVars, server, crash>>

\* UnregisterClient, deferred by readPump
UnregisterClient(c) ==
    /\ Running /\ cl[c].read = "leave"
    /\ IF c \notin clients
       THEN Set(c, [cl[c] EXCEPT !.read = "close"]) /\ UNCHANGED crash
       ELSE IF cl[c].open
       THEN Set(c, [cl[c] EXCEPT !.read = "close", !.open = FALSE]) /\ UNCHANGED crash
       ELSE Panic("close") /\ UNCHANGED cl
    /\ clients' = clients \ {c}
    /\ UNCHANGED <<hubVars, server>>

ReadPumpCloses(c) ==
    /\ Running /\ cl[c].read = "close"
    /\ Set(c, [cl[c] EXCEPT !.read = "end", !.conn = FALSE])
    /\ UNCHANGED <<clients, hubVars, server, crash>>

\* writePump receives: a closed channel is drained before it reads as closed.
WriteMessage(c) ==
    /\ Running /\ cl[c].write = "run"
    /\ IF cl[c].q > 0
       THEN \/ Set(c, [cl[c] EXCEPT !.q = @ - 1, !.write = "leave"])
            \/ ~Broken(c) /\ Set(c, [cl[c] EXCEPT !.q = @ - 1])
       ELSE ~cl[c].open /\ Set(c, [cl[c] EXCEPT !.write = "leave"])
    /\ UNCHANGED <<clients, hubVars, server, crash>>

\* The ping of writePump's ticker fails; one that succeeds changes nothing.
PingFails(c) ==
    /\ Running /\ cl[c].write = "run" /\ Broken(c)
    /\ Set(c, [cl[c] EXCEPT !.write = "leave"])
    /\ UNCHANGED <<clients, hubVars, server, crash>>

\* writePump's deferred close(c.done), and then conn.Close()
CloseDone(c) ==
    /\ Running /\ cl[c].write = "leave"
    /\ Set(c, [cl[c] EXCEPT !.write = "close", !.done = TRUE])
    /\ UNCHANGED <<clients, hubVars, server, crash>>

WritePumpCloses(c) ==
    /\ Running /\ cl[c].write = "close"
    /\ Set(c, [cl[c] EXCEPT !.write = "end", !.conn = FALSE])
    /\ UNCHANGED <<clients, hubVars, server, crash>>

-----------------------------------------------------------------------------
(* The broadcast goroutine *)

ReadLocked == hub = "send"

\* Mutant: the loop waits for a message without noticing that the channel is closed.
ReceiveOnly ==
    /\ Running /\ hub = "wait" /\ queued > 0
    /\ hub' = "send" /\ queued' = queued - 1 /\ todo' = clients
    /\ UNCHANGED <<clients, cl, dead, closed, caller, crash>>

\* handleBroadcast receives, and takes clientsMu for reading.
Receive ==
    /\ Running /\ hub = "wait"
    /\ IF queued > 0
       THEN hub' = "send" /\ queued' = queued - 1 /\ todo' = clients
       ELSE closed /\ hub' = "end" /\ UNCHANGED <<queued, todo>>
    /\ UNCHANGED <<clients, cl, dead, closed, caller, crash>>

\* Mutant: a client that cannot take the message is closed on the spot.
SendOneAndClose(c) ==
    /\ Running /\ hub = "send" /\ c \in todo
    /\ todo' = todo \ {c}
    /\ Set(c, IF cl[c].q < SendCap THEN [cl[c] EXCEPT !.q = @ + 1] ELSE [cl[c] EXCEPT !.open = FALSE])
    /\ UNCHANGED <<clients, dead, crash, hub, server>>

\* One round of its loop over the clients.
SendOne(c) ==
    /\ Running /\ hub = "send" /\ c \in todo
    /\ todo' = todo \ {c}
    /\ IF ~cl[c].open THEN Panic("send") /\ UNCHANGED <<cl, dead>>
       ELSE IF cl[c].q < SendCap
       THEN Set(c, [cl[c] EXCEPT !.q = @ + 1]) /\ UNCHANGED <<dead, crash>>
       ELSE dead' = dead \cup {c} /\ UNCHANGED <<cl, crash>>
    /\ UNCHANGED <<clients, hub, server>>

EndRound ==
    /\ Running /\ hub = "send" /\ todo = {}
    /\ hub' = IF dead = {} THEN "wait" ELSE "reap"
    /\ UNCHANGED <<clients, cl, todo, dead, server, crash>>

\* Mutant: without the guard against a client that has unregistered itself.
ReapUnguarded ==
    /\ Running /\ hub = "reap"
    /\ clients' = clients \ dead
    /\ IF \E c \in dead : ~cl[c].open
       THEN Panic("close") /\ UNCHANGED cl
       ELSE cl' = [c \in Clients |-> IF c \in dead THEN [cl[c] EXCEPT !.open = FALSE] ELSE cl[c]]
            /\ UNCHANGED crash
    /\ hub' = "wait" /\ dead' = {}
    /\ UNCHANGED <<todo, server>>

\* The dead clients that are still registered are closed under clientsMu.
Reap ==
    LET reaped == dead \cap clients
    IN  /\ Running /\ hub = "reap"
        /\ clients' = clients \ reaped
        /\ IF \E c \in reaped : ~cl[c].open
           THEN Panic("close") /\ UNCHANGED cl
           ELSE /\ cl' = [c \in Clients |->
                            IF c \in reaped THEN [cl[c] EXCEPT !.open = FALSE] ELSE cl[c]]
                /\ UNCHANGED crash
        /\ hub' = "wait" /\ dead' = {}
        /\ UNCHANGED <<todo, server>>

-----------------------------------------------------------------------------
(* Broadcast and Shutdown *)

\* Mutant: without the look at broadcastClosed.
BroadcastUnchecked(b) ==
    /\ Running /\ caller[b] = "idle"
    /\ caller' = [caller EXCEPT ![b] = "send"]
    /\ UNCHANGED <<clients, cl, hubVars, queued, closed, crash>>

\* Broadcast reads broadcastClosed ...
Broadcast(b) ==
    /\ Running /\ caller[b] = "idle" /\ ~closed
    /\ caller' = [caller EXCEPT ![b] = "send"]
    /\ UNCHANGED <<clients, cl, hubVars, queued, closed, crash>>

\* ... and sends outside the lock; net/http recovers the panic of a handler.
BroadcastSend(b) ==
    /\ Running /\ caller[b] = "send"
    /\ caller' = [caller EXCEPT ![b] = "idle"]
    /\ IF closed
       THEN (IF b \in Background THEN Panic("broadcast") ELSE UNCHANGED crash) /\ UNCHANGED queued
       ELSE queued' = (IF queued < BroadcastCap THEN queued + 1 ELSE queued) /\ UNCHANGED crash
    /\ UNCHANGED <<clients, cl, hubVars, closed>>

Shutdown ==
    /\ Running /\ ~closed
    /\ closed' = TRUE
    /\ UNCHANGED <<clients, cl, hubVars, queued, caller, crash>>

-----------------------------------------------------------------------------

\* Registration takes clientsMu for writing, which the broadcast round holds.
Locking(c) == HandleWebSocket(c) \/ UnregisterClient(c)

ClientStep(c) ==
    \/ InitialState(c) \/ SendPeriodicMetrics(c)
    \/ ReadMessage(c) \/ HandleRequest(c) \/ ReadFails(c) \/ ReadPumpCloses(c)
    \/ WriteMessage(c) \/ PingFails(c) \/ CloseDone(c) \/ WritePumpCloses(c)

HubStep == Receive \/ (\E c \in Clients : SendOne(c)) \/ EndRound \/ Reap

Next ==
    \/ \E c \in Clients : ClientStep(c) \/ (~ReadLocked /\ Locking(c)) \/ Disconnect(c)
    \/ HubStep
    \/ \E b \in Callers : Broadcast(b) \/ BroadcastSend(b)
    \/ Shutdown

Spec == Init /\ [][Next]_vars

\* Each goroutine runs whenever it can: tickers and deadlines fire, and the mutex
\* lets no waiter starve.  Nothing is assumed of peers, new callers and shutdown.
Fairness ==
    /\ WF_vars(HubStep)
    /\ \A c \in Clients :
         /\ WF_vars(InitialState(c)) /\ WF_vars(SendPeriodicMetrics(c))
         /\ WF_vars(HandleRequest(c)) /\ WF_vars(ReadFails(c)) /\ WF_vars(ReadPumpCloses(c))
         /\ WF_vars(WriteMessage(c) \/ PingFails(c))
         /\ WF_vars(CloseDone(c)) /\ WF_vars(WritePumpCloses(c))
         /\ SF_vars(~ReadLocked /\ UnregisterClient(c))

FairSpec == Spec /\ Fairness

-----------------------------------------------------------------------------
(* Properties *)

\* Every channel, buffer and goroutine is in one of its states: in particular no
\* buffer holds more than its capacity.
TypeOK ==
    /\ clients \subseteq Clients /\ cl \in [Clients -> Client]
    /\ hub \in {"wait", "send", "reap", "end"} /\ todo \subseteq Clients /\ dead \subseteq Clients
    /\ queued \in 0 .. BroadcastCap /\ closed \in BOOLEAN
    /\ caller \in [Callers -> {"idle", "send"}]
    /\ crash \in Panics \cup {"none"}

\* "closing under RLock races with UnregisterClient's close under WLock
\* (double-close panic)" (handleBroadcast): no interleaving of the reaping of slow
\* clients with their own unregistration closes a channel twice.
NoDoubleClose == crash # "close"

\* A registered client's channel is open, so that handleBroadcast, which sends
\* without looking at done, never sends on a closed one.
RegisteredOpen ==
    /\ \A c \in clients : cl[c].open
    /\ ReadLocked => todo \subseteq clients

\* Whatever a client is doing when its peer goes (waiting for room in its own full
\* buffer, being reaped, half started), all its goroutines end and it is forgotten,
\* or the program has crashed.
ClientEnds ==
    \A c \in Clients :
        cl[c].gone ~>
            \/ ~Running
            \/ /\ c \notin clients
               /\ {cl[c].read, cl[c].write, cl[c].initial, cl[c].metrics} \subseteq {"new", "end"}

\* After Shutdown the broadcast goroutine delivers what is queued and ends.
HubEnds == closed ~> hub = "end" \/ ~Running

\* Broadcast reads the flag under the lock and sends outside of it, so that a caller caught
\* in between by Shutdown sends on a closed channel.  If none of those was outside an HTTP
\* handler, or once they are gone, no call of Broadcast ends the program: later ones see
\* the flag, and net/http recovers the panics of handlers that were caught.
OnlyTheCaughtPanic ==
    [](closed /\ Running /\ (\A b \in Background : caller[b] = "idle") => [](crash # "broadcast"))

-----------------------------------------------------------------------------
(* What the repository says of the program and the program does not keep.     *)

\* "The inner select on done prevents a panic when close(c.send) races with the
\* ticker firing" (sendPeriodicMetrics), and "guard against sending on a closed
\* channel when the client disconnects concurrently (done fires before send is
\* closed)" (handleMessage).  It is the other way round: send is closed first, by
\* UnregisterClient or by handleBroadcast, and done when writePump has noticed.
NoSendOnClosed == crash # "send"

=============================================================================
