------------------------- MODULE WebSocketHubProofs -------------------------
(***************************************************************************)
(* Theorems about WebSocketHub, for any set of clients and of callers and  *)
(* any capacities.                                                         *)
(***************************************************************************)
EXTENDS WebSocketHub, TLAPS

\* A client that has not connected is not registered, and its channel is open: what
\* HandleWebSocket relies on when it registers it.
UnconnectedOpen == \A c \in Clients : cl[c].read = "new" => c \notin clients /\ cl[c].open

\* What every step keeps.
IInv == TypeOK /\ RegisteredOpen /\ UnconnectedOpen /\ NoDoubleClose

-----------------------------------------------------------------------------
(* Steps of one client *)

\* What a step of one client's goroutines other than its registration may do: it
\* changes only that client, which neither becomes unconnected nor has its channel
\* closed.
Own(c) ==
    /\ cl' \in [Clients -> Client]
    /\ \A d \in Clients \ {c} : cl'[d] = cl[d]
    /\ cl'[c].open = cl[c].open /\ (cl'[c].read = "new" => cl[c].read = "new")
    /\ crash' \in {crash, "send"}
    /\ UNCHANGED <<clients, hubVars, server>>

\* A step that is one client's own keeps the invariant.
LEMMA OwnKeeps ==
    ASSUME IInv, NEW c \in Clients, Own(c) PROVE IInv'
<1>1. TypeOK'
  BY DEF IInv, TypeOK, Own, hubVars, server, Panics
<1>2. RegisteredOpen'
  BY DEF IInv, TypeOK, RegisteredOpen, ReadLocked, Own, hubVars
<1>3. UnconnectedOpen'
  BY DEF IInv, TypeOK, UnconnectedOpen, Own
<1>4. NoDoubleClose'
  BY DEF IInv, NoDoubleClose, Own
<1> QED BY <1>1, <1>2, <1>3, <1>4 DEF IInv

\* What it takes for a step that gives client c the record d to be c's own.
LEMMA SetOwn ==
    ASSUME TypeOK, NEW c \in Clients, NEW d \in Client, Set(c, d),
           d.open = cl[c].open, d.read = "new" => cl[c].read = "new",
           UNCHANGED <<clients, hubVars, server, crash>>
    PROVE  Own(c)
BY DEF TypeOK, Set, Own

\* The fields of a client's record that hold the state of a goroutine.
Goroutines == {"read", "write", "initial", "metrics"}

\* The updates of a client's record, as operators for the provers.
Buffered(d, n) == [d EXCEPT !.q = n]
Moved(d, g, s) == [d EXCEPT ![g] = s]
BufferedMoved(d, n, g, s) == [d EXCEPT !.q = n, ![g] = s]
ClosedMoved(d, s) == [d EXCEPT !.read = s, !.open = FALSE]
Flagged(d, f, b) == [d EXCEPT ![f] = b]
MovedFlagged(d, g, s, f, b) == [d EXCEPT ![g] = s, ![f] = b]
Started(d) == [d EXCEPT !.read = "run", !.write = "run", !.initial = "run"]
Shut(d) == [d EXCEPT !.open = FALSE]

\* The fields of a client's record that are set once and do not concern its channel.
Flags == {"done", "conn", "gone"}

\* What they do to its fields.
LEMMA BufferedClient ==
    ASSUME NEW d \in Client, NEW n \in 0 .. SendCap
    PROVE  /\ Buffered(d, n) \in Client
           /\ Buffered(d, n).open = d.open /\ Buffered(d, n).read = d.read
BY DEF Client, Buffered

\* A goroutine of a client moves on: the channel stays as it was.
LEMMA MovedClient ==
    ASSUME NEW d \in Client, NEW s \in Pump, NEW g \in Goroutines
    PROVE  /\ Moved(d, g, s) \in Client
           /\ Moved(d, g, s).open = d.open /\ Moved(d, g, s).read \in {d.read, s}
<1> USE DEF Client, Goroutines, Moved
<1>1. CASE g = "read" BY <1>1
<1>2. CASE g = "write" BY <1>2
<1>3. CASE g = "initial" BY <1>3
<1>4. CASE g = "metrics" BY <1>4
<1> QED BY <1>1, <1>2, <1>3, <1>4

\* ... with another number of messages in the buffer.
LEMMA BufferedMovedClient ==
    ASSUME NEW d \in Client, NEW n \in 0 .. SendCap, NEW s \in Pump,
           NEW g \in Goroutines
    PROVE  /\ BufferedMoved(d, n, g, s) \in Client /\ BufferedMoved(d, n, g, s).open = d.open
           /\ BufferedMoved(d, n, g, s).read \in {d.read, s}
<1> USE DEF Client, Goroutines, BufferedMoved
<1>1. CASE g = "read" BY <1>1
<1>2. CASE g = "write" BY <1>2
<1>3. CASE g = "initial" BY <1>3
<1>4. CASE g = "metrics" BY <1>4
<1> QED BY <1>1, <1>2, <1>3, <1>4

\* ... after the channel was closed.
LEMMA ClosedMovedClient ==
    ASSUME NEW d \in Client, NEW s \in Pump
    PROVE  ClosedMoved(d, s) \in Client
BY DEF Client, ClosedMoved

\* The number of messages in a buffer is within its capacity.
LEMMA BufferBounds ==
    ASSUME TypeOK, NEW c \in Clients
    PROVE  /\ cl[c] \in Client /\ cl[c].q \in 0 .. SendCap
           /\ cl[c].q < SendCap => cl[c].q + 1 \in 0 .. SendCap
           /\ cl[c].q > 0 => cl[c].q - 1 \in 0 .. SendCap
<1>1. cl[c] \in Client /\ cl[c].q \in 0 .. SendCap BY DEF TypeOK, Client
<1> QED BY <1>1, CapAssumption

\* The guarded send of a client's goroutine is the client's own step.
LEMMA DeliverOwn ==
    ASSUME TypeOK, NEW c \in Clients, NEW g \in {"read", "initial", "metrics"},
           NEW next \in Pump \ {"new"}, NEW stop \in Pump \ {"new"}, Deliver(c, g, next, stop)
    PROVE  Own(c)
<1> DEFINE sent == BufferedMoved(cl[c], cl[c].q + 1, g, next)
           left == Moved(cl[c], g, stop)
<1>0. /\ cl[c] \in Client /\ next \in Pump /\ stop \in Pump
      /\ g \in Goroutines
  BY BufferBounds DEF Goroutines
<1>1. \/ cl[c].q < SendCap /\ Set(c, sent) /\ UNCHANGED crash
      \/ Set(c, left) /\ UNCHANGED crash
      \/ Panic("send") /\ UNCHANGED cl
  BY Zenon DEF Deliver, BufferedMoved, Moved
<1>2. UNCHANGED <<clients, hubVars, server>> BY DEF Deliver
<1>3. ASSUME cl[c].q < SendCap, Set(c, sent), UNCHANGED crash PROVE Own(c)
  <2>0. ASSUME NEW n \in 0 .. SendCap
        PROVE  /\ BufferedMoved(cl[c], n, g, next) \in Client
               /\ BufferedMoved(cl[c], n, g, next).open = cl[c].open
               /\ BufferedMoved(cl[c], n, g, next).read \in {cl[c].read, next}
    BY <1>0, BufferedMovedClient
  <2>1. sent \in Client /\ sent.open = cl[c].open /\ sent.read \in {cl[c].read, next}
    BY <1>3, BufferBounds, <2>0, Zenon
  <2> HIDE DEF sent
  <2> QED BY <1>2, <1>3, <2>1, SetOwn
<1>4. ASSUME Set(c, left), UNCHANGED crash PROVE Own(c)
  <2>1. left \in Client /\ left.open = cl[c].open /\ left.read \in {cl[c].read, stop}
    BY <1>0, MovedClient
  <2> HIDE DEF left
  <2> QED BY <1>2, <1>4, <2>1, SetOwn
<1>5. ASSUME Panic("send"), UNCHANGED cl PROVE Own(c)
  BY <1>2, <1>5 DEF Panic, Own, TypeOK
<1> QED BY <1>1, <1>3, <1>4, <1>5

\* A flag of a client is set: nothing else of it changes.
LEMMA FlaggedClient ==
    ASSUME NEW d \in Client, NEW f \in Flags, NEW b \in BOOLEAN
    PROVE  /\ Flagged(d, f, b) \in Client
           /\ Flagged(d, f, b).open = d.open /\ Flagged(d, f, b).read = d.read
<1> USE DEF Client, Flags, Flagged
<1>1. CASE f = "done" BY <1>1
<1>2. CASE f = "conn" BY <1>2
<1>3. CASE f = "gone" BY <1>3
<1> QED BY <1>1, <1>2, <1>3

\* ... while a goroutine moves on.
LEMMA MovedFlaggedClient ==
    ASSUME NEW d \in Client, NEW g \in Goroutines, NEW s \in Pump, NEW f \in Flags, NEW b \in BOOLEAN
    PROVE  /\ MovedFlagged(d, g, s, f, b) \in Client
           /\ MovedFlagged(d, g, s, f, b).open = d.open
           /\ MovedFlagged(d, g, s, f, b).read \in {d.read, s}
<1>1. MovedFlagged(d, g, s, f, b) = Flagged(Moved(d, g, s), f, b)
  BY Zenon DEF MovedFlagged, Flagged, Moved
<1>2. /\ Moved(d, g, s) \in Client
      /\ Moved(d, g, s).open = d.open /\ Moved(d, g, s).read \in {d.read, s}
  BY MovedClient
<1>3. PICK e : e = Moved(d, g, s) OBVIOUS
<1>4. /\ Flagged(e, f, b) \in Client
      /\ Flagged(e, f, b).open = e.open /\ Flagged(e, f, b).read = e.read
  BY <1>2, <1>3, FlaggedClient
<1> QED BY <1>1, <1>2, <1>3, <1>4, Zenon

\* A step that moves one goroutine of a client on is the client's own.
LEMMA MoveOwn ==
    ASSUME TypeOK, NEW c \in Clients, NEW g \in Goroutines, NEW s \in Pump \ {"new"},
           Set(c, Moved(cl[c], g, s)), UNCHANGED <<clients, hubVars, server, crash>>
    PROVE  Own(c)
<1>1. cl[c] \in Client /\ s \in Pump BY BufferBounds
<1>2. PICK d : d = Moved(cl[c], g, s) OBVIOUS
<1>3. d \in Client /\ d.open = cl[c].open /\ d.read \in {cl[c].read, s}
  BY <1>1, <1>2, MovedClient
<1>4. Set(c, d) BY <1>2
<1>5. d.read = "new" => cl[c].read = "new" BY <1>3
<1> QED BY <1>3, <1>4, <1>5, SetOwn

\* So is one that sets a flag of it.
LEMMA FlagOwn ==
    ASSUME TypeOK, NEW c \in Clients, NEW f \in Flags, NEW b \in BOOLEAN,
           Set(c, Flagged(cl[c], f, b)), UNCHANGED <<clients, hubVars, server, crash>>
    PROVE  Own(c)
<1>1. cl[c] \in Client BY BufferBounds
<1>2. PICK d : d = Flagged(cl[c], f, b) OBVIOUS
<1>3. d \in Client /\ d.open = cl[c].open /\ d.read = cl[c].read
  BY <1>1, <1>2, FlaggedClient
<1>4. Set(c, d) BY <1>2
<1> QED BY <1>3, <1>4, SetOwn

\* And one that does both.
LEMMA MoveFlagOwn ==
    ASSUME TypeOK, NEW c \in Clients, NEW g \in Goroutines, NEW s \in Pump \ {"new"},
           NEW f \in Flags, NEW b \in BOOLEAN,
           Set(c, MovedFlagged(cl[c], g, s, f, b)), UNCHANGED <<clients, hubVars, server, crash>>
    PROVE  Own(c)
<1>1. cl[c] \in Client /\ s \in Pump BY BufferBounds
<1>2. PICK d : d = MovedFlagged(cl[c], g, s, f, b) OBVIOUS
<1>3. d \in Client /\ d.open = cl[c].open /\ d.read \in {cl[c].read, s}
  BY <1>1, <1>2, MovedFlaggedClient
<1>4. Set(c, d) BY <1>2
<1>5. d.read = "new" => cl[c].read = "new" BY <1>3
<1> QED BY <1>3, <1>4, <1>5, SetOwn

\* The names of the goroutines, of their states and of the flags that the steps use.
LEMMA Names ==
    /\ {"read", "write", "initial", "metrics"} \subseteq Goroutines
    /\ {"run", "send", "leave", "close", "end"} \subseteq Pump \ {"new"}
    /\ {"done", "conn", "gone"} \subseteq Flags
BY DEF Goroutines, Pump, Flags

\* The tickers of a client only touch the client.
LEMMA TickOwn ==
    ASSUME TypeOK, NEW c \in Clients, NEW g \in {"initial", "metrics"}, Tick(c, g)
    PROVE  Own(c)
<1>1. g \in Goroutines /\ "send" \in Pump \ {"new"} /\ "end" \in Pump \ {"new"} BY Names
<1>2. UNCHANGED <<clients, hubVars, server, crash>> BY DEF Tick
<1>3. Set(c, Moved(cl[c], g, "send")) \/ Set(c, Moved(cl[c], g, "end"))
  BY Zenon DEF Tick, Moved
<1> QED BY <1>1, <1>2, <1>3, MoveOwn

\* A message leaves the client's buffer, with or without the end of writePump.
LEMMA WriteOwn ==
    ASSUME TypeOK, NEW c \in Clients, WriteMessage(c) PROVE Own(c)
<1>0. PICK n : n = cl[c].q - 1 OBVIOUS
<1>1. cl[c] \in Client /\ (cl[c].q > 0 => n \in 0 .. SendCap) BY <1>0, BufferBounds
<1>2. "leave" \in Pump /\ "leave" \in Pump \ {"new"} /\ "write" \in Goroutines BY Names
<1>3. UNCHANGED <<clients, hubVars, server, crash>> BY DEF WriteMessage
<1>4. \/ cl[c].q > 0 /\ Set(c, BufferedMoved(cl[c], n, "write", "leave"))
      \/ cl[c].q > 0 /\ Set(c, Buffered(cl[c], n))
      \/ Set(c, Moved(cl[c], "write", "leave"))
  BY <1>0, Zenon DEF WriteMessage, Buffered, BufferedMoved, Moved
<1>5. ASSUME cl[c].q > 0, Set(c, BufferedMoved(cl[c], n, "write", "leave")) PROVE Own(c)
  <2>1. PICK d : d = BufferedMoved(cl[c], n, "write", "leave") OBVIOUS
  <2>2. d \in Client /\ d.open = cl[c].open /\ d.read \in {cl[c].read, "leave"}
    BY <1>1, <1>2, <1>5, <2>1, BufferedMovedClient
  <2>3. Set(c, d) BY <1>5, <2>1
  <2>4. d.read = "new" => cl[c].read = "new" BY <2>2
  <2> QED BY <1>3, <2>2, <2>3, <2>4, SetOwn
<1>6. ASSUME cl[c].q > 0, Set(c, Buffered(cl[c], n)) PROVE Own(c)
  <2>1. PICK d : d = Buffered(cl[c], n) OBVIOUS
  <2>2. d \in Client /\ d.open = cl[c].open /\ d.read = cl[c].read
    BY <1>1, <1>6, <2>1, BufferedClient
  <2>3. Set(c, d) BY <1>6, <2>1
  <2> QED BY <1>3, <2>2, <2>3, SetOwn
<1>7. ASSUME Set(c, Moved(cl[c], "write", "leave")) PROVE Own(c)
  BY <1>2, <1>3, <1>7, MoveOwn
<1> QED BY <1>4, <1>5, <1>6, <1>7

\* So do all its goroutines, but for the steps that lock the hub.
LEMMA ClientStepOwn ==
    ASSUME TypeOK, NEW c \in Clients, ClientStep(c) \/ Disconnect(c)
    PROVE  Own(c)
<1>1. CASE InitialState(c)
  <2>1. Tick(c, "initial") \/ Deliver(c, "initial", "end", "end") BY <1>1 DEF InitialState
  <2> QED BY <2>1, Names, TickOwn, DeliverOwn
<1>2. CASE SendPeriodicMetrics(c)
  <2>1. Tick(c, "metrics") \/ Deliver(c, "metrics", "run", "end") BY <1>2 DEF SendPeriodicMetrics
  <2> QED BY <2>1, Names, TickOwn, DeliverOwn
<1>3. CASE ReadMessage(c)
  <2>1. /\ Set(c, Moved(cl[c], "metrics", "run")) \/ Set(c, Moved(cl[c], "read", "send"))
        /\ UNCHANGED <<clients, hubVars, server, crash>>
    BY <1>3, Zenon DEF ReadMessage, Moved
  <2> QED BY <2>1, Names, MoveOwn
<1>4. CASE HandleRequest(c)
  <2>1. Deliver(c, "read", "run", "run") BY <1>4 DEF HandleRequest
  <2> QED BY <2>1, Names, DeliverOwn
<1>5. CASE ReadFails(c)
  <2>1. Set(c, Moved(cl[c], "read", "leave")) /\ UNCHANGED <<clients, hubVars, server, crash>>
    BY <1>5, Zenon DEF ReadFails, Moved
  <2> QED BY <2>1, Names, MoveOwn
<1>6. CASE ReadPumpCloses(c)
  <2>1. /\ Set(c, MovedFlagged(cl[c], "read", "end", "conn", FALSE))
        /\ UNCHANGED <<clients, hubVars, server, crash>>
    BY <1>6, Zenon DEF ReadPumpCloses, MovedFlagged
  <2> QED BY <2>1, Names, MoveFlagOwn
<1>7. CASE WriteMessage(c) BY <1>7, WriteOwn
<1>8. CASE PingFails(c)
  <2>1. Set(c, Moved(cl[c], "write", "leave")) /\ UNCHANGED <<clients, hubVars, server, crash>>
    BY <1>8, Zenon DEF PingFails, Moved
  <2> QED BY <2>1, Names, MoveOwn
<1>9. CASE CloseDone(c)
  <2>1. /\ Set(c, MovedFlagged(cl[c], "write", "close", "done", TRUE))
        /\ UNCHANGED <<clients, hubVars, server, crash>>
    BY <1>9, Zenon DEF CloseDone, MovedFlagged
  <2> QED BY <2>1, Names, MoveFlagOwn
<1>10. CASE WritePumpCloses(c)
  <2>1. /\ Set(c, MovedFlagged(cl[c], "write", "end", "conn", FALSE))
        /\ UNCHANGED <<clients, hubVars, server, crash>>
    BY <1>10, Zenon DEF WritePumpCloses, MovedFlagged
  <2> QED BY <2>1, Names, MoveFlagOwn
<1>11. CASE Disconnect(c)
  <2>1. Set(c, Flagged(cl[c], "gone", TRUE)) /\ UNCHANGED <<clients, hubVars, server, crash>>
    BY <1>11, Zenon DEF Disconnect, Flagged
  <2> QED BY <2>1, Names, FlagOwn
<1> QED BY <1>1, <1>2, <1>3, <1>4, <1>5, <1>6, <1>7, <1>8, <1>9, <1>10, <1>11 DEF ClientStep

-----------------------------------------------------------------------------
(* Registration and the hub *)

\* A client's goroutines start, or its channel is closed: what that does to its record.
LEMMA StartedClient ==
    ASSUME NEW d \in Client
    PROVE  /\ Started(d) \in Client /\ Started(d).open = d.open /\ Started(d).read = "run"
           /\ Shut(d) \in Client /\ Shut(d).read = d.read
           /\ ClosedMoved(d, "close").read = "close"
<1>1. Started(d) = Moved(Moved(Moved(d, "read", "run"), "write", "run"), "initial", "run")
  BY Zenon DEF Started, Moved
<1>2. PICK e : e = Moved(d, "read", "run") OBVIOUS
<1>3. e \in Client /\ e.open = d.open /\ e.read = "run"
  BY <1>2 DEF Moved, Client, Pump
<1>4. PICK f : f = Moved(e, "write", "run") OBVIOUS
<1>5. f \in Client /\ f.open = d.open /\ f.read = "run"
  BY <1>3, <1>4 DEF Moved, Client, Pump
<1>6. PICK g : g = Moved(f, "initial", "run") OBVIOUS
<1>7. g \in Client /\ g.open = d.open /\ g.read = "run"
  BY <1>5, <1>6 DEF Moved, Client, Pump
<1>8. Started(d) = g BY <1>1, <1>2, <1>4, <1>6, Zenon
<1>9. Started(d) \in Client /\ Started(d).open = d.open /\ Started(d).read = "run"
  BY <1>7, <1>8
<1>10. Shut(d) \in Client /\ Shut(d).read = d.read
  BY DEF Shut, Client
<1>11. ClosedMoved(d, "close").read = "close"
  BY DEF ClosedMoved, Client
<1> QED BY <1>9, <1>10, <1>11

\* Registration and removal of a client keep the invariant.
LEMMA LockingKeeps ==
    ASSUME IInv, NEW c \in Clients, ~ReadLocked, Locking(c) PROVE IInv'
<1>0. cl[c] \in Client /\ TypeOK /\ cl \in [Clients -> Client] BY BufferBounds DEF IInv, TypeOK
<1>1. CASE HandleWebSocket(c)
  <2>1. /\ cl' = [cl EXCEPT ![c] = Started(cl[c])] /\ clients' = clients \cup {c}
        /\ cl[c].read = "new" /\ UNCHANGED <<hubVars, server, crash>>
    BY <1>1, Zenon DEF HandleWebSocket, Set, Started
  <2>2. PICK d : d = Started(cl[c]) OBVIOUS
  <2>3. d \in Client /\ d.open = cl[c].open /\ d.read = "run" BY <1>0, <2>2, StartedClient
  <2>4. cl' = [cl EXCEPT ![c] = d] BY <2>1, <2>2
  <2>5. TypeOK' BY <1>0, <2>1, <2>3, <2>4 DEF TypeOK, hubVars, server
  <2>6. RegisteredOpen'
    BY <1>0, <2>1, <2>3, <2>4 DEF IInv, RegisteredOpen, UnconnectedOpen, ReadLocked, hubVars
  <2>7. UnconnectedOpen' BY <1>0, <2>1, <2>3, <2>4 DEF IInv, UnconnectedOpen
  <2> QED BY <2>1, <2>5, <2>6, <2>7 DEF IInv, NoDoubleClose
<1>2. CASE UnregisterClient(c)
  <2>1. c \in clients => cl[c].open BY DEF IInv, RegisteredOpen
  <2>2. /\ \/ cl' = [cl EXCEPT ![c] = ClosedMoved(cl[c], "close")]
           \/ c \notin clients /\ cl' = [cl EXCEPT ![c] = Moved(cl[c], "read", "close")]
        /\ clients' = clients \ {c} /\ UNCHANGED <<hubVars, server, crash>>
    BY <1>2, <2>1, Zenon DEF UnregisterClient, Set, ClosedMoved, Moved
  <2>3. PICK d : /\ d \in Client /\ d.read = "close"
                 /\ cl' = [cl EXCEPT ![c] = d]
    <3>1. /\ ClosedMoved(cl[c], "close") \in Client /\ ClosedMoved(cl[c], "close").read = "close"
      BY <1>0, ClosedMovedClient, StartedClient, Names
    <3>2. /\ Moved(cl[c], "read", "close") \in Client /\ Moved(cl[c], "read", "close").read = "close"
      BY <1>0 DEF Moved, Client, Pump
    <3> QED BY <2>2, <3>1, <3>2, Zenon
  <2>4. TypeOK' BY <1>0, <2>2, <2>3 DEF TypeOK, hubVars, server
  <2>5. RegisteredOpen' BY <1>0, <2>2, <2>3 DEF IInv, TypeOK, RegisteredOpen, ReadLocked, hubVars
  <2>6. UnconnectedOpen' BY <1>0, <2>2, <2>3 DEF IInv, UnconnectedOpen
  <2> QED BY <2>2, <2>4, <2>5, <2>6 DEF IInv, NoDoubleClose
<1> QED BY <1>1, <1>2 DEF Locking

\* A send of the hub to one client keeps it.
LEMMA SendOneKeeps ==
    ASSUME IInv, NEW c \in Clients, SendOne(c) PROVE IInv'
<1> DEFINE more == Buffered(cl[c], cl[c].q + 1)
<1> USE DEF SendOne, IInv, hubVars, server
<1>1. c \in clients /\ cl[c].open BY DEF RegisteredOpen, ReadLocked
<1>2. CASE cl[c].q < SendCap
  <2>0. cl[c] \in Client /\ (cl[c].q < SendCap => cl[c].q + 1 \in 0 .. SendCap)
    BY BufferBounds
  <2>1. more \in Client /\ more.open = cl[c].open /\ more.read = cl[c].read
    BY <1>2, <2>0, BufferedClient
  <2>2. cl' = [cl EXCEPT ![c] = more] /\ UNCHANGED <<dead, crash, clients, hub, server>>
    BY <1>1, <1>2 DEF Set, Buffered
  <2>3. todo' = todo \ {c} OBVIOUS
  <2> HIDE DEF more, SendOne
  <2>4. TypeOK' BY <2>1, <2>2, <2>3 DEF TypeOK
  <2>5. RegisteredOpen' BY <2>1, <2>2, <2>3 DEF RegisteredOpen, TypeOK, ReadLocked
  <2>6. UnconnectedOpen' BY <2>1, <2>2 DEF UnconnectedOpen, TypeOK
  <2> QED BY <2>2, <2>4, <2>5, <2>6 DEF NoDoubleClose
<1>3. CASE ~(cl[c].q < SendCap)
  BY <1>1, <1>3 DEF TypeOK, RegisteredOpen, UnconnectedOpen, ReadLocked, NoDoubleClose
<1> QED BY <1>2, <1>3

\* The removal of the slow clients keeps it.
LEMMA ReapKeeps == ASSUME IInv, Reap PROVE IInv'
<1>1. \A c \in dead \cap clients : cl[c].open BY DEF IInv, RegisteredOpen
<1>2. /\ cl' = [c \in Clients |-> IF c \in dead \cap clients THEN Shut(cl[c]) ELSE cl[c]]
      /\ clients' = clients \ (dead \cap clients) /\ hub' = "wait" /\ dead' = {}
      /\ UNCHANGED <<todo, server, crash>>
  BY <1>1, Zenon DEF Reap, Shut
<1>3. clients \subseteq Clients /\ cl \in [Clients -> Client] BY DEF IInv, TypeOK
<1>4. \A c \in Clients : Shut(cl[c]) \in Client /\ Shut(cl[c]).read = cl[c].read
  BY <1>3, StartedClient
<1>5. /\ cl' \in [Clients -> Client]
      /\ \A c \in Clients : cl'[c].read = cl[c].read
      /\ \A c \in Clients \ (dead \cap clients) : cl'[c] = cl[c]
  BY <1>2, <1>3, <1>4
<1>6. TypeOK' BY <1>2, <1>5 DEF IInv, TypeOK, server
<1>7. RegisteredOpen' BY <1>2, <1>3, <1>5 DEF IInv, RegisteredOpen, ReadLocked
<1>8. UnconnectedOpen' BY <1>2, <1>5 DEF IInv, UnconnectedOpen
<1> QED BY <1>2, <1>6, <1>7, <1>8 DEF IInv, NoDoubleClose

\* Every step of the hub keeps it.
LEMMA HubStepKeeps == ASSUME IInv, HubStep PROVE IInv'
<1>1. CASE Receive
  BY <1>1, CapAssumption
  DEF Receive, IInv, TypeOK, RegisteredOpen, UnconnectedOpen, ReadLocked, NoDoubleClose
<1>2. CASE EndRound
  BY <1>2 DEF EndRound, IInv, TypeOK, RegisteredOpen, UnconnectedOpen, ReadLocked, NoDoubleClose, server
<1> QED BY <1>1, <1>2, SendOneKeeps, ReapKeeps DEF HubStep

\* Callers of Broadcast keep it.
LEMMA CallerKeeps ==
    ASSUME IInv, NEW b \in Callers, Broadcast(b) \/ BroadcastSend(b) PROVE IInv'
<1> USE DEF IInv, TypeOK, RegisteredOpen, UnconnectedOpen, ReadLocked, NoDoubleClose, hubVars
<1>1. CASE Broadcast(b) BY <1>1 DEF Broadcast
<1>2. CASE BroadcastSend(b)
  <2>1. queued' \in 0 .. BroadcastCap BY <1>2, CapAssumption DEF BroadcastSend
  <2>2. crash' \in {crash, "broadcast"} BY <1>2 DEF BroadcastSend, Panic
  <2> QED BY <1>2, <2>1, <2>2 DEF BroadcastSend, Panics
<1> QED BY <1>1, <1>2

-----------------------------------------------------------------------------

\* The invariant holds of every reachable state: the channel of a registered client is
\* open whatever its goroutines, the broadcast goroutine, callers and Shutdown do.
THEOREM HubInductive == Spec => []IInv
<1>1. Init => IInv
  <2> SUFFICES ASSUME Init PROVE IInv OBVIOUS
  <2>1. NewClient \in Client BY CapAssumption DEF NewClient, Client, Pump
  <2>2. cl \in [Clients -> Client] /\ queued \in 0 .. BroadcastCap
    BY <2>1, CapAssumption DEF Init
  <2>3. TypeOK BY <2>2 DEF Init, TypeOK
  <2>4. RegisteredOpen /\ UnconnectedOpen
    BY DEF Init, NewClient, RegisteredOpen, UnconnectedOpen, ReadLocked
  <2> QED BY <2>3, <2>4 DEF IInv, Init, NoDoubleClose
<1>2. ASSUME IInv, [Next]_vars PROVE IInv'
  <2>1. ASSUME NEW c \in Clients, ClientStep(c) \/ Disconnect(c) PROVE IInv'
    BY <1>2, <2>1, ClientStepOwn, OwnKeeps DEF IInv
  <2>2. ASSUME NEW c \in Clients, ~ReadLocked /\ Locking(c) PROVE IInv'
    BY <1>2, <2>2, LockingKeeps
  <2>3. CASE HubStep BY <1>2, <2>3, HubStepKeeps
  <2>4. ASSUME NEW b \in Callers, Broadcast(b) \/ BroadcastSend(b) PROVE IInv'
    BY <1>2, <2>4, CallerKeeps
  <2>5. CASE Shutdown
    BY <1>2, <2>5
    DEF Shutdown, IInv, TypeOK, RegisteredOpen, UnconnectedOpen, ReadLocked, NoDoubleClose, hubVars
  <2>6. CASE UNCHANGED vars
    BY <1>2, <2>6 DEF vars, hubVars, server, IInv, TypeOK, RegisteredOpen, UnconnectedOpen, ReadLocked,
       NoDoubleClose
  <2> QED BY <1>2, <2>1, <2>2, <2>3, <2>4, <2>5, <2>6 DEF Next
<1> QED BY <1>1, <1>2, PTL DEF Spec

\* No interleaving of handleBroadcast's reaping of slow clients with UnregisterClient
\* closes a client's channel twice.
THEOREM NeverClosedTwice == Spec => []NoDoubleClose
BY HubInductive, PTL DEF IInv

\* handleBroadcast, which does not look at done, only ever sends to open channels.
THEOREM RegisteredAlwaysOpen == Spec => []RegisteredOpen
BY HubInductive, PTL DEF IInv

\* Once Shutdown has set the flag and no caller outside an HTTP handler is between its look
\* at the flag and its send, no call of Broadcast ends the program, whatever handlers do.
THEOREM OnlyCaughtCallersPanic == Spec => OnlyTheCaughtPanic
<1> DEFINE Calm == closed /\ (\A b \in Background : caller[b] = "idle") /\ crash # "broadcast"
<1>1. ASSUME Calm, [Next]_vars PROVE Calm'
  <2> USE <1>1 DEF hubVars, server, Panic
  <2>1. ASSUME NEW c \in Clients, ClientStep(c) PROVE Calm'
    BY <2>1 DEF ClientStep, InitialState, SendPeriodicMetrics, Tick, Deliver, ReadMessage, HandleRequest,
       ReadFails, ReadPumpCloses, WriteMessage, PingFails, CloseDone, WritePumpCloses
  <2>2. ASSUME NEW c \in Clients, Locking(c) \/ Disconnect(c) PROVE Calm'
    BY <2>2 DEF Locking, HandleWebSocket, UnregisterClient, Disconnect
  <2>3. CASE HubStep BY <2>3 DEF HubStep, Receive, SendOne, EndRound, Reap
  <2>4. ASSUME NEW b \in Callers, Broadcast(b) \/ BroadcastSend(b) PROVE Calm'
    <3>1. BroadcastSend(b) BY <2>4 DEF Broadcast
    <3>2. b \notin Background /\ closed' BY <3>1 DEF BroadcastSend
    <3>3. crash' = crash BY <3>1, <3>2 DEF BroadcastSend
    <3>4. caller' = [caller EXCEPT ![b] = "idle"] BY <3>1 DEF BroadcastSend
    <3>5. \A d \in Background : caller'[d] = caller[d] BY <3>2, <3>4
    <3> QED BY <3>2, <3>3, <3>5
  <2>5. CASE Shutdown BY <2>5 DEF Shutdown
  <2>6. CASE UNCHANGED vars BY <2>6 DEF vars
  <2> QED BY <2>1, <2>2, <2>3, <2>4, <2>5, <2>6 DEF Next
<1>2. closed /\ Running /\ (\A b \in Background : caller[b] = "idle") => Calm
  BY DEF Running
<1>3. Calm => crash # "broadcast" OBVIOUS
<1> HIDE DEF Calm
<1> QED BY <1>1, <1>2, <1>3, PTL DEF Spec, OnlyTheCaughtPanic

=============================================================================
