------------------------ MODULE ProcessManagerProofs ------------------------
(***************************************************************************)
(* For any number of threads: as long as nobody resets, every process that *)
(* callers see has a page table or is a child being forked, no page table  *)
(* is lost except one of a child terminated during its fork, process       *)
(* numbers are unique and ActiveProcesses counts the page tables.          *)
(***************************************************************************)
EXTENDS ProcessManager, FiniteSetTheorems, TLAPS

\* Adding an element to a finite set of numbers or taking one away moves its
\* cardinality by one.
LEMMA CountPIDs ==
    ASSUME NEW S \in SUBSET PIDs
    PROVE  /\ Cardinality(S) \in Nat
           /\ \A x \in PIDs \ S : Cardinality(S \cup {x}) = Cardinality(S) + 1
           /\ \A x \in S : Cardinality(S \ {x}) = Cardinality(S) - 1 /\ Cardinality(S) >= 1
<1>1. IsFiniteSet(PIDs) BY MaxPIDAssumption, FS_Interval DEF PIDs
<1>2. IsFiniteSet(S) BY <1>1, FS_Subset
<1>3. Cardinality(S) \in Nat BY <1>2, FS_CardinalityType
<1>4. ASSUME NEW x \in S PROVE Cardinality(S \ {x}) = Cardinality(S) - 1 /\ Cardinality(S) >= 1
  <2>1. Cardinality(S \ {x}) = Cardinality(S) - 1 BY <1>2, FS_RemoveElement
  <2>2. Cardinality(S) # 0 BY <1>2, FS_EmptySet
  <2> QED BY <1>3, <2>1, <2>2
<1>5. \A x \in PIDs \ S : Cardinality(S \cup {x}) = Cardinality(S) + 1
  BY <1>2, FS_AddElement
<1> QED BY <1>3, <1>4, <1>5

\* The same for sets of threads.
LEMMA CountThreads ==
    ASSUME NEW S \in SUBSET Threads
    PROVE  /\ Cardinality(S) \in Nat
           /\ \A x \in Threads \ S : Cardinality(S \cup {x}) = Cardinality(S) + 1
           /\ \A x \in S : Cardinality(S \ {x}) = Cardinality(S) - 1 /\ Cardinality(S) >= 1
<1>2. IsFiniteSet(S) BY ThreadsAssumption, FS_Subset
<1>3. Cardinality(S) \in Nat BY <1>2, FS_CardinalityType
<1>4. ASSUME NEW x \in S PROVE Cardinality(S \ {x}) = Cardinality(S) - 1 /\ Cardinality(S) >= 1
  <2>1. Cardinality(S \ {x}) = Cardinality(S) - 1 BY <1>2, FS_RemoveElement
  <2>2. Cardinality(S) # 0 BY <1>2, FS_EmptySet
  <2> QED BY <1>3, <2>1, <2>2
<1>5. \A x \in Threads \ S : Cardinality(S \cup {x}) = Cardinality(S) + 1
  BY <1>2, FS_AddElement
<1> QED BY <1>3, <1>4, <1>5

\* The updates of an operation in flight, as operators for the provers.
Move(c, st) == [c EXCEPT !.at = st]
MoveWith(c, st, x) == [c EXCEPT !.at = st, !.pid = x]
MoveFrom(c, st, x) == [c EXCEPT !.at = st, !.parent = x]

\* What they do to its fields.
LEMMA CallUpdates ==
    ASSUME NEW c \in Call, NEW st \in Steps, NEW x \in PIDs
    PROVE  /\ Move(c, st) \in Call /\ Move(c, st).at = st /\ Move(c, st).pid = c.pid
           /\ MoveWith(c, st, x) \in Call /\ MoveWith(c, st, x).at = st
           /\ MoveWith(c, st, x).pid = x
           /\ MoveFrom(c, st, x) \in Call /\ MoveFrom(c, st, x).at = st
<1>1. /\ c = [at |-> c.at, pid |-> c.pid, parent |-> c.parent, todo |-> c.todo]
      /\ c.at \in Steps /\ c.pid \in PIDs /\ c.parent \in PIDs /\ c.todo \in SUBSET PIDs
  BY DEF Call
<1> QED BY <1>1 DEF Call, Move, MoveWith, MoveFrom

\* The one that moves it on and leaves the rest.
LEMMA MoveKeeps ==
    ASSUME NEW c \in Call, NEW st \in Steps
    PROVE  Move(c, st) \in Call /\ Move(c, st).at = st /\ Move(c, st).pid = c.pid
<1>1. c.pid \in PIDs BY DEF Call
<1> QED BY <1>1, CallUpdates

\* A step of thread t changes the operation of no other thread.
LEMMA Moved ==
    ASSUME Typed, NEW t \in Threads, NEW c \in Call, Goto(t, c)
    PROVE  /\ call' \in [Threads -> Call] /\ call'[t] = c
           /\ \A u \in Threads \ {t} : call'[u] = call[u]
BY DEF Typed, Goto

\* The threads that have yet to draw a number, before and after a step of t.
LEMMA DrawingMoves ==
    ASSUME Typed, NEW t \in Threads, NEW c \in Call, Goto(t, c)
    PROVE  /\ Cardinality(Drawing) \in Nat
           /\ ~At(t, "forkDraw") /\ c.at # "forkDraw" => Drawing' = Drawing
           /\ ~At(t, "forkDraw") /\ c.at = "forkDraw" =>
                Cardinality(Drawing') = Cardinality(Drawing) + 1
           /\ At(t, "forkDraw") /\ c.at # "forkDraw" =>
                Cardinality(Drawing') = Cardinality(Drawing) - 1 /\ Cardinality(Drawing) >= 1
<1>1. call'[t] = c /\ \A u \in Threads \ {t} : call'[u] = call[u] BY Moved
<1>2. Drawing \in SUBSET Threads BY DEF Drawing
<1>3. ~At(t, "forkDraw") /\ c.at # "forkDraw" => Drawing' = Drawing BY <1>1 DEF Drawing, At
<1>4. ~At(t, "forkDraw") /\ c.at = "forkDraw" => Drawing' = Drawing \cup {t} /\ t \notin Drawing
  BY <1>1 DEF Drawing, At
<1>5. At(t, "forkDraw") /\ c.at # "forkDraw" => Drawing' = Drawing \ {t} /\ t \in Drawing
  BY <1>1 DEF Drawing, At
<1> QED BY <1>2, <1>3, <1>4, <1>5, CountThreads

\* The initial state satisfies the inductive invariant.
LEMMA InitSound == Init => Sound
<1> SUFFICES ASSUME Init PROVE Sound OBVIOUS
<1>1. Idle \in Call BY MaxPIDAssumption DEF Idle, Call, Steps, PIDs
<1>2. call \in [Threads -> Call] /\ \A t \in Threads : call[t].at = "idle"
  BY <1>1 DEF Init, Idle
<1>3. Typed BY <1>2, MaxPIDAssumption DEF Init, Typed, PIDs
<1>4. Drawing = {} BY <1>2 DEF Drawing, At
<1>5. Budget BY <1>4, FS_EmptySet, MaxPIDAssumption DEF Init, Budget
<1>6. TablesCounted BY FS_EmptySet DEF Init, TablesCounted
<1>7. NotResetting /\ Drawn /\ Tabled /\ RemovedUnseen /\ ForkSeen
  BY <1>2 DEF Init, NotResetting, Drawn, Tabled, RemovedUnseen, ForkSeen, At
<1>8. NumbersApart /\ SeenTabled /\ TableOwned
  BY <1>2 DEF Init, NumbersApart, SeenTabled, TableOwned, Making, Creating, Forking
<1> QED BY <1>3, <1>5, <1>6, <1>7, <1>8 DEF Sound

\* Steps that only look: an access, or the first half of a fork.
LEMMA QuietSound ==
    ASSUME Sound, NEW t \in Threads, NEW c \in Call, Goto(t, c), UNCHANGED <<pm, mm>>,
           call[t].at \in {"idle", "access"}, c.at \in {"idle", "access", "forkDraw"},
           c.at = "access" => c.pid <= nextPID, c.at = "forkDraw" => Room
    PROVE  Sound'
<1>1. Typed BY DEF Sound
<1>2. /\ call' \in [Threads -> Call] /\ call'[t] = c
      /\ \A u \in Threads \ {t} : call'[u] = call[u]
  BY <1>1, Moved
<1>3. processes' = processes /\ nextPID' = nextPID /\ tables' = tables /\ active' = active
      /\ missed' = missed
  BY DEF pm, mm
<1>4. Typed' BY <1>1, <1>2, <1>3 DEF Typed
<1>5. Budget'
  <2>1. ~At(t, "forkDraw") BY DEF At
  <2>2. nextPID \in Nat /\ MaxPID \in Nat BY <1>1, MaxPIDAssumption DEF Typed, PIDs
  <2> QED BY <1>1, <1>3, <2>1, <2>2, DrawingMoves DEF Sound, Budget, Room
<1>6. TablesCounted' /\ NotResetting' BY <1>2, <1>3 DEF Sound, TablesCounted, NotResetting
<1>7. Drawn' BY <1>2, <1>3 DEF Sound, Drawn
<1>8. Tabled' BY <1>2, <1>3 DEF Sound, Tabled, At
<1>9. RemovedUnseen' BY <1>2, <1>3 DEF Sound, RemovedUnseen, At
<1>10. \A u \in Threads, pid \in PIDs :
         /\ Making(u, pid)' <=> Making(u, pid)
         /\ Forking(u, pid)' <=> Forking(u, pid)
         /\ Removing(u, pid)' <=> Removing(u, pid)
  BY <1>2 DEF Making, Creating, Forking, Removing, At
<1>11. ForkSeen' BY <1>1, <1>2, <1>3, <1>10 DEF Sound, ForkSeen, At, Typed, Call
<1>12. NumbersApart' BY <1>2, <1>3, <1>10 DEF Sound, NumbersApart
<1>13. processes \subseteq PIDs /\ tables \subseteq PIDs BY <1>1 DEF Typed
<1>14. SeenTabled' BY <1>3, <1>10, <1>13 DEF Sound, SeenTabled
<1>15. TableOwned' BY <1>3, <1>10, <1>13 DEF Sound, TableOwned
<1> QED BY <1>4, <1>5, <1>6, <1>7, <1>8, <1>9, <1>11, <1>12, <1>14, <1>15 DEF Sound

\* A number is drawn, for a process to be created or forked.
LEMMA DrawSound ==
    ASSUME Sound, NEW t \in Threads, NEW c \in Call, Goto(t, c),
           call[t].at \in {"idle", "forkDraw"}, c.at \in {"createTable", "forkPublish"},
           c.pid = nextPID + 1, nextPID' = nextPID + 1, Budget',
           processes' = processes, UNCHANGED mm
    PROVE  Sound'
<1>1. Typed BY DEF Sound
<1>2. /\ call' \in [Threads -> Call] /\ call'[t] = c
      /\ \A u \in Threads \ {t} : call'[u] = call[u]
  BY <1>1, Moved
<1>3. tables' = tables /\ active' = active /\ missed' = missed BY DEF mm
<1>4. Typed' BY <1>1, <1>2, <1>3 DEF Typed, Call
<1>5. nextPID \in Nat /\ (\A u \in Threads : call[u].pid \in Nat) /\ PIDs \subseteq Nat
  BY <1>1 DEF Typed, Call, PIDs
<1>6. TablesCounted' /\ NotResetting' BY <1>2, <1>3 DEF Sound, TablesCounted, NotResetting
<1>7. Drawn' BY <1>1, <1>2, <1>3, <1>5 DEF Sound, Drawn, Typed
<1>8. Tabled' BY <1>2, <1>3 DEF Sound, Tabled, At
<1>9. RemovedUnseen' BY <1>2, <1>3, <1>5 DEF Sound, RemovedUnseen, At, Drawn
<1>10. ASSUME NEW u \in Threads, NEW pid \in PIDs
       PROVE  /\ Making(u, pid)' <=> (Making(u, pid) \/ (u = t /\ pid = c.pid))
              /\ Forking(u, pid) => Forking(u, pid)'
              /\ Removing(u, pid)' <=> Removing(u, pid)
              /\ Making(u, pid) => pid <= nextPID
  <2>1. Making(u, pid) => pid <= nextPID BY DEF Sound, Drawn, Making, Creating, Forking
  <2>2. CASE u = t BY <1>2, <2>1, <2>2 DEF Making, Creating, Forking, Removing, At
  <2>3. CASE u # t BY <1>2, <2>1, <2>3 DEF Making, Creating, Forking, Removing, At
  <2> QED BY <2>2, <2>3
<1>11. ForkSeen' BY <1>1, <1>2, <1>3, <1>10 DEF Sound, ForkSeen, At, Typed, Call
<1>12. NumbersApart'
  <2>0. \A u \in Threads : ~Making(u, c.pid) /\ c.pid \in PIDs
    BY <1>5, <1>10 DEF Call
  <2>1. \A u, w \in Threads, pid \in PIDs : u # w /\ Making(u, pid)' => ~Making(w, pid)'
    BY <1>10, <2>0 DEF Sound, NumbersApart
  <2>2. \A u \in Threads : call'[u].at \in {"createTable", "forkPublish"}
          => call'[u].pid \notin processes' \cup tables'
    BY <1>1, <1>2, <1>3, <1>5 DEF Sound, NumbersApart, Drawn, Typed
  <2> QED BY <2>1, <2>2 DEF NumbersApart
<1>13. processes \subseteq PIDs /\ tables \subseteq PIDs BY <1>1 DEF Typed
<1>14. SeenTabled' BY <1>3, <1>10, <1>13 DEF Sound, SeenTabled
<1>15. TableOwned' BY <1>3, <1>10, <1>13 DEF Sound, TableOwned
<1> QED BY <1>4, <1>6, <1>7, <1>8, <1>9, <1>11, <1>12, <1>14, <1>15 DEF Sound

\* A created process becomes visible: it has a table, and nobody else has it in hand.
LEMMA CreatePublishSound ==
    ASSUME Sound, NEW t \in Threads, NEW c \in Call, Goto(t, c),
           At(t, "publish"), c.at = "idle",
           processes' = processes \cup {call[t].pid}, nextPID' = nextPID, UNCHANGED mm
    PROVE  Sound'
<1>1. Typed BY DEF Sound
<1>2. /\ call' \in [Threads -> Call] /\ call'[t] = c
      /\ \A u \in Threads \ {t} : call'[u] = call[u]
  BY <1>1, Moved
<1>3. /\ c.pid \in PIDs /\ (\A u \in Threads : call[u].pid \in PIDs)
      /\ processes \subseteq PIDs /\ tables \subseteq PIDs
  BY <1>1 DEF Typed, Call
<1>0. tables' = tables /\ active' = active /\ missed' = missed BY DEF mm
<1>4. Typed' BY <1>1, <1>2, <1>3, <1>0 DEF Typed
<1>5. Budget'
  <2>1. ~At(t, "forkDraw") BY DEF At
  <2> QED BY <1>1, <1>0, <2>1, DrawingMoves DEF Sound, Budget
<1>6. NotResetting' BY <1>2 DEF Sound, NotResetting
<1>7. Drawn' BY <1>2, <1>0 DEF Sound, Drawn, At
<1>8. call[t].pid \in tables /\ call[t].pid \notin processes BY DEF Sound, Tabled
<1>9. ASSUME NEW u \in Threads \ {t}
      PROVE  ~Making(u, call[t].pid) /\ ~Removing(u, call[t].pid)
  <2>1. Making(t, call[t].pid) BY DEF Making, Creating, At
  <2>2. ~Making(u, call[t].pid) BY <1>3, <2>1 DEF Sound, NumbersApart
  <2>3. ~Removing(u, call[t].pid) BY DEF Sound, RemovedUnseen, Removing, At
  <2> QED BY <2>2, <2>3
<1>10. ASSUME NEW u \in Threads, NEW pid \in PIDs
       PROVE  /\ Making(u, pid)' => Making(u, pid)
              /\ Making(u, pid) /\ pid # call[t].pid => Making(u, pid)'
              /\ Forking(u, pid) => Forking(u, pid)'
              /\ Removing(u, pid)' <=> Removing(u, pid)
  <2>1. CASE u = t BY <1>2, <2>1 DEF Making, Creating, Forking, Removing, At
  <2>2. CASE u # t BY <1>2, <2>2 DEF Making, Creating, Forking, Removing, At
  <2> QED BY <2>1, <2>2
<1>11. Tabled'
  <2>1. \A u \in Threads \ {t} : At(u, "publish") => call[u].pid # call[t].pid
    BY <1>9 DEF Making, Creating, At
  <2> QED BY <1>2, <1>0, <2>1 DEF Sound, Tabled, At
<1>12. RemovedUnseen'
  <2>1. \A u \in Threads \ {t} : At(u, "removeTable") => call[u].pid # call[t].pid
    BY <1>9 DEF Removing
  <2> QED BY <1>2, <1>0, <2>1 DEF Sound, RemovedUnseen, At
<1>13. ForkSeen' BY <1>2, <1>3, <1>0, <1>10 DEF Sound, ForkSeen, At
<1>14. NumbersApart'
  <2>1. \A u \in Threads \ {t} :
          call[u].at \in {"createTable", "forkPublish"} => call[u].pid # call[t].pid
    BY <1>9 DEF Making, Creating, Forking
  <2>2. \A u \in Threads : call'[u].at \in {"createTable", "forkPublish"}
          => call'[u].pid \notin processes' \cup tables'
    BY <1>2, <1>0, <2>1 DEF Sound, NumbersApart
  <2>3. \A u, w \in Threads, pid \in PIDs : u # w /\ Making(u, pid)' => ~Making(w, pid)'
    BY <1>10 DEF Sound, NumbersApart
  <2> QED BY <2>2, <2>3 DEF NumbersApart
<1>15. SeenTabled' BY <1>3, <1>8, <1>0, <1>10 DEF Sound, SeenTabled
<1>16. TableOwned' BY <1>3, <1>0, <1>10 DEF Sound, TableOwned
<1>17. TablesCounted' BY <1>0 DEF Sound, TablesCounted
<1> QED BY <1>4, <1>5, <1>6, <1>7, <1>11, <1>12, <1>13, <1>14, <1>15, <1>16, <1>17 DEF Sound

\* The child of a fork becomes visible, without a table, while the fork is in progress.
LEMMA ForkPublishSound ==
    ASSUME Sound, NEW t \in Threads, NEW c \in Call, Goto(t, c),
           At(t, "forkPublish"), c.at = "forkTable", c.pid = call[t].pid,
           processes' = processes \cup {c.pid}, nextPID' = nextPID, UNCHANGED mm
    PROVE  Sound'
<1>1. Typed BY DEF Sound
<1>2. /\ call' \in [Threads -> Call] /\ call'[t] = c
      /\ \A u \in Threads \ {t} : call'[u] = call[u]
  BY <1>1, Moved
<1>3. /\ c.pid \in PIDs /\ (\A u \in Threads : call[u].pid \in PIDs)
      /\ processes \subseteq PIDs /\ tables \subseteq PIDs
  BY <1>1 DEF Typed, Call
<1>0. tables' = tables /\ active' = active /\ missed' = missed BY DEF mm
<1>4. Typed' BY <1>1, <1>2, <1>3, <1>0 DEF Typed
<1>5. Budget'
  <2>1. ~At(t, "forkDraw") BY DEF At
  <2> QED BY <1>1, <1>0, <2>1, DrawingMoves DEF Sound, Budget
<1>6. NotResetting' BY <1>2 DEF Sound, NotResetting
<1>7. Drawn' BY <1>2, <1>3, <1>0 DEF Sound, Drawn, At
<1>8. c.pid \notin processes /\ c.pid \notin tables BY DEF Sound, NumbersApart, At
<1>9. ASSUME NEW u \in Threads \ {t}
      PROVE  ~Making(u, call[t].pid) /\ ~Removing(u, call[t].pid)
  <2>1. Making(t, call[t].pid) BY DEF Making, Creating, Forking, At
  <2>2. ~Making(u, call[t].pid) BY <1>3, <2>1 DEF Sound, NumbersApart
  <2>3. ~Removing(u, call[t].pid) BY DEF Sound, RemovedUnseen, Removing, At
  <2> QED BY <2>2, <2>3
<1>10. ASSUME NEW u \in Threads, NEW pid \in PIDs
       PROVE  /\ Making(u, pid)' <=> Making(u, pid)
              /\ Forking(u, pid)' <=> Forking(u, pid)
              /\ Removing(u, pid)' <=> Removing(u, pid)
  <2>1. CASE u = t BY <1>2, <2>1 DEF Making, Creating, Forking, Removing, At
  <2>2. CASE u # t BY <1>2, <2>2 DEF Making, Creating, Forking, Removing, At
  <2> QED BY <2>1, <2>2
<1>11. Tabled'
  <2>1. \A u \in Threads \ {t} : At(u, "publish") => call[u].pid # c.pid
    BY <1>9 DEF Making, Creating, At
  <2> QED BY <1>2, <1>8, <1>0, <2>1 DEF Sound, Tabled, At
<1>12. RemovedUnseen'
  <2>1. \A u \in Threads \ {t} : At(u, "removeTable") => call[u].pid # c.pid
    BY <1>9 DEF Removing
  <2> QED BY <1>2, <1>0, <2>1 DEF Sound, RemovedUnseen, At
<1>13. ForkSeen' BY <1>2, <1>3, <1>0, <1>10 DEF Sound, ForkSeen, At
<1>14. NumbersApart'
  <2>1. \A u \in Threads \ {t} :
          call[u].at \in {"createTable", "forkPublish"} => call[u].pid # c.pid
    BY <1>9 DEF Making, Creating, Forking
  <2>2. \A u \in Threads : call'[u].at \in {"createTable", "forkPublish"}
          => call'[u].pid \notin processes' \cup tables'
    BY <1>2, <1>0, <2>1 DEF Sound, NumbersApart
  <2>3. \A u, w \in Threads, pid \in PIDs : u # w /\ Making(u, pid)' => ~Making(w, pid)'
    BY <1>10 DEF Sound, NumbersApart
  <2> QED BY <2>2, <2>3 DEF NumbersApart
<1>15. SeenTabled'
  <2>1. Forking(t, c.pid)' BY <1>2 DEF Forking
  <2> QED BY <1>3, <1>0, <1>10, <2>1 DEF Sound, SeenTabled
<1>16. TableOwned' BY <1>3, <1>0, <1>10 DEF Sound, TableOwned
<1>17. TablesCounted' BY <1>0 DEF Sound, TablesCounted
<1> QED BY <1>4, <1>5, <1>6, <1>7, <1>11, <1>12, <1>13, <1>14, <1>15, <1>16, <1>17 DEF Sound

\* A created process gets its table before it is visible.
LEMMA CreateTableSound ==
    ASSUME Sound, NEW t \in Threads, NEW c \in Call, Goto(t, c),
           At(t, "createTable"), c.at = "publish", c.pid = call[t].pid,
           tables' = tables \cup {c.pid}, active' = active + 1, missed' = missed, UNCHANGED pm
    PROVE  Sound'
<1>1. Typed BY DEF Sound
<1>2. /\ call' \in [Threads -> Call] /\ call'[t] = c
      /\ \A u \in Threads \ {t} : call'[u] = call[u]
  BY <1>1, Moved
<1>3. /\ c.pid \in PIDs /\ (\A u \in Threads : call[u].pid \in PIDs)
      /\ processes \subseteq PIDs /\ tables \subseteq PIDs
  BY <1>1 DEF Typed, Call
<1>0. processes' = processes /\ nextPID' = nextPID /\ missed' = missed BY DEF pm
<1>8. c.pid \notin tables BY DEF Sound, NumbersApart, Tabled, At
<1>17. active' \in Nat /\ TablesCounted'
  <2>1. tables \in SUBSET PIDs /\ c.pid \in PIDs \ tables /\ active \in Nat
    BY <1>1, <1>3, <1>8 DEF Typed
  <2>2. Cardinality(tables \cup {c.pid}) = Cardinality(tables) + 1 BY <2>1, CountPIDs
  <2> QED BY <2>1, <2>2 DEF Sound, TablesCounted
<1>4. Typed' BY <1>1, <1>2, <1>3, <1>0, <1>17 DEF Typed
<1>5. Budget'
  <2>1. ~At(t, "forkDraw") BY DEF At
  <2> QED BY <1>1, <1>0, <2>1, DrawingMoves DEF Sound, Budget
<1>6. NotResetting' BY <1>2 DEF Sound, NotResetting
<1>7. Drawn' BY <1>2, <1>3, <1>0 DEF Sound, Drawn, At
<1>9. ASSUME NEW u \in Threads \ {t}
      PROVE  ~Making(u, call[t].pid) /\ ~Removing(u, call[t].pid)
  <2>1. Making(t, call[t].pid) BY DEF Making, Creating, Forking, At
  <2>2. ~Making(u, call[t].pid) BY <1>3, <2>1 DEF Sound, NumbersApart
  <2>3. ~Removing(u, call[t].pid) BY DEF Sound, RemovedUnseen, Removing, At
  <2> QED BY <2>2, <2>3
<1>10. ASSUME NEW u \in Threads, NEW pid \in PIDs
       PROVE  /\ Making(u, pid)' <=> Making(u, pid)
              /\ Forking(u, pid)' <=> Forking(u, pid)
              /\ Removing(u, pid)' <=> Removing(u, pid)
  <2>1. CASE u = t BY <1>2, <2>1 DEF Making, Creating, Forking, Removing, At
  <2>2. CASE u # t BY <1>2, <2>2 DEF Making, Creating, Forking, Removing, At
  <2> QED BY <2>1, <2>2
<1>11. Tabled'
  <2>1. \A u \in Threads \ {t} :
          call[u].at \in {"forkTable", "unpublish"} => call[u].pid # c.pid
    BY <1>9 DEF Making, Forking
  <2>2. c.pid \notin processes BY DEF Sound, NumbersApart, At
  <2> QED BY <1>2, <1>0, <2>1, <2>2 DEF Sound, Tabled, At
<1>12. RemovedUnseen' BY <1>2, <1>0 DEF Sound, RemovedUnseen, At
<1>13. ForkSeen' BY <1>2, <1>3, <1>0, <1>10 DEF Sound, ForkSeen, At
<1>14. NumbersApart'
  <2>1. \A u \in Threads \ {t} :
          call[u].at \in {"createTable", "forkPublish"} => call[u].pid # c.pid
    BY <1>9 DEF Making, Creating, Forking
  <2>2. \A u \in Threads : call'[u].at \in {"createTable", "forkPublish"}
          => call'[u].pid \notin processes' \cup tables'
    BY <1>2, <1>0, <2>1 DEF Sound, NumbersApart
  <2>3. \A u, w \in Threads, pid \in PIDs : u # w /\ Making(u, pid)' => ~Making(w, pid)'
    BY <1>10 DEF Sound, NumbersApart
  <2> QED BY <2>2, <2>3 DEF NumbersApart
<1>15. SeenTabled' BY <1>3, <1>0, <1>10 DEF Sound, SeenTabled
<1>16. TableOwned'
  <2>1. Making(t, c.pid)' BY <1>2 DEF Making, Creating
  <2> QED BY <1>3, <1>0, <1>10, <2>1 DEF Sound, TableOwned
<1> QED BY <1>4, <1>5, <1>6, <1>7, <1>11, <1>12, <1>13, <1>14, <1>15, <1>16, <1>17 DEF Sound

\* The child gets its table, and is visible unless it has been terminated meanwhile.
LEMMA ForkTableSound ==
    ASSUME Sound, NEW t \in Threads, NEW c \in Call, Goto(t, c),
           At(t, "forkTable"), c.at = "idle",
           tables' = tables \cup {call[t].pid}, active' = active + 1, missed' = missed,
           UNCHANGED pm
    PROVE  Sound'
<1>1. Typed BY DEF Sound
<1>2. /\ call' \in [Threads -> Call] /\ call'[t] = c
      /\ \A u \in Threads \ {t} : call'[u] = call[u]
  BY <1>1, Moved
<1>3. /\ c.pid \in PIDs /\ (\A u \in Threads : call[u].pid \in PIDs)
      /\ processes \subseteq PIDs /\ tables \subseteq PIDs
  BY <1>1 DEF Typed, Call
<1>0. processes' = processes /\ nextPID' = nextPID /\ missed' = missed BY DEF pm
<1>8. call[t].pid \notin tables BY DEF Sound, NumbersApart, Tabled, At
<1>17. active' \in Nat /\ TablesCounted'
  <2>1. tables \in SUBSET PIDs /\ call[t].pid \in PIDs \ tables /\ active \in Nat
    BY <1>1, <1>3, <1>8 DEF Typed
  <2>2. Cardinality(tables \cup {call[t].pid}) = Cardinality(tables) + 1 BY <2>1, CountPIDs
  <2> QED BY <2>1, <2>2 DEF Sound, TablesCounted
<1>4. Typed' BY <1>1, <1>2, <1>3, <1>0, <1>17 DEF Typed
<1>5. Budget'
  <2>1. ~At(t, "forkDraw") BY DEF At
  <2> QED BY <1>1, <1>0, <2>1, DrawingMoves DEF Sound, Budget
<1>6. NotResetting' BY <1>2 DEF Sound, NotResetting
<1>7. Drawn' BY <1>2, <1>3, <1>0 DEF Sound, Drawn, At
<1>9. ASSUME NEW u \in Threads \ {t} PROVE ~Making(u, call[t].pid)
  <2>1. Making(t, call[t].pid) BY DEF Making, Creating, Forking, At
  <2> QED BY <1>3, <2>1 DEF Sound, NumbersApart
<1>10. ASSUME NEW u \in Threads, NEW pid \in PIDs
       PROVE  /\ Making(u, pid)' => Making(u, pid)
              /\ Making(u, pid) /\ pid # call[t].pid => Making(u, pid)'
              /\ Forking(u, pid) /\ pid # call[t].pid => Forking(u, pid)'
              /\ Removing(u, pid)' <=> Removing(u, pid)
  <2>1. CASE u = t BY <1>2, <2>1 DEF Making, Creating, Forking, Removing, At
  <2>2. CASE u # t BY <1>2, <2>2 DEF Making, Creating, Forking, Removing, At
  <2> QED BY <2>1, <2>2
<1>11. Tabled'
  <2>1. \A u \in Threads \ {t} :
          call[u].at \in {"forkTable", "unpublish"} => call[u].pid # call[t].pid
    BY <1>9 DEF Making, Forking
  <2> QED BY <1>2, <1>0, <2>1 DEF Sound, Tabled, At
<1>12. RemovedUnseen' BY <1>2, <1>0 DEF Sound, RemovedUnseen, At
<1>13. ForkSeen' BY <1>2, <1>3, <1>0, <1>10 DEF Sound, ForkSeen, At
<1>14. NumbersApart'
  <2>1. \A u \in Threads \ {t} :
          call[u].at \in {"createTable", "forkPublish"} => call[u].pid # call[t].pid
    BY <1>9 DEF Making, Creating, Forking
  <2>2. \A u \in Threads : call'[u].at \in {"createTable", "forkPublish"}
          => call'[u].pid \notin processes' \cup tables'
    BY <1>2, <1>0, <2>1 DEF Sound, NumbersApart
  <2>3. \A u, w \in Threads, pid \in PIDs : u # w /\ Making(u, pid)' => ~Making(w, pid)'
    BY <1>10 DEF Sound, NumbersApart
  <2> QED BY <2>2, <2>3 DEF NumbersApart
<1>15. SeenTabled' BY <1>3, <1>0, <1>10 DEF Sound, SeenTabled
<1>16. TableOwned'
  <2>1. call[t].pid \in processes \cup missed \/ \E u \in Threads : Removing(u, call[t].pid)
    BY DEF Sound, ForkSeen
  <2> QED BY <1>3, <1>0, <1>10, <2>1 DEF Sound, TableOwned
<1> QED BY <1>4, <1>5, <1>6, <1>7, <1>11, <1>12, <1>13, <1>14, <1>15, <1>16, <1>17 DEF Sound

\* The parent's table is gone: the child is to be taken back.
LEMMA ForkFailsSound ==
    ASSUME Sound, NEW t \in Threads, NEW c \in Call, Goto(t, c),
           At(t, "forkTable"), c.at = "unpublish", c.pid = call[t].pid, UNCHANGED <<pm, mm>>
    PROVE  Sound'
<1>1. Typed BY DEF Sound
<1>2. /\ call' \in [Threads -> Call] /\ call'[t] = c
      /\ \A u \in Threads \ {t} : call'[u] = call[u]
  BY <1>1, Moved
<1>3. /\ c.pid \in PIDs /\ (\A u \in Threads : call[u].pid \in PIDs)
      /\ processes \subseteq PIDs /\ tables \subseteq PIDs
  BY <1>1 DEF Typed, Call
<1>0. /\ processes' = processes /\ nextPID' = nextPID
      /\ tables' = tables /\ active' = active /\ missed' = missed
  BY DEF pm, mm
<1>4. Typed' BY <1>1, <1>2, <1>0 DEF Typed
<1>5. Budget'
  <2>1. ~At(t, "forkDraw") BY DEF At
  <2> QED BY <1>1, <1>0, <2>1, DrawingMoves DEF Sound, Budget
<1>6. NotResetting' BY <1>2 DEF Sound, NotResetting
<1>7. Drawn' BY <1>2, <1>3, <1>0 DEF Sound, Drawn, At
<1>10. ASSUME NEW u \in Threads, NEW pid \in PIDs
       PROVE  /\ Making(u, pid)' <=> Making(u, pid)
              /\ Forking(u, pid)' <=> Forking(u, pid)
              /\ Removing(u, pid)' <=> Removing(u, pid)
  <2>1. CASE u = t BY <1>2, <2>1 DEF Making, Creating, Forking, Removing, At
  <2>2. CASE u # t BY <1>2, <2>2 DEF Making, Creating, Forking, Removing, At
  <2> QED BY <2>1, <2>2
<1>11. Tabled' BY <1>2, <1>0 DEF Sound, Tabled, At
<1>12. RemovedUnseen' BY <1>2, <1>0 DEF Sound, RemovedUnseen, At
<1>13. ForkSeen' BY <1>2, <1>3, <1>0, <1>10 DEF Sound, ForkSeen, At
<1>14. NumbersApart' BY <1>2, <1>0, <1>10 DEF Sound, NumbersApart
<1>15. SeenTabled' BY <1>3, <1>0, <1>10 DEF Sound, SeenTabled
<1>16. TableOwned' BY <1>3, <1>0, <1>10 DEF Sound, TableOwned
<1>17. TablesCounted' BY <1>0 DEF Sound, TablesCounted
<1> QED BY <1>4, <1>5, <1>6, <1>7, <1>11, <1>12, <1>13, <1>14, <1>15, <1>16, <1>17 DEF Sound

\* The child of a failed fork is taken back: it has no table.
LEMMA UnpublishSound ==
    ASSUME Sound, NEW t \in Threads, NEW c \in Call, Goto(t, c),
           At(t, "unpublish"), c.at = "idle",
           processes' = processes \ {call[t].pid}, nextPID' = nextPID, UNCHANGED mm
    PROVE  Sound'
<1>1. Typed BY DEF Sound
<1>2. /\ call' \in [Threads -> Call] /\ call'[t] = c
      /\ \A u \in Threads \ {t} : call'[u] = call[u]
  BY <1>1, Moved
<1>3. /\ c.pid \in PIDs /\ (\A u \in Threads : call[u].pid \in PIDs)
      /\ processes \subseteq PIDs /\ tables \subseteq PIDs
  BY <1>1 DEF Typed, Call
<1>0. tables' = tables /\ active' = active /\ missed' = missed BY DEF mm
<1>4. Typed' BY <1>1, <1>2, <1>3, <1>0 DEF Typed
<1>5. Budget'
  <2>1. ~At(t, "forkDraw") BY DEF At
  <2> QED BY <1>1, <1>0, <2>1, DrawingMoves DEF Sound, Budget
<1>6. NotResetting' BY <1>2 DEF Sound, NotResetting
<1>7. Drawn' BY <1>2, <1>3, <1>0 DEF Sound, Drawn, At
<1>9. ASSUME NEW u \in Threads \ {t} PROVE ~Making(u, call[t].pid)
  <2>1. Making(t, call[t].pid) BY DEF Making, Creating, Forking, At
  <2> QED BY <1>3, <2>1 DEF Sound, NumbersApart
<1>10. ASSUME NEW u \in Threads, NEW pid \in PIDs
       PROVE  /\ Making(u, pid)' => Making(u, pid)
              /\ Making(u, pid) /\ pid # call[t].pid => Making(u, pid)'
              /\ Forking(u, pid) /\ pid # call[t].pid => Forking(u, pid)'
              /\ Removing(u, pid)' <=> Removing(u, pid)
  <2>1. CASE u = t BY <1>2, <2>1 DEF Making, Creating, Forking, Removing, At
  <2>2. CASE u # t BY <1>2, <2>2 DEF Making, Creating, Forking, Removing, At
  <2> QED BY <2>1, <2>2
<1>8. call[t].pid \notin tables BY DEF Sound, Tabled, At
<1>11. Tabled' BY <1>2, <1>0 DEF Sound, Tabled, At
<1>12. RemovedUnseen' BY <1>2, <1>0 DEF Sound, RemovedUnseen, At
<1>13. ForkSeen'
  <2>1. \A u \in Threads \ {t} : At(u, "forkTable") => call[u].pid # call[t].pid
    BY <1>9 DEF Making, Forking, At
  <2> QED BY <1>2, <1>3, <1>0, <1>10, <2>1 DEF Sound, ForkSeen, At
<1>14. NumbersApart' BY <1>2, <1>0, <1>10 DEF Sound, NumbersApart
<1>15. SeenTabled' BY <1>3, <1>0, <1>10 DEF Sound, SeenTabled
<1>16. TableOwned' BY <1>3, <1>8, <1>0, <1>10 DEF Sound, TableOwned
<1>17. TablesCounted' BY <1>0 DEF Sound, TablesCounted
<1> QED BY <1>4, <1>5, <1>6, <1>7, <1>11, <1>12, <1>13, <1>14, <1>15, <1>16, <1>17 DEF Sound

\* A terminated process disappears from view first; its table is in hand.
LEMMA TerminateSound ==
    ASSUME Sound, NEW t \in Threads, NEW c \in Call, Goto(t, c),
           At(t, "idle"), c.at = "removeTable", c.pid \in processes,
           processes' = processes \ {c.pid}, nextPID' = nextPID, UNCHANGED mm
    PROVE  Sound'
<1>1. Typed BY DEF Sound
<1>2. /\ call' \in [Threads -> Call] /\ call'[t] = c
      /\ \A u \in Threads \ {t} : call'[u] = call[u]
  BY <1>1, Moved
<1>3. /\ c.pid \in PIDs /\ (\A u \in Threads : call[u].pid \in PIDs)
      /\ processes \subseteq PIDs /\ tables \subseteq PIDs
  BY <1>1 DEF Typed, Call
<1>0. tables' = tables /\ active' = active /\ missed' = missed BY DEF mm
<1>4. Typed' BY <1>1, <1>2, <1>3, <1>0 DEF Typed
<1>5. Budget'
  <2>1. ~At(t, "forkDraw") BY DEF At
  <2> QED BY <1>1, <1>0, <2>1, DrawingMoves DEF Sound, Budget
<1>6. NotResetting' BY <1>2 DEF Sound, NotResetting
<1>7. Drawn' BY <1>2, <1>3, <1>0 DEF Sound, Drawn, At
<1>10. ASSUME NEW u \in Threads, NEW pid \in PIDs
       PROVE  /\ Making(u, pid)' <=> Making(u, pid)
              /\ Forking(u, pid)' <=> Forking(u, pid)
              /\ Removing(u, pid)' <=> (Removing(u, pid) \/ (u = t /\ pid = c.pid))
  <2>1. CASE u = t BY <1>2, <2>1 DEF Making, Creating, Forking, Removing, At
  <2>2. CASE u # t BY <1>2, <2>2 DEF Making, Creating, Forking, Removing, At
  <2> QED BY <2>1, <2>2
<1>11. Tabled' BY <1>2, <1>0 DEF Sound, Tabled, At
<1>12. RemovedUnseen'
  <2>1. \A u \in Threads : call[u].at \in {"createTable", "publish", "forkPublish"}
          => call[u].pid # c.pid
    BY DEF Sound, NumbersApart, Tabled, At
  <2> QED BY <1>2, <1>0, <2>1 DEF Sound, RemovedUnseen, At
<1>13. ForkSeen' BY <1>2, <1>3, <1>0, <1>10 DEF Sound, ForkSeen, At
<1>14. NumbersApart' BY <1>2, <1>0, <1>10 DEF Sound, NumbersApart
<1>15. SeenTabled' BY <1>3, <1>0, <1>10 DEF Sound, SeenTabled
<1>16. TableOwned' BY <1>3, <1>0, <1>10 DEF Sound, TableOwned
<1>17. TablesCounted' BY <1>0 DEF Sound, TablesCounted
<1> QED BY <1>4, <1>5, <1>6, <1>7, <1>11, <1>12, <1>13, <1>14, <1>15, <1>16, <1>17 DEF Sound

\* The table of a terminated process is removed; if there is none yet, the fork that makes it goes on, and that is recorded.
LEMMA RemoveSound ==
    ASSUME Sound, NEW t \in Threads, NEW c \in Call, Goto(t, c),
           At(t, "removeTable"), c.at = "idle",
           tables' = tables \ {call[t].pid},
           active' = IF call[t].pid \in tables THEN active - 1 ELSE active,
           missed' = missed \cup ({call[t].pid} \ tables), UNCHANGED pm
    PROVE  Sound'
<1>1. Typed BY DEF Sound
<1>2. /\ call' \in [Threads -> Call] /\ call'[t] = c
      /\ \A u \in Threads \ {t} : call'[u] = call[u]
  BY <1>1, Moved
<1>3. /\ c.pid \in PIDs /\ (\A u \in Threads : call[u].pid \in PIDs)
      /\ processes \subseteq PIDs /\ tables \subseteq PIDs
  BY <1>1 DEF Typed, Call
<1>0. processes' = processes /\ nextPID' = nextPID BY DEF pm
<1>8. active' \in Nat /\ TablesCounted'
  <2>1. tables \in SUBSET PIDs /\ active \in Nat /\ active = Cardinality(tables)
    BY <1>1 DEF Typed, Sound, TablesCounted
  <2>2. CASE call[t].pid \in tables
    <3>1. /\ Cardinality(tables \ {call[t].pid}) = Cardinality(tables) - 1
          /\ Cardinality(tables) >= 1
      BY <2>1, <2>2, CountPIDs
    <3> QED BY <2>1, <2>2, <3>1 DEF TablesCounted
  <2>3. CASE call[t].pid \notin tables
    <3>1. tables' = tables BY <2>3
    <3> QED BY <2>1, <2>3, <3>1 DEF TablesCounted
  <2> QED BY <2>2, <2>3
<1>17. TablesCounted' BY <1>8
<1>4. Typed' BY <1>1, <1>2, <1>3, <1>0, <1>8 DEF Typed
<1>5. Budget'
  <2>1. ~At(t, "forkDraw") BY DEF At
  <2> QED BY <1>1, <1>0, <2>1, DrawingMoves DEF Sound, Budget
<1>6. NotResetting' BY <1>2 DEF Sound, NotResetting
<1>7. Drawn' BY <1>2, <1>3, <1>0 DEF Sound, Drawn, At
<1>10. ASSUME NEW u \in Threads, NEW pid \in PIDs
       PROVE  /\ Making(u, pid)' <=> Making(u, pid)
              /\ Forking(u, pid)' <=> Forking(u, pid)
              /\ Removing(u, pid)' => Removing(u, pid)
              /\ Removing(u, pid) /\ pid # call[t].pid => Removing(u, pid)'
  <2>1. CASE u = t BY <1>2, <2>1 DEF Making, Creating, Forking, Removing, At
  <2>2. CASE u # t BY <1>2, <2>2 DEF Making, Creating, Forking, Removing, At
  <2> QED BY <2>1, <2>2
<1>9. call[t].pid \notin processes
      /\ \A u \in Threads : call[u].at \in {"createTable", "publish", "forkPublish"} =>
              call[u].pid # call[t].pid
  BY DEF Sound, RemovedUnseen
<1>11. Tabled' BY <1>2, <1>9, <1>0 DEF Sound, Tabled, At
<1>12. RemovedUnseen' BY <1>2, <1>0 DEF Sound, RemovedUnseen, At
<1>13. ForkSeen'
  <2> SUFFICES ASSUME NEW u \in Threads, call'[u].at = "forkTable"
               PROVE  \/ call'[u].pid \in processes' \cup missed'
                      \/ \E w \in Threads :
                           call'[w].at = "removeTable" /\ call'[w].pid = call'[u].pid
    BY DEF ForkSeen, Removing, At
  <2>1. u # t /\ call'[u] = call[u] /\ At(u, "forkTable") BY <1>2 DEF At
  <2>2. call[u].pid \notin tables BY <2>1 DEF Sound, Tabled, At
  <2>3. \/ call[u].pid \in processes \cup missed
        \/ \E w \in Threads : call[w].at = "removeTable" /\ call[w].pid = call[u].pid
    BY <2>1 DEF Sound, ForkSeen, Removing, At
  <2>4. CASE call[u].pid = call[t].pid BY <2>1, <2>2, <2>4
  <2>5. CASE call[u].pid # call[t].pid BY <1>2, <1>0, <2>1, <2>3, <2>5
  <2> QED BY <2>4, <2>5
<1>14. NumbersApart' BY <1>2, <1>0, <1>10 DEF Sound, NumbersApart
<1>15. SeenTabled' BY <1>3, <1>9, <1>0, <1>10 DEF Sound, SeenTabled
<1>16. TableOwned' BY <1>3, <1>0, <1>10 DEF Sound, TableOwned
<1> QED BY <1>4, <1>5, <1>6, <1>7, <1>11, <1>12, <1>13, <1>14, <1>15, <1>16, <1>17 DEF Sound

\* Every step preserves the inductive invariant, unless it begins a reset.
LEMMA NextSound ==
    ASSUME Sound, [Next]_vars, \A t \in Threads : ~Reset(t)
    PROVE  Sound'
<1>1. Typed BY DEF Sound
<1>2. /\ Idle \in Call /\ nextPID \in Nat /\ nextPID + 1 \in Nat
      /\ \A t \in Threads : call[t] \in Call
      /\ \A t \in Threads : call[t].pid \in PIDs
  BY <1>1, MaxPIDAssumption DEF Typed, Idle, Call, Steps, PIDs
<1>0. /\ "createTable" \in Steps /\ "publish" \in Steps /\ "removeTable" \in Steps
      /\ "forkDraw" \in Steps /\ "forkPublish" \in Steps /\ "forkTable" \in Steps
      /\ "unpublish" \in Steps /\ "access" \in Steps
  BY DEF Steps
<1>3. ASSUME NEW t \in Threads, CreateProcess(t) PROVE Sound'
  <2> DEFINE n == nextPID + 1
  <2> DEFINE c == MoveWith(Idle, "createTable", n)
  <2>1. Cardinality(Drawing) \in Nat BY CountThreads DEF Drawing
  <2>2. n \in PIDs
    BY <1>2, <1>3, <2>1, MaxPIDAssumption DEF CreateProcess, Room, PIDs
  <2>3. c \in Call /\ c.at = "createTable" /\ c.pid = n
    <3> HIDE DEF n
    <3> QED BY <1>2, <1>0, <2>2, CallUpdates
  <2>4. /\ Goto(t, c) /\ nextPID' = nextPID + 1 /\ processes' = processes /\ UNCHANGED mm
        /\ call[t].at = "idle" /\ Room
    BY <1>3 DEF CreateProcess, Begin, At, Move, MoveWith, MoveFrom
  <2> HIDE DEF c
  <2>5. Drawing' = Drawing BY <1>1, <2>3, <2>4, DrawingMoves DEF At
  <2>6. Budget' BY <1>2, <2>1, <2>4, <2>5, MaxPIDAssumption DEF Budget, Room
  <2> QED BY <2>3, <2>4, <2>6, DrawSound
<1>4. ASSUME NEW t \in Threads, ForkDraw(t) PROVE Sound'
  <2> DEFINE n == nextPID + 1
  <2> DEFINE c == MoveWith(call[t], "forkPublish", n)
  <2>1. Cardinality(Drawing) \in Nat /\ Cardinality(Drawing) >= 1
    BY <1>4, CountThreads DEF Drawing, ForkDraw
  <2>2. n \in PIDs
    BY <1>2, <2>1, MaxPIDAssumption DEF Sound, Budget, PIDs
  <2>3. c \in Call /\ c.at = "forkPublish" /\ c.pid = n
    <3>1. call[t] \in Call /\ "forkPublish" \in Steps BY <1>2, <1>0
    <3> HIDE DEF n
    <3> QED BY <2>2, <3>1, CallUpdates
  <2>4. /\ Goto(t, c) /\ nextPID' = nextPID + 1 /\ processes' = processes /\ UNCHANGED mm
        /\ call[t].at = "forkDraw"
    BY <1>4 DEF ForkDraw, At, Move, MoveWith, MoveFrom
  <2> HIDE DEF c
  <2>5. Cardinality(Drawing') = Cardinality(Drawing) - 1
    BY <1>1, <2>3, <2>4, DrawingMoves DEF At
  <2>6. Budget' BY <1>2, <2>1, <2>4, <2>5, MaxPIDAssumption DEF Sound, Budget
  <2> QED BY <2>3, <2>4, <2>6, DrawSound
<1>5. ASSUME NEW t \in Threads, NEW pid \in PIDs, AccessMemory(t, pid) PROVE Sound'
  <2> DEFINE c == MoveWith(Idle, "access", pid)
  <2>1. c \in Call /\ c.at = "access" /\ c.pid = pid BY <1>2, <1>0, CallUpdates
  <2>2. /\ Goto(t, c) /\ UNCHANGED <<pm, mm>> /\ call[t].at = "idle" /\ pid <= nextPID
    BY <1>5 DEF AccessMemory, Begin, At, Sound, Drawn, Move, MoveWith, MoveFrom
  <2> HIDE DEF c
  <2> QED BY <2>1, <2>2, QuietSound
<1>6. ASSUME NEW t \in Threads, AccessServe(t) PROVE Sound'
  <2>1. Idle.at = "idle" BY DEF Idle
  <2>2. Goto(t, Idle) /\ UNCHANGED <<pm, mm>> /\ call[t].at = "access"
    BY <1>6 DEF AccessServe, Return, At
  <2> QED BY <1>2, <2>1, <2>2, QuietSound
<1>7. ASSUME NEW t \in Threads, NEW parent \in PIDs, ForkProcess(t, parent) PROVE Sound'
  <2> DEFINE c == MoveFrom(Idle, "forkDraw", parent)
  <2>1. c \in Call /\ c.at = "forkDraw" BY <1>2, <1>0, CallUpdates
  <2>2. Goto(t, c) /\ UNCHANGED <<pm, mm>> /\ call[t].at = "idle" /\ Room
    BY <1>7 DEF ForkProcess, Begin, At, Move, MoveWith, MoveFrom
  <2> HIDE DEF c
  <2> QED BY <2>1, <2>2, QuietSound
<1>8. ASSUME NEW t \in Threads, CreateTable(t) PROVE Sound'
  <2> DEFINE c == Move(call[t], "publish")
  <2>0. call[t] \in Call /\ "publish" \in Steps BY <1>2, <1>0
  <2>1. c \in Call /\ c.at = "publish" /\ c.pid = call[t].pid BY <2>0, MoveKeeps
  <2>2. call[t].pid \notin tables BY <1>8 DEF CreateTable, Sound, NumbersApart, At
  <2>3. /\ Goto(t, c) /\ At(t, "createTable") /\ tables' = tables \cup {c.pid}
        /\ active' = active + 1 /\ missed' = missed /\ UNCHANGED pm
    BY <1>8, <2>1, <2>2 DEF CreateTable, Step, Move, MoveWith, MoveFrom
  <2> HIDE DEF c
  <2> QED BY <2>1, <2>3, CreateTableSound
<1>9. ASSUME NEW t \in Threads, CreatePublish(t) PROVE Sound'
  <2>1. Idle.at = "idle" BY DEF Idle
  <2> QED BY <1>2, <1>9, <2>1, CreatePublishSound DEF CreatePublish, Return
<1>10. ASSUME NEW t \in Threads, NEW pid \in PIDs, TerminateProcess(t, pid) PROVE Sound'
  <2> DEFINE c == MoveWith(Idle, "removeTable", pid)
  <2>1. c \in Call /\ c.at = "removeTable" /\ c.pid = pid BY <1>2, <1>0, CallUpdates
  <2>2. /\ Goto(t, c) /\ At(t, "idle") /\ pid \in processes
        /\ processes' = processes \ {pid} /\ nextPID' = nextPID /\ UNCHANGED mm
    BY <1>10 DEF TerminateProcess, Begin, Move, MoveWith, MoveFrom
  <2> HIDE DEF c
  <2> QED BY <2>1, <2>2, TerminateSound
<1>11. ASSUME NEW t \in Threads, TerminateRemove(t) PROVE Sound'
  <2>1. Idle.at = "idle" BY DEF Idle
  <2> QED BY <1>2, <1>11, <2>1, RemoveSound DEF TerminateRemove, Return, RemoveTable
<1>12. ASSUME NEW t \in Threads, ForkPublish(t) PROVE Sound'
  <2> DEFINE c == Move(call[t], "forkTable")
  <2>0. call[t] \in Call /\ "forkTable" \in Steps BY <1>2, <1>0
  <2>1. c \in Call /\ c.at = "forkTable" /\ c.pid = call[t].pid BY <2>0, MoveKeeps
  <2>2. /\ Goto(t, c) /\ At(t, "forkPublish") /\ processes' = processes \cup {c.pid}
        /\ nextPID' = nextPID /\ UNCHANGED mm
    BY <1>12, <2>1 DEF ForkPublish, Step, Move, MoveWith, MoveFrom
  <2> HIDE DEF c
  <2> QED BY <2>1, <2>2, ForkPublishSound
<1>13. ASSUME NEW t \in Threads, ForkTable(t) PROVE Sound'
  <2>1. CASE call[t].parent \in tables
    <3>1. Idle.at = "idle" BY DEF Idle
    <3> QED BY <1>2, <1>13, <2>1, <3>1, ForkTableSound DEF ForkTable, Return
  <2>2. CASE call[t].parent \notin tables
    <3> DEFINE c == Move(call[t], "unpublish")
    <3>0. call[t] \in Call /\ "unpublish" \in Steps BY <1>2, <1>0
    <3>1. c \in Call /\ c.at = "unpublish" /\ c.pid = call[t].pid BY <3>0, MoveKeeps
    <3>2. Goto(t, c) /\ At(t, "forkTable") /\ UNCHANGED <<pm, mm>>
      BY <1>13, <2>2 DEF ForkTable, Step, mm, Move, MoveWith, MoveFrom
    <3> HIDE DEF c
    <3> QED BY <3>1, <3>2, ForkFailsSound
  <2> QED BY <2>1, <2>2
<1>14. ASSUME NEW t \in Threads, ForkUnpublish(t) PROVE Sound'
  <2>1. Idle.at = "idle" BY DEF Idle
  <2> QED BY <1>2, <1>14, <2>1, UnpublishSound DEF ForkUnpublish, Return
<1>15. ASSUME NEW t \in Threads PROVE ~Reset(t) /\ ~ResetForget(t) /\ ~ResetMM(t)
                                   /\ \A pid \in PIDs : ~ResetRemove(t, pid)
  BY DEF Reset, ResetForget, ResetMM, ResetRemove, Begin, At, Sound, NotResetting
<1>16. CASE UNCHANGED vars
  <2>1. /\ processes' = processes /\ nextPID' = nextPID /\ tables' = tables
        /\ active' = active /\ missed' = missed /\ call' = call
    BY <1>16 DEF vars, pm, mm
  <2>2. Drawing' = Drawing BY <2>1 DEF Drawing, At
  <2> QED BY <2>1, <2>2 DEF Sound, Typed, NotResetting, Budget, Drawn, Tabled, RemovedUnseen,
        ForkSeen, NumbersApart, TablesCounted, SeenTabled, TableOwned,
        Making, Creating, Forking, Removing, At
<1> QED BY <1>3, <1>4, <1>5, <1>6, <1>7, <1>8, <1>9, <1>10, <1>11, <1>12, <1>13, <1>14, <1>15,
           <1>16 DEF Next, Start, Continue

\* The inductive invariant holds: until somebody resets, everything in Sound does.
LEMMA Inductive == Spec => []IInv
<1>1. Init => IInv BY InitSound DEF Init, IInv
<1>2. IInv /\ [Next]_vars => IInv'
  <2> SUFFICES ASSUME IInv, [Next]_vars PROVE IInv' OBVIOUS
  <2>1. (\E t \in Threads : Reset(t)) => wasReset' = TRUE BY DEF Reset
  <2>2. wasReset' \in BOOLEAN /\ (wasReset => wasReset')
    BY DEF IInv, Next, Start, Continue, CreateProcess, CreateTable, CreatePublish,
           TerminateProcess, TerminateRemove, ForkProcess, ForkDraw, ForkPublish, ForkTable,
           ForkUnpublish, AccessMemory, AccessServe, Reset, ResetRemove, ResetForget, ResetMM,
           vars, pm
  <2>3. CASE \E t \in Threads : Reset(t) BY <2>1, <2>2, <2>3 DEF IInv
  <2>4. CASE \A t \in Threads : ~Reset(t)
    <3>1. ~wasReset => Sound' BY <2>4, NextSound DEF IInv
    <3> QED BY <2>2, <3>1 DEF IInv
  <2> QED BY <2>3, <2>4
<1> QED BY <1>1, <1>2, PTL DEF Spec

\* Until somebody resets, a process that callers of the ProcessManager see has a
\* page table, or is the child of a fork in progress.
THEOREM VisibleAlwaysHasTable == Spec => []VisibleHasTable
<1>1. IInv => VisibleHasTable BY DEF IInv, Sound, VisibleHasTable
<1> QED BY <1>1, Inductive, PTL

\* Until somebody resets, the only page table without an owner is that of a child
\* terminated between ForkProcess's two critical sections.
THEOREM TableAlwaysHasOwner == Spec => []TableHasOwner
<1>1. IInv => TableHasOwner BY DEF IInv, Sound, TableHasOwner
<1> QED BY <1>1, Inductive, PTL

\* Until somebody resets, nextPID gives every process a number of its own.
THEOREM PIDsAlwaysUnique == Spec => []PIDsUnique
<1>1. IInv => PIDsUnique BY DEF IInv, Sound, PIDsUnique
<1> QED BY <1>1, Inductive, PTL

\* Until somebody resets, the metric ActiveProcesses counts the page tables.
THEOREM ActiveAlwaysCounts == Spec => []ActiveCounts
<1>1. IInv => ActiveCounts BY DEF IInv, Sound, ActiveCounts
<1> QED BY <1>1, Inductive, PTL

-----------------------------------------------------------------------------
(* The metric, resets included *)

\* What the steps keep of the metric, whether or not somebody has reset.
Counted == IsFiniteSet(tables) /\ active \in Int /\ NeverUndercounts

\* A table is made, and counted.
LEMMA MakeCounted ==
    ASSUME Counted, NEW pid, tables' = tables \cup {pid}, active' = active + 1
    PROVE  Counted'
<1>1. IsFiniteSet(tables') /\ Cardinality(tables') <= Cardinality(tables) + 1
  <2>1. IsFiniteSet(tables) /\ Cardinality(tables) \in Nat BY FS_CardinalityType DEF Counted
  <2>2. CASE pid \in tables
    <3>1. tables' = tables BY <2>2
    <3> QED BY <2>1, <3>1
  <2>3. CASE pid \notin tables
    <3>1. IsFiniteSet(tables \cup {pid}) /\ Cardinality(tables \cup {pid}) = Cardinality(tables) + 1
      BY <2>1, <2>3, FS_AddElement
    <3> QED BY <2>1, <3>1
  <2> QED BY <2>2, <2>3
<1>2. Cardinality(tables) \in Nat /\ Cardinality(tables') \in Nat
  BY <1>1, FS_CardinalityType DEF Counted
<1> QED BY <1>1, <1>2 DEF Counted, NeverUndercounts

\* A table is removed, and counted if there was one.
LEMMA RemoveCounted ==
    ASSUME Counted, NEW pid, RemoveTable(pid)
    PROVE  Counted'
<1>1. CASE pid \in tables
  <2>1. IsFiniteSet(tables') /\ Cardinality(tables') = Cardinality(tables) - 1
    BY <1>1, FS_RemoveElement DEF Counted, RemoveTable
  <2>2. Cardinality(tables) \in Nat BY FS_CardinalityType DEF Counted
  <2> QED BY <1>1, <2>1, <2>2 DEF Counted, NeverUndercounts, RemoveTable
<1>2. CASE pid \notin tables
  <2>1. tables' = tables /\ active' = active BY <1>2 DEF RemoveTable
  <2> QED BY <2>1 DEF Counted, NeverUndercounts
<1> QED BY <1>1, <1>2

\* Whatever is created, forked, terminated and reset concurrently, ActiveProcesses is at
\* least the number of page tables, so that removing them all never makes it negative.
THEOREM ActiveNeverUndercounts == Spec => []NeverUndercounts
<1>1. Init => Counted
  BY FS_EmptySet DEF Init, Counted, NeverUndercounts
<1>2. ASSUME Counted, [Next]_vars PROVE Counted'
  <2>1. CASE UNCHANGED <<tables, active>>
    BY <1>2, <2>1 DEF Counted, NeverUndercounts
  <2>2. ASSUME NEW t \in Threads, CreateTable(t) \/ ForkTable(t) PROVE Counted'
    BY <1>2, <2>1, <2>2, MakeCounted DEF CreateTable, ForkTable
  <2>3. ASSUME NEW t \in Threads, TerminateRemove(t) \/ (\E pid \in PIDs : ResetRemove(t, pid))
        PROVE  Counted'
    BY <1>2, <2>3, RemoveCounted DEF TerminateRemove, ResetRemove
  <2>4. ASSUME NEW t \in Threads, ResetMM(t) PROVE Counted'
    <3>1. Cardinality(tables) \in Nat BY <1>2, FS_CardinalityType DEF Counted
    <3> QED BY <1>2, <2>4, <3>1, FS_EmptySet DEF Counted, NeverUndercounts, ResetMM
  <2>5. ASSUME NEW t \in Threads,
               Start(t) \/ CreatePublish(t) \/ ForkDraw(t) \/ ForkPublish(t) \/ ForkUnpublish(t)
                 \/ AccessServe(t) \/ ResetForget(t)
        PROVE  UNCHANGED <<tables, active>>
    BY <2>5 DEF Start, CreateProcess, Reset, TerminateProcess, ForkProcess, AccessMemory,
       CreatePublish, ForkDraw, ForkPublish, ForkUnpublish, AccessServe, ResetForget, mm
  <2>6. CASE UNCHANGED vars BY <2>1, <2>6 DEF vars, mm
  <2> QED BY <1>2, <2>1, <2>2, <2>3, <2>4, <2>5, <2>6 DEF Next, Continue
<1>3. Counted => NeverUndercounts BY DEF Counted
<1> QED BY <1>1, <1>2, <1>3, PTL DEF Spec

-----------------------------------------------------------------------------
(* The refinement of ProcessLife *)

\* Where a thread that makes a process can be, and whether somebody makes process pid.
MakingAt == {"createTable", "publish", "forkPublish", "forkTable", "unpublish"}
Makes(pid) == \E t \in Threads : Making(t, pid)

\* What a step of thread t does to the processes being made.
LEMMA MakesMoves ==
    ASSUME Typed, NEW t \in Threads, NEW c \in Call, Goto(t, c), NEW pid \in PIDs
    PROVE  /\ Makes(pid) <=> \/ call[t].pid = pid /\ call[t].at \in MakingAt
                             \/ \E u \in Threads \ {t} : Making(u, pid)
           /\ Makes(pid)' <=> \/ c.pid = pid /\ c.at \in MakingAt
                              \/ \E u \in Threads \ {t} : Making(u, pid)
<1>1. call'[t] = c /\ \A u \in Threads \ {t} : call'[u] = call[u] BY Moved
<1>2. ASSUME NEW u \in Threads
      PROVE  /\ Making(u, pid) <=> call[u].pid = pid /\ call[u].at \in MakingAt
             /\ Making(u, pid)' <=> call'[u].pid = pid /\ call'[u].at \in MakingAt
  BY DEF Making, Creating, Forking, MakingAt
<1>3. \A u \in Threads \ {t} : Making(u, pid)' <=> Making(u, pid) BY <1>1, <1>2
<1>4. Making(t, pid)' <=> c.pid = pid /\ c.at \in MakingAt BY <1>1, <1>2
<1> QED BY <1>2, <1>3, <1>4 DEF Makes

\* The life of a number does not change if its table does not, nor whether it may still
\* be made.
LEMMA SameLife ==
    ASSUME NEW pid \in PIDs, pid \in tables' <=> pid \in tables,
           pid \notin tables => (pid > nextPID' \/ Makes(pid)' <=> pid > nextPID \/ Makes(pid))
    PROVE  LifeOf(pid)' = LifeOf(pid)
BY DEF LifeOf, Makes

\* A step in which no number's life changes is a stutter, and one in which that of one
\* number changes as ProcessLife allows is a step of ProcessLife.
LEMMA TurnLife ==
    ASSUME ~wasReset, UNCHANGED wasReset, NEW x \in PIDs,
           \A pid \in PIDs \ {x} : LifeOf(pid)' = LifeOf(pid),
           \/ LifeOf(x)' = LifeOf(x)
           \/ LifeOf(x) = "unborn" /\ LifeOf(x)' \in {"alive", "dead"}
           \/ LifeOf(x) = "alive" /\ LifeOf(x)' = "dead"
    PROVE  [Life!Next]_<<[pid \in Numbers |-> LifeOf(pid)], wasReset>>
<1> DEFINE before == [pid \in Numbers |-> LifeOf(pid)]
           after  == [pid \in Numbers |-> LifeOf(pid)']
<1>1. Numbers \subseteq PIDs BY DEF Numbers
<1>2. CASE x \notin Numbers \/ LifeOf(x)' = LifeOf(x)
  <2>1. after = before BY <1>1, <1>2
  <2> QED BY <2>1
<1>3. CASE x \in Numbers /\ LifeOf(x)' # LifeOf(x)
  <2>1. before[x] = LifeOf(x) /\ after = [before EXCEPT ![x] = LifeOf(x)'] BY <1>1, <1>3
  <2>2. Life!Birth(x) \/ Life!Stillbirth(x) \/ Life!Death(x)
    BY <1>3, <2>1 DEF Life!Birth, Life!Stillbirth, Life!Death, Life!Turns
  <2> QED BY <1>3, <2>2 DEF Life!Next
<1> QED BY <1>2, <1>3

\* A step that makes and removes no table, and after which the same numbers are being
\* made, or one that was not drawn before is, changes no life.
LEMMA QuietLife ==
    ASSUME Sound, NEW t \in Threads, NEW c \in Call, Goto(t, c), tables' = tables,
           \/ nextPID' = nextPID /\ call[t].at \notin MakingAt /\ c.at \notin MakingAt
           \/ nextPID' = nextPID /\ call[t].at \in MakingAt /\ c.at \in MakingAt /\ c.pid = call[t].pid
           \/ nextPID' = nextPID /\ call[t].pid \in tables /\ c.at \notin MakingAt
           \/ /\ nextPID' = nextPID + 1 /\ call[t].at \notin MakingAt
              /\ c.at \in MakingAt /\ c.pid = nextPID + 1
    PROVE  \A pid \in PIDs : LifeOf(pid)' = LifeOf(pid)
<1> SUFFICES ASSUME NEW pid \in PIDs PROVE LifeOf(pid)' = LifeOf(pid) OBVIOUS
<1>1. Typed BY DEF Sound
<1>2. pid \in Int /\ nextPID \in Int BY <1>1 DEF Typed, PIDs
<1>3. pid \notin tables => (pid > nextPID' \/ Makes(pid)' <=> pid > nextPID \/ Makes(pid))
  BY <1>1, <1>2, MakesMoves
<1> QED BY <1>3, SameLife

\* The number that a thread makes is unborn, and nobody else makes it.
LEMMA MadeUnborn ==
    ASSUME Sound, NEW t \in Threads, call[t].at \in MakingAt
    PROVE  /\ call[t].pid \in PIDs /\ call[t].pid <= nextPID
           /\ call[t].pid \notin tables => LifeOf(call[t].pid) = "unborn"
           /\ \A u \in Threads \ {t} : ~Making(u, call[t].pid)
<1>1. call[t].pid \in PIDs BY DEF Sound, Typed, Call
<1>2. Making(t, call[t].pid) BY DEF Making, Creating, Forking, MakingAt
<1>3. call[t].pid <= nextPID BY DEF Sound, Drawn, MakingAt
<1> QED BY <1>1, <1>2, <1>3 DEF LifeOf, Sound, NumbersApart

\* A table is made: its number is born.
LEMMA BornLife ==
    ASSUME Sound, ~wasReset, UNCHANGED wasReset, NEW t \in Threads, NEW c \in Call, Goto(t, c),
           call[t].at \in MakingAt, call[t].pid \notin tables,
           tables' = tables \cup {call[t].pid}, nextPID' = nextPID,
           c.at \in MakingAt => c.pid = call[t].pid
    PROVE  [Life!Next]_<<[pid \in Numbers |-> LifeOf(pid)], wasReset>>
<1>0. PICK x \in PIDs : x = call[t].pid BY MadeUnborn
<1>1. Typed BY DEF Sound
<1>2. LifeOf(x) = "unborn" BY <1>0, MadeUnborn
<1>3. LifeOf(x)' = "alive" BY <1>0 DEF LifeOf
<1>4. ASSUME NEW pid \in PIDs \ {x} PROVE LifeOf(pid)' = LifeOf(pid)
  BY <1>0, <1>1, MakesMoves, SameLife
<1> QED BY <1>2, <1>3, <1>4, TurnLife

\* Until somebody resets, every step is a step of ProcessLife or a stutter.
LEMMA NextLife ==
    ASSUME Sound, ~wasReset, UNCHANGED wasReset, [Next]_vars
    PROVE  [Life!Next]_<<[pid \in Numbers |-> LifeOf(pid)], wasReset>>
<1>1. Typed BY DEF Sound
<1>2. /\ Idle \in Call /\ Idle.at = "idle" /\ nextPID \in Nat /\ 1 \in PIDs
      /\ \A t \in Threads : call[t] \in Call /\ call[t].pid \in PIDs
  BY <1>1, MaxPIDAssumption DEF Typed, Idle, Call, Steps, PIDs
<1>0. /\ "createTable" \in Steps /\ "publish" \in Steps /\ "removeTable" \in Steps
      /\ "forkDraw" \in Steps /\ "forkPublish" \in Steps /\ "forkTable" \in Steps
      /\ "unpublish" \in Steps /\ "access" \in Steps
  BY DEF Steps
<1>3. ASSUME \A pid \in PIDs : LifeOf(pid)' = LifeOf(pid)
      PROVE  [Life!Next]_<<[pid \in Numbers |-> LifeOf(pid)], wasReset>>
  BY <1>2, <1>3, TurnLife
<1>4. ASSUME NEW t \in Threads, CreateProcess(t) PROVE \A pid \in PIDs : LifeOf(pid)' = LifeOf(pid)
  <2> DEFINE n == nextPID + 1
  <2> DEFINE c == MoveWith(Idle, "createTable", n)
  <2>1. Cardinality(Drawing) \in Nat BY CountThreads DEF Drawing
  <2>2. n \in PIDs BY <1>2, <1>4, <2>1, MaxPIDAssumption DEF CreateProcess, Room, PIDs
  <2>3. c \in Call /\ c.at = "createTable" /\ c.pid = n
    <3> HIDE DEF n
    <3> QED BY <1>2, <1>0, <2>2, CallUpdates
  <2>4. Goto(t, c) /\ nextPID' = nextPID + 1 /\ tables' = tables /\ call[t].at = "idle"
    BY <1>4 DEF CreateProcess, Begin, At, MoveWith, mm
  <2> HIDE DEF c
  <2> QED BY <2>3, <2>4, QuietLife DEF MakingAt
<1>5. ASSUME NEW t \in Threads, ForkDraw(t) PROVE \A pid \in PIDs : LifeOf(pid)' = LifeOf(pid)
  <2> DEFINE n == nextPID + 1
  <2> DEFINE c == MoveWith(call[t], "forkPublish", n)
  <2>1. Cardinality(Drawing) \in Nat /\ Cardinality(Drawing) >= 1
    BY <1>5, CountThreads DEF Drawing, ForkDraw
  <2>2. n \in PIDs BY <1>2, <2>1, MaxPIDAssumption DEF Sound, Budget, PIDs
  <2>3. c \in Call /\ c.at = "forkPublish" /\ c.pid = n
    <3>1. call[t] \in Call /\ "forkPublish" \in Steps BY <1>2, <1>0
    <3> HIDE DEF n
    <3> QED BY <2>2, <3>1, CallUpdates
  <2>4. Goto(t, c) /\ nextPID' = nextPID + 1 /\ tables' = tables /\ call[t].at = "forkDraw"
    BY <1>5 DEF ForkDraw, At, MoveWith, mm
  <2> HIDE DEF c
  <2> QED BY <2>3, <2>4, QuietLife DEF MakingAt
<1>6. ASSUME NEW t \in Threads, NEW pid \in PIDs,
             AccessMemory(t, pid) \/ TerminateProcess(t, pid) \/ ForkProcess(t, pid)
      PROVE  \A q \in PIDs : LifeOf(q)' = LifeOf(q)
  <2>1. PICK c \in Call : Goto(t, c) /\ c.at \in {"access", "removeTable", "forkDraw"}
    <3>1. MoveWith(Idle, "access", pid) \in Call /\ MoveWith(Idle, "access", pid).at = "access"
      BY <1>2, <1>0, CallUpdates
    <3>2. /\ MoveWith(Idle, "removeTable", pid) \in Call
          /\ MoveWith(Idle, "removeTable", pid).at = "removeTable"
      BY <1>2, <1>0, CallUpdates
    <3>3. /\ MoveFrom(Idle, "forkDraw", pid) \in Call
          /\ MoveFrom(Idle, "forkDraw", pid).at = "forkDraw"
      BY <1>2, <1>0, CallUpdates
    <3>4. \/ Goto(t, MoveWith(Idle, "access", pid)) \/ Goto(t, MoveWith(Idle, "removeTable", pid))
          \/ Goto(t, MoveFrom(Idle, "forkDraw", pid))
      BY <1>6 DEF AccessMemory, TerminateProcess, ForkProcess, MoveWith, MoveFrom
    <3> QED BY <3>1, <3>2, <3>3, <3>4
  <2>2. nextPID' = nextPID /\ tables' = tables /\ call[t].at = "idle"
    BY <1>6 DEF AccessMemory, TerminateProcess, ForkProcess, Begin, At, pm, mm
  <2> QED BY <2>1, <2>2, QuietLife DEF MakingAt
<1>7. ASSUME NEW t \in Threads, AccessServe(t) \/ CreatePublish(t)
      PROVE  \A pid \in PIDs : LifeOf(pid)' = LifeOf(pid)
  <2>1. Goto(t, Idle) /\ nextPID' = nextPID /\ tables' = tables
    BY <1>7 DEF AccessServe, CreatePublish, Return, pm, mm
  <2>2. call[t].at = "access" \/ call[t].pid \in tables
    BY <1>7 DEF AccessServe, CreatePublish, At, Sound, Tabled
  <2> QED BY <1>2, <2>1, <2>2, QuietLife DEF MakingAt
<1>8. ASSUME NEW t \in Threads, ForkPublish(t) PROVE \A pid \in PIDs : LifeOf(pid)' = LifeOf(pid)
  <2> DEFINE c == Move(call[t], "forkTable")
  <2>0. call[t] \in Call /\ "forkTable" \in Steps BY <1>2, <1>0
  <2>1. c \in Call /\ c.at = "forkTable" /\ c.pid = call[t].pid BY <2>0, MoveKeeps
  <2>2. Goto(t, c) /\ call[t].at = "forkPublish" /\ nextPID' = nextPID /\ tables' = tables
    BY <1>8 DEF ForkPublish, Step, At, Move, mm
  <2> HIDE DEF c
  <2> QED BY <2>1, <2>2, QuietLife DEF MakingAt
<1>9. ASSUME NEW t \in Threads, CreateTable(t)
      PROVE  [Life!Next]_<<[pid \in Numbers |-> LifeOf(pid)], wasReset>>
  <2> DEFINE c == Move(call[t], "publish")
  <2>0. call[t] \in Call /\ "publish" \in Steps BY <1>2, <1>0
  <2>1. c \in Call /\ c.at = "publish" /\ c.pid = call[t].pid BY <2>0, MoveKeeps
  <2>2. call[t].pid \notin tables BY <1>9 DEF CreateTable, Sound, NumbersApart, At
  <2>3. /\ Goto(t, c) /\ call[t].at = "createTable" /\ tables' = tables \cup {call[t].pid}
        /\ nextPID' = nextPID
    BY <1>9, <2>2 DEF CreateTable, Step, At, Move, pm
  <2> HIDE DEF c
  <2> QED BY <2>1, <2>2, <2>3, BornLife DEF MakingAt
<1>10. ASSUME NEW t \in Threads, ForkTable(t)
       PROVE  [Life!Next]_<<[pid \in Numbers |-> LifeOf(pid)], wasReset>>
  <2>1. call[t].pid \notin tables /\ call[t].at = "forkTable" /\ nextPID' = nextPID
    BY <1>10 DEF ForkTable, Sound, Tabled, At, pm
  <2>2. CASE call[t].parent \in tables
    <3>1. Goto(t, Idle) /\ tables' = tables \cup {call[t].pid}
      BY <1>10, <2>2 DEF ForkTable, Return
    <3> QED BY <1>2, <2>1, <3>1, BornLife DEF MakingAt
  <2>3. CASE call[t].parent \notin tables
    <3> DEFINE c == Move(call[t], "unpublish")
    <3>0. call[t] \in Call /\ "unpublish" \in Steps BY <1>2, <1>0
    <3>1. c \in Call /\ c.at = "unpublish" /\ c.pid = call[t].pid BY <3>0, MoveKeeps
    <3>2. Goto(t, c) /\ tables' = tables BY <1>10, <2>3 DEF ForkTable, Step, Move
    <3> HIDE DEF c
    <3> QED BY <1>3, <2>1, <3>1, <3>2, QuietLife DEF MakingAt
  <2> QED BY <2>2, <2>3
<1>11. ASSUME NEW t \in Threads, ForkUnpublish(t)
       PROVE  [Life!Next]_<<[pid \in Numbers |-> LifeOf(pid)], wasReset>>
  <2>0. PICK x \in PIDs : x = call[t].pid BY <1>2
  <2>1. /\ Goto(t, Idle) /\ tables' = tables /\ nextPID' = nextPID /\ call[t].at = "unpublish"
        /\ x \notin tables
    BY <1>11, <2>0 DEF ForkUnpublish, Return, At, mm, Sound, Tabled
  <2>2. x <= nextPID /\ LifeOf(x) = "unborn" /\ \A u \in Threads \ {t} : ~Making(u, x)
    BY <2>0, <2>1, MadeUnborn DEF MakingAt
  <2>3. ~Makes(x)' BY <1>1, <1>2, <2>0, <2>1, <2>2, MakesMoves DEF MakingAt
  <2>4. LifeOf(x)' = "dead"
    <3>1. x \in Int /\ ~(x > nextPID) BY <1>2, <2>2 DEF PIDs
    <3> QED BY <2>1, <2>3, <3>1 DEF LifeOf, Makes
  <2>5. ASSUME NEW pid \in PIDs \ {x} PROVE LifeOf(pid)' = LifeOf(pid)
    BY <1>1, <1>2, <2>0, <2>1, MakesMoves, SameLife DEF MakingAt
  <2> QED BY <2>2, <2>4, <2>5, TurnLife
<1>12. ASSUME NEW t \in Threads, TerminateRemove(t)
       PROVE  [Life!Next]_<<[pid \in Numbers |-> LifeOf(pid)], wasReset>>
  <2>0. PICK x \in PIDs : x = call[t].pid BY <1>2
  <2>1. /\ Goto(t, Idle) /\ tables' = tables \ {x} /\ nextPID' = nextPID
        /\ call[t].at = "removeTable"
    BY <1>12, <2>0 DEF TerminateRemove, RemoveTable, Return, At, pm
  <2>2. \A pid \in PIDs : Makes(pid)' <=> Makes(pid)
    BY <1>1, <1>2, <2>1, MakesMoves DEF MakingAt
  <2>3. \A pid \in PIDs \ {x} : LifeOf(pid)' = LifeOf(pid) BY <2>1, <2>2, SameLife
  <2>4. CASE x \notin tables BY <2>1, <2>2, <2>3, <2>4, SameLife, TurnLife
  <2>5. CASE x \in tables
    <3>1. ~Makes(x)
      BY <2>0, <2>1, <2>5 DEF Makes, Making, Creating, Forking, Sound, RemovedUnseen, Tabled, At
    <3>2. x <= nextPID BY <2>5 DEF Sound, Drawn
    <3>3. x \in Int /\ ~(x > nextPID) BY <1>2, <3>2 DEF PIDs
    <3>4. LifeOf(x) = "alive" BY <2>5 DEF LifeOf
    <3>5. LifeOf(x)' = "dead" BY <2>1, <2>2, <3>1, <3>3 DEF LifeOf, Makes
    <3> QED BY <2>1, <2>3, <3>4, <3>5, TurnLife
  <2> QED BY <2>4, <2>5
<1>13. ASSUME NEW t \in Threads PROVE /\ ~Reset(t) /\ ~ResetForget(t) /\ ~ResetMM(t)
                                      /\ \A pid \in PIDs : ~ResetRemove(t, pid)
  BY DEF Reset, ResetForget, ResetMM, ResetRemove, Begin, At, Sound, NotResetting
<1>14. CASE UNCHANGED vars
  <2>1. tables' = tables /\ nextPID' = nextPID /\ call' = call BY <1>14 DEF vars, pm, mm
  <2>2. \A pid \in PIDs : LifeOf(pid)' = LifeOf(pid)
    BY <2>1 DEF LifeOf, Making, Creating, Forking
  <2> QED BY <1>3, <2>2
<1> QED BY <1>3, <1>4, <1>5, <1>6, <1>7, <1>8, <1>9, <1>10, <1>11, <1>12, <1>13, <1>14
        DEF Next, Start, Continue

\* The interleaved sections of CreateProcess, ForkProcess and TerminateProcess implement
\* ProcessLife: until somebody resets, a number's table is made once at most, in one
\* step, and once removed or given up it is never made again.
THEOREM ProcessManagerLivesOnce == Spec => LivesOnce
<1>1. Init => Life!Init
  <2> SUFFICES ASSUME Init PROVE Life!Init OBVIOUS
  <2>1. ASSUME NEW pid \in Numbers PROVE LifeOf(pid) = "unborn"
    <3>1. tables = {} /\ nextPID = 1 /\ pid \in Int /\ pid > 1 BY DEF Init, Numbers, PIDs
    <3> QED BY <3>1 DEF LifeOf
  <2> QED BY <2>1 DEF Life!Init, Init
<1>2. ASSUME IInv, [Next]_vars
      PROVE  [Life!Next]_<<[pid \in Numbers |-> LifeOf(pid)], wasReset>>
  <2>1. wasReset' \in BOOLEAN /\ (wasReset => wasReset')
    BY <1>2 DEF IInv, Next, Start, Continue, CreateProcess, CreateTable, CreatePublish,
           TerminateProcess, TerminateRemove, ForkProcess, ForkDraw, ForkPublish, ForkTable,
           ForkUnpublish, AccessMemory, AccessServe, Reset, ResetRemove, ResetForget, ResetMM,
           vars, pm
  <2>2. CASE wasReset'
    <3>1. \A pid \in Numbers : LifeOf(pid)' \in {"unborn", "alive", "dead"} BY DEF LifeOf
    <3>2. Life!Reset BY <2>1, <2>2, <3>1 DEF Life!Reset, Life!Lives
    <3> QED BY <3>2 DEF Life!Next
  <2>3. CASE ~wasReset'
    <3>1. Sound /\ ~wasReset /\ UNCHANGED wasReset BY <1>2, <2>1, <2>3 DEF IInv
    <3> QED BY <1>2, <3>1, NextLife
  <2> QED BY <2>1, <2>2, <2>3
<1> QED BY <1>1, <1>2, Inductive, PTL DEF Spec, LivesOnce, Life!Spec

=============================================================================
