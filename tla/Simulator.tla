------------------------------ MODULE Simulator ------------------------------
(***************************************************************************)
(* internal/simulator/simulator.go behind HandleRunSimulation: a request   *)
(* that gets simulationMu starts a goroutine that runs a scenario, one     *)
(* memory access after the other, reports and unlocks.  Meanwhile users    *)
(* change the algorithm, create and terminate processes, the scenario's    *)
(* included, and reset the system.  Under Optimal and OPT+ a run is        *)
(* preceded by a computation of its accesses with a generator of its own,  *)
(* which starts from the seed; the run draws from the generator that all   *)
(* runs of the simulator share.                                            *)
(*                                                                         *)
(* A page that depends on the generator is the term that computes it, over *)
(* the positions of its draws: equal terms are equal pages.  Operations on *)
(* processes are atomic here: module ProcessManager is about their steps.  *)
(***************************************************************************)
EXTENDS Integers, Sequences, FiniteSets

CONSTANTS
    Scenarios,   \* the scenarios that are requested
    MaxRuns,     \* bound: runs that are started
    MaxLen,      \* bound: accesses of a part of a scenario, pages of a working set
    MaxPID,      \* bound: process numbers in use at a time
    MaxResets    \* bound: resets

Names == {"sequential", "random", "locality", "looping", "mixed", "fork_cow", "thrashing"}
Unknown == "unknown"

ASSUME SimulatorAssumption ==
    /\ Scenarios \subseteq Names \cup {Unknown}
    /\ {MaxRuns, MaxLen, MaxPID, MaxResets} \subseteq Nat /\ MaxLen > 0
    /\ MaxPID > 2 * MaxRuns   \* every run finds numbers for its two processes

Runs == 1 .. MaxRuns
PIDs == 1 .. MaxPID
User == 0   \* the maker of a process that no run has made

VARIABLES
    optimal,    \* the algorithm is Optimal or OPT+
    futures,    \* what it knows of the future
    rng,        \* draws from the simulator's generator so far
    processes,  \* pm.processes
    tables,     \* mm.processes
    nextPID,    \* pm.nextPID
    maker,      \* history: who made the process of each number, if it lives
    lock,       \* simulationMu, and the run that holds it, or 0
    scenarioMu, \* likewise
    started,    \* runs started so far
    job,        \* the goroutine of each run
    reports,    \* history: the runs reported by a broadcast, in order
    resets,     \* history: calls of HandleReset
    resetting   \* HandleReset is between its two halves

policy == <<optimal, futures>>
procs == <<processes, tables, nextPID, maker>>
locks == <<lock, scenarioMu, started>>
users == <<resets, resetting>>
vars == <<policy, rng, procs, locks, job, reports, users>>

-----------------------------------------------------------------------------
(* The accesses that are computed beforehand *)

\* The bound on lengths.
Cut(n) == IF n < MaxLen THEN n ELSE MaxLen

\* Page i; Intn(max) as draw k; a page of the working set drawn from draw ws on, or
\* any page, as draws k and k + 1 decide.
Fixed(i) == <<"fixed", i>>
Drawn(k, max) == <<"drawn", k, max>>
Local(k, ws, size) == <<"local", k, ws, size>>

PrecomputeSequential(n) == [i \in 1 .. n |-> Fixed(i - 1)]

\* Mutant: the draw of the write is left out.
PrecomputeRandomNoWrite(k, max, n) == [i \in 1 .. n |-> Drawn(k + i - 1, max)]

\* From draw k on; every access takes a draw for its page and one for the write.
PrecomputeRandom(k, max, n) == [i \in 1 .. n |-> Drawn(k + 2 * (i - 1), max)]

PrecomputeLocality(k, size, n) == [i \in 1 .. n |-> Local(k + size + 3 * (i - 1), k, size)]

PrecomputeLooping(size, iterations) ==
    [i \in 1 .. size * iterations |-> Fixed((i - 1) % size)]

PrecomputeMixed ==
    PrecomputeSequential(Cut(20)) \o PrecomputeRandom(0, 100, Cut(30))
        \o PrecomputeLocality(2 * Cut(30), Cut(10), Cut(30))

PrecomputeForkCoW ==
    LET n == Cut(10)
    IN  PrecomputeSequential(Cut(30))
            \o PrecomputeRandom(0, 30, n) \o PrecomputeRandom(2 * n, 30, n)
            \o PrecomputeRandom(4 * n, 30, n) \o PrecomputeRandom(6 * n, 30, n)

PrecomputeAccesses(scenario) ==
    CASE scenario = "sequential" -> PrecomputeSequential(Cut(100))
      [] scenario = "random"     -> PrecomputeRandom(0, 200, Cut(100))
      [] scenario = "locality"   -> PrecomputeLocality(0, Cut(20), Cut(100))
      [] scenario = "looping"    -> PrecomputeLooping(Cut(15), Cut(5))
      [] scenario = "mixed"      -> PrecomputeMixed
      [] scenario = "fork_cow"   -> PrecomputeForkCoW
      [] scenario = "thrashing"  -> PrecomputeRandom(0, 1000, Cut(200))

-----------------------------------------------------------------------------
(* Scenarios *)

\* A part of a scenario: n accesses by the parent, the process that was created, or
\* by its child; max is the argument of Intn, size that of the working set or the loop.
Part(kind, who, n, max, size) ==
    [kind |-> kind, who |-> who, n |-> n, max |-> max, size |-> size]
Create == Part("create", "parent", 1, 0, 0)
Fork == Part("fork", "parent", 1, 0, 0)
Sequential(n) == Part("sequential", "parent", n, 0, 0)
Random(who, max, n) == Part("random", who, n, max, 0)
Locality(size, n) == Part("locality", "parent", n, 1000, size)
Looping(size, iterations) == Part("looping", "parent", size * iterations, 0, size)

\* run...Scenario
Script(scenario) ==
    CASE scenario = "sequential" -> <<Create, Sequential(Cut(100))>>
      [] scenario = "random"     -> <<Create, Random("parent", 200, Cut(100))>>
      [] scenario = "locality"   -> <<Create, Locality(Cut(20), Cut(100))>>
      [] scenario = "looping"    -> <<Create, Looping(Cut(15), Cut(5))>>
      [] scenario = "mixed"      ->
            <<Create, Sequential(Cut(20)), Random("parent", 100, Cut(30)),
              Locality(Cut(10), Cut(30))>>
      [] scenario = "fork_cow"   ->
            <<Create, Sequential(Cut(30)), Fork,
              Random("parent", 30, Cut(10)), Random("child", 30, Cut(10)),
              Random("child", 30, Cut(10)), Random("parent", 30, Cut(10))>>
      [] scenario = "thrashing"  -> <<Create, Random("parent", 1000, Cut(200))>>

\* Where a run is, what is left of its script, the accesses made in the part that is
\* next, where its working set was drawn, its processes (0: none), the accesses made
\* and the last of them, and whether it fails.
NoJob == [at |-> "none", scenario |-> Unknown, script |-> <<>>, i |-> 0, ws |-> 0,
          parent |-> 0, child |-> 0, made |-> 0, last |-> Fixed(0), failed |-> FALSE]

Init ==
    /\ optimal \in BOOLEAN /\ futures = <<>> /\ rng = 0
    /\ processes = {} /\ tables = {} /\ nextPID = 1 /\ maker = [pid \in PIDs |-> User]
    /\ lock = 0 /\ scenarioMu = 0 /\ started = 0
    /\ job = [r \in Runs |-> NoJob] /\ reports = <<>>
    /\ resets = 0 /\ resetting = FALSE

At(r, place) == job[r].at = place
Become(r, j) == job' = [job EXCEPT ![r] = j]

-----------------------------------------------------------------------------
(* A run *)

\* HandleRunSimulation: a request that finds simulationMu locked is refused (409).
HandleRunSimulation(scenario) ==
    LET r == started + 1
    IN  /\ started < MaxRuns /\ lock = 0
        /\ started' = r /\ lock' = r
        /\ Become(r, [NoJob EXCEPT !.at = "begin", !.scenario = scenario])
        /\ UNCHANGED <<policy, rng, procs, scenarioMu, reports, users>>

\* RunScenario takes scenarioMu and looks at the algorithm's name.
BeginScenario(r) ==
    /\ At(r, "begin") /\ scenarioMu = 0
    /\ scenarioMu' = r
    /\ Become(r, [job[r] EXCEPT !.at = IF optimal THEN "precompute" ELSE "dispatch"])
    /\ UNCHANGED <<policy, rng, procs, lock, started, reports, users>>

\* precomputeAndSetOptimal.  The algorithm that SetFutureAccesses finds may no longer
\* be the one whose name was looked at.
Precompute(r) ==
    LET known == job[r].scenario # Unknown
    IN  /\ At(r, "precompute")
        /\ futures' = IF known /\ optimal THEN PrecomputeAccesses(job[r].scenario) ELSE futures
        /\ Become(r, [job[r] EXCEPT !.at = IF known THEN "dispatch" ELSE "return",
                                    !.failed = ~known])
        /\ UNCHANGED <<optimal, rng, procs, locks, reports, users>>

Dispatch(r) ==
    LET known == job[r].scenario # Unknown
    IN  /\ At(r, "dispatch")
        /\ Become(r, [job[r] EXCEPT !.at = IF known THEN "run" ELSE "return",
                                    !.script = IF known THEN Script(job[r].scenario) ELSE <<>>,
                                    !.failed = ~known])
        /\ UNCHANGED <<policy, rng, procs, locks, reports, users>>

Part1(r) == Head(job[r].script)
Doing(r, kinds) == At(r, "run") /\ job[r].script # <<>> /\ Part1(r).kind \in kinds

\* The step of the script is done, or it fails and the run is over.
Forward(j) == [j EXCEPT !.script = Tail(@), !.i = 0]
Fail(j) == [j EXCEPT !.at = "return", !.failed = TRUE]

\* The next number is given to a process made by run or user by.
Register(by) ==
    LET pid == nextPID + 1
    IN  /\ nextPID' = pid
        /\ processes' = processes \cup {pid} /\ tables' = tables \cup {pid}
        /\ maker' = [maker EXCEPT ![pid] = by]

\* pm.CreateProcess, which the memory manager refuses if it knows the number.
CreateProcess(r) ==
    /\ Doing(r, {"create"})
    /\ IF nextPID + 1 \in tables
       THEN /\ Become(r, Fail(job[r])) /\ nextPID' = nextPID + 1
            /\ UNCHANGED <<processes, tables, maker>>
       ELSE Register(r) /\ Become(r, [Forward(job[r]) EXCEPT !.parent = nextPID'])
    /\ UNCHANGED <<policy, rng, locks, reports, users>>

\* pm.ForkProcess, which fails if either manager does not know the parent: if the memory
\* manager does not, the child has got its number by then.
ForkProcess(r) ==
    LET parent == job[r].parent
    IN  /\ Doing(r, {"fork"})
        /\ IF parent \in processes \cap tables
           THEN Register(r) /\ Become(r, [Forward(job[r]) EXCEPT !.child = nextPID'])
           ELSE /\ Become(r, Fail(job[r]))
                /\ nextPID' = IF parent \in processes THEN nextPID + 1 ELSE nextPID
                /\ UNCHANGED <<processes, tables, maker>>
        /\ UNCHANGED <<policy, rng, locks, reports, users>>

\* The draws for the working set come before the first access of its part.
SetDraws(r) == IF Part1(r).kind = "locality" /\ job[r].i = 0 THEN Part1(r).size ELSE 0
WorkingSet(r) == IF job[r].i = 0 THEN rng ELSE job[r].ws

\* The page of the next access, and the draws for it and for its write.
NextPage(r) ==
    LET part == Part1(r)
        k    == rng + SetDraws(r)
    IN  CASE part.kind = "sequential" -> [page |-> Fixed(job[r].i), draws |-> 0]
          [] part.kind = "random"     -> [page |-> Drawn(k, part.max), draws |-> 2]
          [] part.kind = "locality"   ->
                [page |-> Local(k, WorkingSet(r), part.size), draws |-> 3]
          [] part.kind = "looping"    -> [page |-> Fixed(job[r].i % part.size), draws |-> 1]

\* Mutant: an access that fails is passed over.
AccessSkip(r) ==
    LET part == Part1(r)
        pid  == IF part.who = "child" THEN job[r].child ELSE job[r].parent
        good == pid \in processes \cap tables
        j    == [job[r] EXCEPT !.i = @ + 1, !.ws = WorkingSet(r),
                               !.made = IF good THEN @ + 1 ELSE @,
                               !.last = IF good THEN NextPage(r).page ELSE @]
    IN  /\ Doing(r, {"sequential", "random", "locality", "looping"})
        /\ rng' = rng + SetDraws(r) + NextPage(r).draws
        /\ Become(r, IF j.i = part.n THEN Forward(j) ELSE j)
        /\ UNCHANGED <<policy, procs, locks, reports, users>>

\* One round of a Simulate... loop: an access of a process that either manager does
\* not know fails, and the run with it, after the draws.
Access(r) ==
    LET part == Part1(r)
        pid  == IF part.who = "child" THEN job[r].child ELSE job[r].parent
        j    == [job[r] EXCEPT !.i = @ + 1, !.ws = WorkingSet(r),
                               !.made = @ + 1, !.last = NextPage(r).page]
    IN  /\ Doing(r, {"sequential", "random", "locality", "looping"})
        /\ rng' = rng + SetDraws(r) + NextPage(r).draws
        /\ Become(r, IF pid \notin processes \cap tables THEN Fail(job[r])
                     ELSE IF j.i = part.n THEN Forward(j) ELSE j)
        /\ UNCHANGED <<policy, procs, locks, reports, users>>

Finish(r) ==
    /\ At(r, "run") /\ job[r].script = <<>>
    /\ Become(r, [job[r] EXCEPT !.at = "return"])
    /\ UNCHANGED <<policy, rng, procs, locks, reports, users>>

\* RunScenario returns and releases scenarioMu ...
ReturnScenario(r) ==
    /\ At(r, "return") /\ scenarioMu' = 0
    /\ Become(r, [NoJob EXCEPT !.at = "report", !.scenario = job[r].scenario,
                               !.made = job[r].made, !.failed = job[r].failed])
    /\ UNCHANGED <<policy, rng, procs, lock, started, reports, users>>

\* ... the outcome is broadcast ...
Report(r) ==
    /\ At(r, "report") /\ reports' = Append(reports, r)
    /\ Become(r, [job[r] EXCEPT !.at = "unlock"])
    /\ UNCHANGED <<policy, rng, procs, locks, users>>

\* Mutant: the error path of the goroutine leaves the lock locked.
UnlockOnSuccess(r) ==
    /\ At(r, "unlock") /\ lock' = IF job[r].failed THEN lock ELSE 0
    /\ Become(r, [NoJob EXCEPT !.at = "end"])
    /\ UNCHANGED <<policy, rng, procs, scenarioMu, started, reports, users>>

\* ... and simulationMu released, on every path (defer).
Unlock(r) ==
    /\ At(r, "unlock") /\ lock' = 0
    /\ Become(r, [NoJob EXCEPT !.at = "end"])
    /\ UNCHANGED <<policy, rng, procs, scenarioMu, started, reports, users>>

Step(r) ==
    \/ BeginScenario(r) \/ Precompute(r) \/ Dispatch(r)
    \/ CreateProcess(r) \/ ForkProcess(r) \/ Access(r) \/ Finish(r)
    \/ ReturnScenario(r) \/ Report(r) \/ Unlock(r)

-----------------------------------------------------------------------------
(* Users *)

\* SetAlgorithm installs a new policy, which knows nothing of the future.
SetAlgorithm(opt) ==
    /\ optimal' = opt /\ futures' = <<>>
    /\ UNCHANGED <<rng, procs, locks, job, reports, users>>

\* The bounds: numbers are left for the runs, which take two at most, and users have
\* one process at a time.
Unfinished == {r \in Runs : job[r].at # "end"}
Room ==
    /\ nextPID + 2 * Cardinality(Unfinished) < MaxPID
    /\ \A pid \in processes : maker[pid] # User

UserCreates ==
    /\ Room /\ nextPID + 1 \notin tables /\ Register(User)
    /\ UNCHANGED <<policy, rng, locks, job, reports, users>>

\* Mutant: the number of the newest process is given back.
TerminateGivesBack(pid) ==
    /\ pid \in processes
    /\ processes' = processes \ {pid} /\ tables' = tables \ {pid}
    /\ maker' = [maker EXCEPT ![pid] = User]
    /\ nextPID' = IF pid = nextPID THEN nextPID - 1 ELSE nextPID
    /\ UNCHANGED <<policy, rng, locks, job, reports, users>>

\* TerminateProcess, of any process.
Terminate(pid) ==
    /\ pid \in processes
    /\ processes' = processes \ {pid} /\ tables' = tables \ {pid}
    /\ maker' = [maker EXCEPT ![pid] = User]
    /\ UNCHANGED <<policy, rng, nextPID, locks, job, reports, users>>

\* HandleReset: ProcessManager.Reset ...
ResetProcesses ==
    /\ resets < MaxResets /\ ~resetting
    /\ resets' = resets + 1 /\ resetting' = TRUE
    /\ tables' = tables \ processes /\ processes' = {} /\ nextPID' = 1
    /\ maker' = [pid \in PIDs |-> User]
    /\ UNCHANGED <<policy, rng, locks, job, reports>>

\* ... and then MemoryManager.Reset, which makes the policy forget the future.
ResetMemory ==
    /\ resetting /\ resetting' = FALSE
    /\ tables' = {} /\ futures' = <<>>
    /\ UNCHANGED <<optimal, rng, processes, nextPID, maker, locks, job, reports, resets>>

Next ==
    \/ \E scenario \in Scenarios : HandleRunSimulation(scenario)
    \/ \E r \in Runs : Step(r)
    \/ \E opt \in BOOLEAN : SetAlgorithm(opt)
    \/ UserCreates \/ \E pid \in PIDs : Terminate(pid)
    \/ ResetProcesses \/ ResetMemory

\* The goroutine of a run is scheduled fairly and waits for nobody but scenarioMu.
Spec == Init /\ [][Next]_vars /\ \A r \in Runs : WF_vars(Step(r))

-----------------------------------------------------------------------------
(* Properties *)

\* Every variable has its type, and process numbers stay within the bound.
Page == ({"fixed"} \X Nat) \cup ({"drawn"} \X Nat \X Nat) \cup ({"local"} \X Nat \X Nat \X Nat)
Accesses == {"sequential", "random", "locality", "looping"}
Parts == [kind : Accesses \cup {"create", "fork"}, who : {"parent", "child"},
          n : Nat \ {0}, max : Nat, size : Nat]
Places == {"none", "begin", "precompute", "dispatch", "run", "return", "report", "unlock", "end"}
Job == [at : Places, scenario : Names \cup {Unknown}, script : Seq(Parts), i : Nat, ws : Nat,
        parent : PIDs \cup {0}, child : PIDs \cup {0}, made : Nat, last : Page,
        failed : BOOLEAN]
TypeOK ==
    /\ optimal \in BOOLEAN /\ rng \in Nat /\ (~optimal => futures = <<>>)
    /\ processes \subseteq PIDs /\ tables \subseteq PIDs /\ nextPID \in PIDs
    /\ maker \in [PIDs -> Runs \cup {User}]
    /\ lock \in Runs \cup {0} /\ scenarioMu \in Runs \cup {0} /\ started \in 0 .. MaxRuns
    /\ job \in [Runs -> Job] /\ reports \in Seq(Runs)
    /\ resets \in 0 .. MaxResets /\ resetting \in BOOLEAN

\* The accesses that Optimal was told of are those that the run makes, in the same
\* order, as long as nobody replaces or resets the policy: for the first run of a
\* simulator, which includes the runs of a comparison, and for every run of a scenario
\* whose pages do not depend on the generator.  (A later run draws where the one
\* before it has stopped, and its prediction starts from the seed again.)
PredictionFollowed ==
    \A r \in Runs :
        LET j == job[r]
        IN  /\ j.at \in {"run", "return"} /\ futures # <<>>
            /\ r = 1 \/ j.scenario \in {"sequential", "looping"}
            => /\ j.made > 0 => j.made <= Len(futures) /\ futures[j.made] = j.last
               /\ j.at = "return" /\ ~j.failed => j.made = Len(futures)

\* A run that reports success has made every access of its scenario, whatever users
\* did to its processes; it may have made them in a process that has taken over the
\* number of its own after a reset.
CompleteMeansAll ==
    \A r \in Runs : job[r].at \in {"return", "report", "unlock"} /\ ~job[r].failed =>
        job[r].made = Len(PrecomputeAccesses(job[r].scenario))

\* Until a reset a run accesses no process that it has not made, although users create
\* and terminate processes meanwhile.
OwnProcesses ==
    \A r \in Runs : resets = 0 =>
        \A pid \in {job[r].parent, job[r].child} \cap processes : maker[pid] = r

\* A run that was started ends, is reported and lets the next one in, whatever happens
\* to its processes, also if its scenario is unknown.
SimulationEnds == \A r \in Runs : lock = r ~> lock # r /\ r \in {reports[i] : i \in DOMAIN reports}

=============================================================================
