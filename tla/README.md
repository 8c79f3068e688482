# A TLA+ model of the page-replacement and copy-on-write simulator

The program simulates a paged virtual memory with twelve replacement policies,
copy-on-write forks, a TLB, huge pages, compression, NUMA placement and
prefetching, behind an HTTP and WebSocket API. Handlers run concurrently, so that
the memory manager, the process manager, the monitor and the hub are shared
state. This directory holds TLA+ modules for these parts, TLC configurations that
check them on small instances, and TLAPS proofs of the central invariants for
every instance. `PROJECT.json` maps each definition to the lines that it models,
and lists runs, findings, hazards and theorems.

    tlc -workers 2 -config MM_Fork.cfg MCMemoryManager
    tlapm MemoryManagerProofs.tla

## 1. Inventory

| Component | State | Operations | Correct if |
|---|---|---|---|
| memory manager (`internal/memory/manager.go`) | page tables, frame table, TLB, registry of shared pages, compressed store, huge-page map, recent accesses, current policy; all under `mm.mu` | CreateProcess, RemoveProcess, ForkProcess, AccessMemory, MapHugePage, SetAlgorithm, Enable*, Reset | no frame is writable by two processes; present pages are in frames in use; page tables, frames and TLB agree |
| frame table, TLB, page tables | frames and owners; cached translations; entries | allocate, release, clear; insert, invalidate; create, clone, replace | capacity, no stale translation |
| advanced memory (`advanced.go`) | clusters, compressed pages, NUMA nodes | detect, prefetch, compress, decompress, node-local allocation | prefetching never maps a page twice |
| copy-on-write registry (`internal/cow`) | sharers, RefCount and reference counter per page ID | SharePage, HandleWrite, UnsharePage, ForkProcess, RemoveProcess | the three counts agree; who shares is registered; somebody keeps the original |
| process manager (`internal/process`) | visible processes, next PID | Create, Terminate, Fork, Access, Reset | it agrees with the memory manager's processes |
| policies on frame data (`fifo`, `lru`, `lfu`, `clock`, `nru`, `wsclock`, `random`, `pff`) | reference and dirty bits, times, counts, hand, PFF's target | SelectVictim, OnPageAccess, OnPageFault, Reset | a victim is found if there is one, and is the one the policy promises |
| ARC | four lists and a target | the same | lists keep their bounds, `adapt` ends, entries match residence |
| Optimal, OPT+ | the trace and a position in it | the same, SetFutureAccesses | the victim is the page used farthest ahead |
| CAR | two rings with hands and reference bits, two ghost lists and a target | the same | as ARC; the search skips no candidate |
| monitor and event pipeline (`internal/monitor`) | event queue, log, history, verdict, subscribers | emit, deliver, capture, detect, subscribe, clear | events are delivered in order or counted as dropped; the verdict is current |
| WebSocket hub (`pkg/api/server.go`, `websocket.go`) | clients, channels, closed flags | connect, read, write, ping, broadcast, reap, shutdown | no channel is closed twice or sent to after its close; goroutines end |
| simulator (`internal/simulator`) | the generator of random pages, two locks, one run | run a scenario, predict its accesses, compare | one run at a time, each ends and reports; Optimal is told what the run will do |
| 4-level page table (`multilevel_pt.go`) | a mirror of the page tables | set, invalidate, walk | it shows what the page tables say |
| HTTP handlers, metrics, CLI, web UI | counters | parse, call, format | - |

Interaction. Handlers call the process manager, which takes `pm.mu` and calls the
memory manager, which takes `mm.mu`; `Reset` does so while it holds `pm.mu`. The
memory manager calls the policy and the registry, and emits events into a queue of
256. A worker goroutine hands them to the monitor; a ticker goroutine captures
snapshots of the metrics, and also produces events. Handlers and a simulation
goroutine call `Broadcast`, whose queue one goroutine serves. Each client has a
reader, a writer, a ticker and an initial-state goroutine. A request for a
simulation starts a goroutine that calls the process manager as handlers do, access
after access, while users change, terminate and reset what it works on.

What is hard. AccessMemory drops one lock before it takes another. Every operation
of the process manager is several critical sections in two components. HandleWrite
decides in a second section. Channels are closed by goroutines other than their
senders. Page numbers of unrelated processes collide in the registry and in the
policies. Frames are named by several page-table entries after a fork while
eviction and removal know of one. Nothing is persisted, so there is no recovery
from crashes to model.

## 2. Modules

| Module | Models | State and steps |
|---|---|---|
| `Paging` | the helpers of `manager.go` and the structures under `mm.mu` | one record; each helper maps a state to the set of its possible outcomes, several where a policy or the TLB's LRU order decides |
| `MemoryManager` | `MemoryManager`'s operations | one action per operation; AccessMemory is `AccessFast` (read lock) followed by `AccessHit`, `AccessFault`, `AccessError` or `AccessGone` (write lock), with anything in between |
| `CopyOnWrite` | the registry on its own, with its own lock | HandleWrite in two sections, so that writers race; `Paging` uses the registry under `mm.mu` |
| `ProcessManager` | `ProcessManager` over an abstract memory manager (the set of page tables and the metric) | one action per critical section |
| `WebSocketHub` | server and clients | one action per channel operation or critical section of each goroutine |
| `ProcessLife` | what the two managers promise of a process number (abstract) | each is born, lives and dies once |
| `Policies` | the policies over what the frames record: eight that decide from it, PFF with its resident set among them; of Optimal, OPT+, ARC and CAR what they leave on the frames | times are orders of the frames; a search is an operator; the fault rate, and the scores of Optimal and OPT+, may be anything |
| `ARC` | ARC | lists of page IDs; the loops of `adapt` in closed form |
| `CAR` | CAR | rings of entries; the search round by round, as a recursive function |
| `Adaptive` | the memory manager with ARC or CAR | their steps, and `SetAlgorithm` between them |
| `Optimal` | Optimal on a trace | every trace of a given length |
| `Monitor` | event queue, worker, capture goroutine, subscribers, resets, shutdown | one action per critical section or channel operation |
| `EventStream` | what the event pipeline promises (abstract) | accept, lose when full, deliver, close |
| `Simulator` | `RunScenario` and its callers, over abstract managers | one action per access of a run; the users' operations are atomic |

`MC*` modules instantiate them. `MemoryManager` composes the page tables, frames,
TLB, registry and features; it takes of the policies only that they choose some
unpinned frame in use, which `Policies` checks of the real ones (`VictimFound`) and `PoliciesProofs` proves.
`ProcessManager` takes of the memory manager which processes have tables, and
`Simulator` takes of both which processes are known. `Adaptive` composes `ARC` and
`CAR` over the same frames.

Two modules state what a component promises, and the detailed one is shown to
implement it: `ProcessManager` implements `ProcessLife` (`LivesOnce`), where a number
is alive while its table exists, and unborn as long as somebody may still make it; and
`Monitor` implements `EventStream` (`IsEventStream`), where the queue and what the
worker holds are the events that wait. The second includes liveness: what was
accepted is delivered.

The theorems are in modules of their own, one for each module that has them:
`MemoryManagerProofs`, `CopyOnWriteProofs`, `ProcessManagerProofs`,
`WebSocketHubProofs`, `MonitorProofs`, `SimulatorProofs`, `AdaptiveProofs` and
`PoliciesProofs` (section 5).

A definition named as a mutant is a version of the next definition with a
plausible bug. It belongs to no specification; putting it in the place of that
definition breaks the property that `PROJECT.json` pairs it with.

Abstractions. Times are orders. Statistics, latencies, compression ratios and byte
counts are left out. The dirty bit is kept per frame. An entry of a page table is
its ID, its frame and its shared bit (`ReadOnly` equals it everywhere). WSClock's
age is a set of old frames that is fixed during the sweep and may have grown when
the fallback looks again. An event of the memory manager is its number in the
order of emission. A random page is the term that computes it: which draws of the
generator it depends on, and the bounds of the draws, so that two pages are equal
whenever the code computes them alike. The lengths of scenarios are cut to `MaxLen`.

## 3. Runs that pass

| Run | Instance | Shows |
|---|---|---|
| `MM_Fork` | 2 processes, 2 frames, 2 pages, 2 copies and a huge page, whose numbers collide with a page of the callers, TLB of 2, pins; up to the first breach | `Isolation`, `NoDanglingPage`, `TLBCoherent`; `NothingLeftOfTheDead` with an access in flight |
| `MM_Policies` | 1 process, 2 frames, 3 pages and a cluster of 3, two huge pages, one of them under the number of a small page, TLB of 1, pins | `TablesAgree` (tables and frames are inverse) under PFF's trimming, WSClock's cleaning, Optimal, compression, NUMA placement, prefetching, huge pages, removals and resets; a fault that fails loses no compressed page (`CompressedKept`) |
| `COW_Registry` | 4 processes in two families, 2 page IDs | `CountsAgree`, `SharersRegistered` and `OneKeepsOriginal` |
| `PM_Threads` | 2 threads, 4 PIDs, fair | `VisibleHasTable`, `TableHasOwner`, `PIDsUnique`, `ActiveCounts` between any two critical sections until somebody resets; `LivesOnce`; `ForkSettles`; `OperationsEnd` and `NeverUndercounts`, resets included |
| `WS_Hub` | 1 client, buffer of 2, broadcast queue of 1, a handler and a background goroutine that broadcast, fair | `NoDoubleClose`, `RegisteredOpen`; all goroutines of a client end when its peer goes (`ClientEnds`), and the hub after Shutdown (`HubEnds`); after `Shutdown`, `Broadcast` ends the program only from a background goroutine that was caught between its test and its send (`OnlyTheCaughtPanic`) |
| `RP_All` | 3 frames, 12 policies, any pins | `VictimFound`, `SecondChance`, `WorkingSetSpared`, `UnusedLongest` across switches of policy; `TrimSparesNewest` of PFF |
| `ADP_Lists` | 2 frames, 3 page IDs, ARC and CAR switched at any time | of ARC: T1 within its target and the target within the capacity, so that `adapt` ends (`TargetKept`), `TrackedOnce`; of CAR: `ListedOnce`, `NoCandidateSkipped` |
| `MON_Events` | queue of 1, window of 2, log of 1, 2 events, 1 subscriber, 1 reset, fair | `NothingLostSilently`, `SubscriberOrder`, `VerdictIsLatest`, `IsEventStream`, `GoroutinesEnd` |
| `SIM_Runs` | 2 runs of any of the 7 scenarios or an unknown one, parts of 2 accesses, 1 reset, fair | `PredictionFollowed`, `CompleteMeansAll`, `OwnProcesses`, `SimulationEnds` |

Why the bounds are enough. Two processes make a sharing, and a number that is used
again after a removal makes the next generation; `COW_Registry` has two families of
up to three relatives, so that a sharer outlives a copy. Two frames make an
eviction by another page and a copy that displaces something. Two copies reach a
copy of a copy. Three accesses in a row make a cluster, also when their first page
has been evicted by then, and PFF's trimming leaves one of two frames free to prefetch
into. Buffers of one are full after one message, which is where
the code branches; a client's buffer of two separates a full one from one that the
initial message has entered. Four PIDs let two threads create and fork
concurrently, and a reset hand the first number out again. Three frames separate the
hand of CLOCK from the first and the last frame and leave a bystander. ARC's lists
have capacity 2, and one more page than frames fills the ghosts; so does CAR's.
PFF's target starts below `MinResident` with three frames and a limit of two, as on a
machine of fewer than eight frames. Parts of two accesses tell the order of draws
within a part from that across parts, and two runs make a second one that draws where
the first has stopped. Clients share only
the hub's map and its lock, and a client is reaped, unregistered and closed on its
own account, so one client meets every order of its goroutines and the hub's. `MaxCopies`,
`MaxPID`, `MaxActive`, `MaxCount`, `MaxEmits`, `MaxAfter`, `MaxResets`, `MaxRuns`,
`MaxLen` and `TraceLength` bound what the code leaves unbounded; each is a guard of
the actions that consume it, or cuts a length. `UpToBreach` cuts
the exploration of `MM_Fork` after the first breach (below), where isolation is
claimed no longer, and leaves pins and the second copy out once a huge page has taken
the number of a small one. The numbers of `MM_Fork` are chosen to collide: page 1 of
the callers is also the ID of the first copy and of the huge page, as nothing in the
code keeps callers from accessing such an ID. `ApartUpToAlias` (`MM_Policies`) explores
compression and pins apart from NUMA placement and clustering, which share nothing with
them but the frames, up to a huge page under the number of a small one. In `Monitor` at
most one reset happens, and two events: `MON_Events` has no reset after a drop and no
event accepted after one, which the proof of `NothingLostSilently` covers, as it is for
any `MaxEmits`. `OperationsEnd` is about waiting for `pm.mu` and the loop of `Reset`:
the sections of the memory manager are single steps, `mm.mu` is no lock of that model.
`FewGhosts` (`ADP_Lists`) keeps CAR's ghosts to two once pages were released or loaded
twice, where the lists would otherwise run through every sequence of page IDs; without
such a step they are not bounded. Symmetry is used for processes that no definition tells apart,
and in no run of a temporal property under fairness. CHECK_DEADLOCK is off where a
bound ends the behaviour or the server has shut down.

Fairness. A goroutine that can step steps: weak fairness of each goroutine's step.
Strong fairness stands for Go's mutexes, whose starvation mode hands the lock to
the longest waiter: the sections of the process manager's operations
(`ProcessManager`) and the write lock that `UnregisterClient` needs
(`WebSocketHub`). In `Monitor` the capture goroutine's select takes the stop in the end,
because Go chooses at random among the ready cases (strong fairness of `CaptureStop`).
A run of the simulator waits only for a lock that no other run holds, so weak fairness
of its steps is enough. Nothing is assumed of peers, handlers or callers: accesses,
disconnections and requests need not happen.

`TypeOK` gives the types of each module's variables. It is proved, alone or as part of
the inductive invariant, where there is a proof; the runs spend their invariants on
what relates several pieces of state.

## 4. Findings

Three runs expect a violation of what a comment or a document says; `PROJECT.json`
quotes the lines.

| Run | What the code does |
|---|---|
| `V_SharedEvicted` | evicting a frame that a fork shares leaves the other sharer's page present in it |
| `V_SendOnClosed` | a client's goroutines may send on the channel that the hub or `readPump` has closed |
| `V_Farthest` | Optimal does not count faults, and loses its place in the trace |

The other limits of what the code keeps are in the statements of the properties
that pass. Each is a variable that records that a certain step has happened; the
property holds up to it, and TLC finds a counterexample if the condition is dropped.

- `history` (`MemoryManager`): "evict" also of the frame of a copy, whose entry is
  stored under another ID than the frame records; "remove" of a process whose frames
  relatives map, which `RemoveProcess` releases; "refork" of a page that is itself a
  copy, where a write replaces the wrong entry; "copyFailed", where the writer has
  left the registry although no frame was found for its copy. Besides these breaches
  it records "fork", and "alias", where a huge page is mapped under an ID that callers
  may access as a page: two frames may then record one page, so that `TablesAgree` and
  `CompressedKept` are claimed up to it, and the other properties across it.
- `wasReset` (`ProcessManager`): a reset between the sections of CreateProcess
  publishes a process without a table, and numbers are handed out again.
- `missed` (`ProcessManager`): a child terminated while its fork is in progress
  leaves a table that no operation can reach.
- `blind` (`Policies`): pages last used without `LastAccess` being set: by a read
  under FIFO, which records writes only, or by any access under Optimal or OPT+, which
  record none. LRU may then evict a page that was just used; its victim is still the
  page unused longest if the last use of that victim was recorded.
- `stray` (`ARC`, `CAR`): frames released while ARC lists their pages, which it is not told,
  or one page ID loaded for two processes, which it cannot tell; T1 and T2 then list pages that are gone,
  or list one twice. Besides, with target 0 `adapt` moves the entry of a page that
  is being loaded to the list of evicted pages, so that no list but a ghost list
  knows it.
- `resets` (`Simulator`): after a reset the number of a run's process may be given to
  another process, which then receives the run's remaining accesses. And a second run
  of one simulator draws where the first has stopped while its prediction starts from
  the seed: `PredictionFollowed` excludes it for the scenarios that draw.
- `resetAt` (`Monitor`): a capture in progress publishes a verdict from before a
  reset.
- `crash` (`WebSocketHub`): besides the send above, `Broadcast` reads the closed flag
  under its lock and sends outside of it, so that it may panic during `Shutdown`. In an
  HTTP handler `net/http` recovers the panic, in a background goroutine it ends the
  program; `OnlyTheCaughtPanic` says that it takes a background goroutine caught there.

In the registry, references are counted per page number, over unrelated processes,
so that the only user of a frame may copy it: `OneKeepsOriginal` excludes them. And
a write that faults, or that copies, leaves the frame that was written clean, as the
actions of `MemoryManager` show; no property is about the dirty bit.

## 5. Proofs

47 theorems are listed in `PROJECT.json`; 33 of them state a property that a run checks
on a small instance (`IsEventStream` besides, in its safety part), and the theorem holds
for every value of the constants that the named assumptions allow. The assumptions are
those the modules declare, and TLC evaluates them in every run. Each argument is an
inductive invariant: it holds at first, every action keeps it, and the properties follow.

**Memory.** `MemoryManagerProofs` proves `TypeCorrect`, `Inductive`, `Isolated`,
`NoPageDangles`, `TLBIsCoherent`, `NothingRemains`, `TablesAlwaysAgree` and
`CompressedStay` for any finite set of processes, number of frames, pages, TLB size,
policies, features and operations. The assumptions are those of `Paging` and
`MemoryManager` on the types of the constants. The numbers of virtual pages, copies and
huge pages may overlap in any way: callers may access any number, also one that the code
gives to a copy or to a huge page.

There are four kinds of steps after which isolation can fail, and the history
variable records them as breaches ("evict" of a
frame that is shared or holds a copy, "remove" of a process with shared frames,
"refork" of a copy, "copyFailed"). The theorems say that these are the only ways:
until a breach the mappings are sound. Isolation is not inductive by itself. A
write is let through, or takes ownership, when the registry counts at most one
reference; that protects the other users of the frame only if both users are
registered under the key that the write looks up. `IInv` therefore adds that
present pages are in frames in use (`InUse`), that a table stores an entry under
its own ID or holds a copy in a frame that records it (`Keyed`), that two entries
for one frame are marked, under one key and registered (`SharedAlike`), and that
the TLB agrees with the tables (`Coherent`). The proof has a lemma per helper of
`Paging` (what an eviction, a load, a copy, a prefetch preserves; that restoring a
compressed page undoes its decompression), then one per action.

Two more invariants build on it. `Clean`: of a process without a table the TLB, the
registry, the clusters and the recent accesses know nothing; work for a live process
adds nothing about another one, so only removal matters, which must clear all four.
`Tables`: without a fork or an alias nothing is shared and no breach is possible, every entry is
stored under its own ID, and frames and entries point to each other; an eviction
therefore finds the one entry of its victim. `CompressedKept` follows from what the
helpers do to the compressed store.

**Registry.** `CopyOnWriteProofs` proves `RegistryTypeCorrect`,
`RegistryInductive`, `CountsAlwaysAgree`, `SharersAlwaysRegistered` and
`LastKeepsOriginal` for any finite set of processes and any set of page IDs. Its
invariant adds that a mark in a page table is the same as membership in the registry,
and that a process that has not been born has neither. For the last theorem a registered
sharer still maps an original (`SharersMap`): a writer copies only while the reference
count is above one, so another sharer is registered, and it has the original.

**Processes.** `ProcessManagerProofs` proves `VisibleAlwaysHasTable`,
`TableAlwaysHasOwner`, `PIDsAlwaysUnique` and `ActiveAlwaysCounts` for any finite
set of threads, any `MaxPID` and any operations; each holds until somebody resets
(`wasReset`). The inductive invariant `IInv` is `Sound` until then: it says of each
thread between two sections which PID it holds and what exists under it
(`NumbersApart`, `Tabled`, `RemovedUnseen`, `ForkSeen`), that numbers not drawn are
unknown (`Drawn`) and that those left suffice for the forks under way (`Budget`).
`ActiveNeverUndercounts` needs no such condition. `ProcessManagerLivesOnce` is the
refinement of `ProcessLife`, step by step: a step of a thread is the birth or the death
of one number, or changes nothing that the abstract specification sees.

**Hub.** `WebSocketHubProofs` proves `NeverClosedTwice` and `RegisteredAlwaysOpen` for
any number of clients and callers and any buffers: only registered clients are closed,
and closing and removal happen under one lock. The invariant adds that a client that has
not connected is unregistered and open. `OnlyCaughtCallersPanic` is about what follows a
state: once the flag is set and the background callers are idle, which every step keeps,
as no caller gets past the flag any more, a broadcast does not end the program.

**Monitor.** `MonitorProofs` proves `NoEventLostSilently`, `SubscribersInOrder` and
`PublishedVerdict` for any capacities of queue, log, window and channels and any
subscribers. The log, the event in the worker's hand and the queue are in order and one
after the other (`Ordered`), from any event that they hold up to the newest all are known
or lost (`Covered`), the metric counts the losses since the last reset (`Counted`), a
subscriber is behind everything that may still be sent to it (`AllServed`), and until a
reset the history grows and the verdict is the one of its last window (`Verdicts`).
`PipelineIsStream` proves the safety part of the refinement of `EventStream`.

**Simulator.** `SimulatorProofs` proves `RunsOwnTheirProcesses`, `SuccessMeansAll` and
`PredictionHolds` for any number of runs, users' operations and lengths of scenarios.
Runs are serial (`Serial`); a run has made the accesses of the parts of its script that
it has left behind and drawn the numbers they draw (`RunIs`, with `OnScript` and
`OnSeed`); the first run starts from the seed (`Undrawn`); PIDs suffice (`Numbers`, from
the assumption `MaxPID > 2 * MaxRuns`, which keeps the bound on PIDs from ending a run
that the code would continue) and are not used twice before a reset (`Owned`). That the
prediction, which the code computes in functions of its own, gives the pages that the
script then accesses is proved for each scenario, part by part (`Planned`), for any
lengths: the two draw from the generator in the same order.

**ARC and CAR.** `AdaptiveProofs` proves `AdaptEnds`, `ResidentsTrackedOnce`,
`PagesListedOnce` and `SearchSkipsNothing` for any number of frames and pages and any
alternation of the two policies. A lemma per operation says what it makes of the lists:
for ARC that they are `Good` (types and bounds, the target within the capacity), `Tight`
(T1 within its target) and hold
pages of a set R `Once`; for CAR that a page is in one list at most and the rings hold
pages of R (`ListedIn`). R is what is resident: an eviction takes its victim's page from
R, a fault adds one. The lists of the policy that is not in use are empty, so that one
that takes over starts soundly over whatever frames it finds. CAR also needs that no two
frames in use have one page (`Unique`): the fallback for a ring without candidates takes
the first frame that can go, and only uniqueness shows that the rings do not list it.

The searches of CAR are recursive functions of the number of rounds. What they compute
is proved by least counterexample: `LeastNumber` states that a set of numbers has a
least element, without an operator parameter, from the well-foundedness of the
natural numbers, and the first round at which the claim fails contradicts the lemma on
one round. The claim after n rounds is that the n entries behind the hand, counted
around the ring (`Rot`), were passed for good: in T1 they are no candidates (`Passed1`);
in T2, where a referenced candidate only loses its bit, after the first turn all are
unreferenced, and in the second one they are no candidates (`Passed2`).

**The other policies.** `PoliciesProofs` proves `AVictimIsFound`,
`PagesHaveASecondChance`, `TheWorkingSetIsSpared`, `TheVictimIsUnusedLongest` and
`TrimmingSparesTheNewest` for any number of frames, pins, periods and bounds, and any
switches of policy. The sequences of the model are treated as orders: by what is in
them and by what comes before what (`Before`), and a lemma per operation (`Keep`,
`Without`, `ToEnd`) says what it makes of both. The invariant is that the orders by
load, by `LastAccess` and by use hold the frames in use, each once, and that a frame
outside of `blind` which is before another one by `LastAccess` is before it by use
(`SameOrder`): an unrecorded use only makes a frame look older than it is. Without that conjunct
`UnusedLongest` is not inductive, as a switch to LRU inherits the times that the policy
before it has left. The count of pages that trimming leaves rests on the first part:
an order has as many positions as frames (`OrderLen`), and the frame that was just
loaded is the last of its order, so that it only goes when every unpinned one does.

The sweeps of CLOCK and WSClock are recursive functions of the number of steps; the
claim after i steps without a victim is stated with the distance of a frame from the
hand at the start (`Ahead`). For CLOCK (`Passed`): the evictable frames at a distance
below i were referenced and are not any more, and none is at a distance below i minus
a turn; after two turns there is none at all, so the code after its loop is reached
only with nothing to evict. For WSClock (`Cleaned`): a frame that was passed has lost
its reference bit, and one outside the working set that was passed twice is clean, so
that the second attempt finds it. `FailedSearchChangesNothing` justifies a step of the
model itself: `FaultFails` leaves hand and bits alone, as two turns over frames that
cannot go bring the hand back. The recursive functions are all unfolded by one lemma
(`Computable`), and the inductions are the set form of induction (`Climb`), both from
the least-number argument above.

Only model-checked:

- liveness, as fairness and ENABLED are out of the provers' reach: `ForkSettles`,
  `OperationsEnd`, `ClientEnds`, `HubEnds`, `GoroutinesEnd`, `SimulationEnds`, and
  the half of `IsEventStream` that says that what was accepted is delivered;
- the three runs that end in a violation.

## 6. Not modelled

- The 4-level page table. It mirrors the page tables for one endpoint, and no decision
  reads it. Every write of it accompanies a step that `MemoryManager` has, so that its
  contents are a function of those steps; a statement of where the two agree would
  restate that function. They part where a copy on write does not update it, where a
  huge page is evicted (the address that is invalidated is another one), and where
  small pages and a huge page share a slot of level 2. The hazards list this.
- OPT+ on its own. It differs from Optimal in a penalty for dirty frames. It never marks
  one, so while no frame is dirty it chooses as Optimal does; frames that were written
  under the policy before it do change its choice, within what `Policies` allows (any
  scores), and no property is about that choice.
- Comparisons, sweeps and the recording of traces: each comparison is one run of a
  scenario on managers of its own, which is the first run of `Simulator` without users;
  what remains is ranking. Traces are recorded and replayed by tests only.
- Working-set windows, per-process counters, NUMA costs, compression ratios, status
  reports, request parsing and validation, entry points and the web UI: they feed
  displays, and no step depends on them.

## 7. Plan

Done in this order: the memory manager, because every other part rests on it; the
registry; the process manager; the hub; the policies; Optimal; the monitor; ARC; then
CAR and its alternation with ARC, PFF's resident set, the simulator, the end of the
monitor's goroutines, the failing decompression, and the two abstract specifications.

Left to model, if it is worth the states: two clients of the hub; an abstract
specification of copy-on-write memory (each process has its own values) that
`MemoryManager` implements until a breach.

Proved in this order: the memory manager until a breach, the registry, the process
manager; the hub, the refinement of `ProcessLife`, the monitor and the safety of its
stream, the simulator, what the memory manager keeps of removed processes and without
forks, `OneKeepsOriginal`, ARC and CAR, and the policies that decide from the frames.

With these every invariant, action property and refinement of the runs is proved but
for its liveness. What remains to prove is Optimal, whose statement fails as the run
`V_Farthest` shows and would first need the condition under which it holds.
