---------------------------- MODULE MemoryManager ----------------------------
(***************************************************************************)
(* MemoryManager of internal/memory/manager.go: the operations that API     *)
(* handlers call concurrently.  Every operation runs under mm.mu and is one *)
(* atomic action, except AccessMemory, which drops its read lock after the  *)
(* TLB lookup and takes the write lock for the rest: other operations may   *)
(* run in between, so it is a first step (AccessFast) and a second one      *)
(* (AccessHit, AccessFault, AccessError, AccessGone).                       *)
(***************************************************************************)
EXTENDS Paging

CONSTANTS
    Threads,     \* goroutines that call AccessMemory
    Algs,        \* the algorithms callers select
    Toggles,     \* the features callers enable
    Ops          \* the other operations callers use

OpNames == {"remove", "fork", "huge", "reset", "pin"}

ASSUME CallersAssumption ==
    /\ Algs \subseteq Algorithms /\ Toggles \subseteq Features
    /\ Ops \subseteq OpNames

VARIABLES
    mm,   \* the paging state
    req   \* [Threads -> the access between its two locked sections, or Idle]

vars == <<mm, req>>

Idle == [proc |-> NoProc, page |-> NoID, write |-> FALSE]
Request == [proc : Procs, page : 0 .. MaxVirtual, write : BOOLEAN]

Init ==
    /\ mm \in {NewMemoryManager(a) : a \in Algs}
    /\ req = [t \in Threads |-> Idle]

-----------------------------------------------------------------------------
(* Processes *)

CreateProcess(p) ==
    /\ p \notin mm.live
    /\ mm' = [mm EXCEPT !.live = @ \cup {p},
                        !.pt[p] = [v \in PageIDs |-> NoPage],
                        !.recent[p] = <<>>,
                        !.huge[p] = [i \in HugeIdx |-> NoFrame]]
    /\ UNCHANGED req

\* The frames that p's present pages name, whoever else maps them.
MappedFrames(s, p) == {s.pt[p][v].frame : v \in PageIDs} \ {NoFrame}

\* Some other process maps a frame of p.
MapsSharedFrame(s, p) == \E q \in Procs \ {p} : MappedFrames(s, q) \cap MappedFrames(s, p) # {}

\* Mutant: the page table outlives the process.
RemoveProcessKeepTable(p) ==
    /\ "remove" \in Ops
    /\ p \in mm.live
    /\ LET gone == MappedFrames(mm, p)
       IN  mm' = [mm EXCEPT
             !.live = @ \ {p},
             !.owner = [f \in Frames |-> IF f \in gone THEN NoOwner ELSE @[f]],
             !.tlb[p] = [v \in PageIDs |-> NoFrame],
             !.sharers = [id \in PageIDs |-> @[id] \ {p}],
             !.history = IF MapsSharedFrame(mm, p) THEN @ \cup {"remove"} ELSE @]
    /\ UNCHANGED req

\* RemoveProcess releases the frame of every present page of p, drops p from
\* every shared page, from the TLB and from the clusters, and forgets its tables.
\* Frames that hold p's huge pages, or pages p has since copied, stay in use.
RemoveProcess(p) ==
    /\ "remove" \in Ops
    /\ p \in mm.live
    /\ LET gone == MappedFrames(mm, p)
       IN  mm' = [mm EXCEPT
             !.live = @ \ {p},
             !.owner = [f \in Frames |-> IF f \in gone THEN NoOwner ELSE @[f]],
             !.dirty = @ \ gone,
             !.pt[p] = [v \in PageIDs |-> NoPage],
             !.tlb[p] = [v \in PageIDs |-> NoFrame],
             !.sharers = [id \in PageIDs |-> @[id] \ {p}],
             !.huge[p] = [i \in HugeIdx |-> NoFrame],
             !.recent[p] = <<>>,
             !.clusters = {k \in @ : k[1] # p},
             !.history = IF MapsSharedFrame(mm, p) THEN @ \cup {"remove"} ELSE @]
    /\ UNCHANGED req

\* PageTable.Clone: the child's entries name the same IDs and frames, all shared.
Clone(table) ==
    [v \in PageIDs |-> IF table[v].id = NoID THEN NoPage
                       ELSE [table[v] EXCEPT !.shared = TRUE]]

\* Page.MakeShared on the present pages
MakeShared(table) ==
    [v \in PageIDs |-> IF table[v].frame = NoFrame THEN table[v]
                       ELSE [table[v] EXCEPT !.shared = TRUE]]

\* The IDs of the present pages of a table: what CopyOnWrite.ForkProcess registers.
PresentIDs(table) == {table[v].id : v \in {w \in PageIDs : table[w].frame # NoFrame}}

\* Some entry of the table is a copy: its ID is not the key it is stored under.
HoldsCopy(table) == \E v \in PageIDs : table[v].id \notin {NoID, v}

\* ForkProcess, for a child ID that is not in use (process.Manager draws a fresh
\* one; module ProcessManager is about when it does not).
ForkProcess(p, c) ==
    /\ "fork" \in Ops
    /\ p \in mm.live /\ c \notin mm.live
    /\ LET table == mm.pt[p]
       IN  mm' = [mm EXCEPT
             !.live = @ \cup {c},
             !.pt = [@ EXCEPT ![c] = Clone(table), ![p] = MakeShared(table)],
             !.sharers = [id \in PageIDs |->
                 IF id \in PresentIDs(table) THEN @[id] \cup {p, c} ELSE @[id]],
             !.huge[c] = [i \in HugeIdx |-> NoFrame],
             !.recent[c] = <<>>,
             !.history = @ \cup {"fork"} \cup
                         (IF HoldsCopy(table) THEN {"refork"} ELSE {})]
    /\ UNCHANGED req

-----------------------------------------------------------------------------
(* AccessMemory *)

\* The section under the read lock.  A read that hits the TLB ends here and
\* changes nothing but recency, so only the accesses that go on are recorded.
AccessFast(t, p, v, w) ==
    /\ req[t] = Idle
    /\ p \in mm.live
    /\ w \/ mm.tlb[p][v] = NoFrame
    /\ req' = [req EXCEPT ![t] = [proc |-> p, page |-> v, write |-> w]]
    /\ UNCHANGED mm

\* algorithm.OnPageAccess(frame, write), as far as the frame's dirty bit goes
OnPageAccess(s, f, w) ==
    IF w /\ s.alg # "optimal" THEN [s EXCEPT !.dirty = @ \cup {f}] ELSE s

\* The section under the write lock up to the residency test.
Locate(s, r) == GetOrCreatePage(TrackAccess(s, r.proc, r.page), r.proc, r.page)

IsPresent(s, r) == s.pt[r.proc][r.page].frame # NoFrame

WritesShared(s, r) == r.write /\ s.pt[r.proc][r.page].shared

\* A resident page: recency, TLB, and copy on write (HandleCoW, or its failure).
HitOutcomes(s, r) ==
    LET f   == s.pt[r.proc][r.page].frame
        hit == TLBInsert(OnPageAccess(s, f, r.write), r.proc, r.page, f)
    IN  UNION {IF WritesShared(h, r)
               THEN HandleCoW(h, r.proc, r.page) \cup HandleCoWFails(h, r.proc, r.page)
               ELSE {h} : h \in hit}

\* A page fault that succeeds, with the trimming and prefetching that follow it.
FaultOutcomes(s, r) ==
    LET loaded  == LoadPage(s, r.proc, r.page)
        written == UNION {IF WritesShared(l, r) THEN HandleCoW(l, r.proc, r.page)
                                                ELSE {l} : l \in loaded}
        trimmed == UNION {EnforcePFFResident(x) : x \in written}
    IN  UNION {TryPrefetch(x, r.proc) : x \in trimmed}

\* A page fault that fails: no frame for the page, or none for its copy.
ErrorOutcomes(s, r) ==
    LET id     == s.pt[r.proc][r.page].id
        loaded == LoadPage(s, r.proc, r.page)
    IN  IF loaded = {} THEN {RestoreCompressed(s, DecompressPage(s, id), id)}
        ELSE UNION {IF WritesShared(l, r) THEN HandleCoWFails(l, r.proc, r.page)
                                          ELSE {} : l \in loaded}

Pending(t) == req[t] # Idle
Done(t) == req' = [req EXCEPT ![t] = Idle]

AccessHit(t) ==
    /\ Pending(t) /\ req[t].proc \in mm.live
    /\ LET s == Locate(mm, req[t])
       IN  IsPresent(s, req[t]) /\ mm' \in HitOutcomes(s, req[t])
    /\ Done(t)

\* Mutant: the process is not looked up again under the write lock.
AccessFaultUnchecked(t) ==
    /\ Pending(t)
    /\ LET s == Locate(mm, req[t])
       IN  ~IsPresent(s, req[t]) /\ mm' \in FaultOutcomes(s, req[t])
    /\ Done(t)

AccessFault(t) ==
    /\ Pending(t) /\ req[t].proc \in mm.live
    /\ LET s == Locate(mm, req[t])
       IN  ~IsPresent(s, req[t]) /\ mm' \in FaultOutcomes(s, req[t])
    /\ Done(t)

AccessError(t) ==
    /\ Pending(t) /\ req[t].proc \in mm.live
    /\ LET s == Locate(mm, req[t])
       IN  ~IsPresent(s, req[t]) /\ mm' \in ErrorOutcomes(s, req[t])
    /\ Done(t)

\* The process was removed between the two sections.
AccessGone(t) ==
    /\ Pending(t) /\ req[t].proc \notin mm.live
    /\ UNCHANGED mm
    /\ Done(t)

-----------------------------------------------------------------------------
(* Huge pages, configuration, reset, pinning *)

\* MapHugePage: the frame records the synthetic ID, and no page-table entry does,
\* unless a caller accesses a page of that number.
MapHugePage(p, i) ==
    /\ "huge" \in Ops
    /\ p \in mm.live
    /\ \E o \in ObtainFrame(mm, AllocateFrameForPage(mm, p), p, HugeBase + i) :
          mm' = [o.st EXCEPT
            !.huge[p][i] = o.frame,
            !.history = IF HugeBase + i \in PageIDs THEN @ \cup {"alias"} ELSE @]
    /\ UNCHANGED req

SetAlgorithm(a) ==
    /\ mm' = [mm EXCEPT !.alg = a]
    /\ UNCHANGED req

\* EnableNuma, EnableCompression, EnableClustering
Enable(feature, enabled) ==
    /\ mm' = [mm EXCEPT !.on = IF enabled THEN @ \cup {feature} ELSE @ \ {feature}]
    /\ UNCHANGED req

\* Reset keeps the pins, the page-ID counter, the algorithm and the features.
Reset ==
    /\ "reset" \in Ops
    /\ mm' = [NewMemoryManager(mm.alg) EXCEPT
                !.on = mm.on, !.pinned = mm.pinned, !.copies = mm.copies]
    /\ UNCHANGED req

\* Frame.Pin and Frame.Unpin
SetPinned(f, pin) ==
    /\ "pin" \in Ops
    /\ mm' = [mm EXCEPT !.pinned = IF pin THEN @ \cup {f} ELSE @ \ {f}]
    /\ UNCHANGED req

Next ==
    \/ \E p \in Procs : CreateProcess(p) \/ RemoveProcess(p)
    \/ \E p, c \in Procs : ForkProcess(p, c)
    \/ \E t \in Threads, p \in Procs, v \in 0 .. MaxVirtual, w \in BOOLEAN :
          AccessFast(t, p, v, w)
    \/ \E t \in Threads : AccessHit(t) \/ AccessFault(t) \/ AccessError(t) \/ AccessGone(t)
    \/ \E p \in Procs, i \in HugeIdx : MapHugePage(p, i)
    \/ \E a \in Algs : SetAlgorithm(a)
    \/ \E x \in Toggles, b \in BOOLEAN : Enable(x, b)
    \/ Reset
    \/ \E f \in Frames, b \in BOOLEAN : SetPinned(f, b)

Spec == Init /\ [][Next]_vars

-----------------------------------------------------------------------------
(* Properties *)

\* Every field of the memory manager, and every access in flight, has its type.
TypeOK ==
    /\ mm \in State
    /\ req \in [Threads -> Request \cup {Idle}]

Maps(p, v) == mm.pt[p][v].frame

\* The mappings have been built only by operations that keep them sound.
NoBreach == mm.history \subseteq {"fork", "alias"}

\* The copy-on-write promise (cow.go): two page-table entries name the same frame
\* only while both are marked shared, so that the next write of either one copies
\* it.  It holds until one of the four breaches happens, whatever the policy, the
\* features, the evictions and the order of accesses, forks and removals.
Isolation ==
    NoBreach =>
      \A p, q \in Procs, v, w \in PageIDs :
        (<<p, v>> # <<q, w>> /\ Maps(p, v) = Maps(q, w) /\ Maps(p, v) # NoFrame)
          => mm.pt[p][v].shared /\ mm.pt[q][w].shared

\* A page marked present is in a frame that is in use, and its process is alive:
\* a released frame can be given to another page without two pages meeting in it.
NoDanglingPage ==
    NoBreach =>
      \A p \in Procs, v \in PageIDs :
        Maps(p, v) # NoFrame => p \in mm.live /\ mm.owner[Maps(p, v)] # NoOwner

\* The TLB never answers with a frame the page table does not name: the fast path
\* of AccessMemory, which reads the TLB alone, sees what the slow path would see.
TLBCoherent ==
    NoBreach =>
      \A p \in Procs, v \in PageIDs :
        mm.tlb[p][v] # NoFrame => mm.tlb[p][v] = Maps(p, v)

\* As long as nobody forks, or maps a huge page under the number of a small one, there
\* is no breach, and the page tables and the frame table are inverse to each other: a
\* frame records (p, v) exactly if p's entry for v names that frame.
TablesAgree ==
    mm.history \cap {"fork", "alias"} = {} =>
      /\ mm.history = {}
      /\ \A p \in Procs, v \in PageIDs, f \in Frames :
           mm.owner[f] = OwnedBy(p, v) <=> Maps(p, v) = f

\* A removed process leaves nothing behind in the TLB, among the sharers, the
\* clusters and the access history: an access of a later process with the same ID
\* cannot be served from its remains.
NothingLeftOfTheDead ==
    \A p \in Procs \ mm.live :
        /\ \A v \in PageIDs : mm.tlb[p][v] = NoFrame /\ p \notin mm.sharers[v]
        /\ \A k \in mm.clusters : k[1] # p
        /\ mm.recent[p] = <<>>

\* "Restore compressed entry to prevent data loss when frame allocation fails after
\* DecompressPage deleted it" (handlePageFault): a page leaves the compressed store
\* only for a frame or by a reset, also when every frame is pinned.  PFF may trim the
\* page it has just loaded, and a copy on write may evict the page it copies; as
\* TablesAgree, it is stated up to a huge page under the number of a small one.
CompressedKept ==
    [][\/ Reset \/ mm.alg = "pff" \/ mm.history \cap {"fork", "alias"} # {}
       \/ \A id \in mm.zip \ mm'.zip : \E f \in Frames : mm'.owner[f].page = id]_vars

-----------------------------------------------------------------------------
(* The inductive invariant behind Isolation, NoDanglingPage and TLBCoherent.  *)

\* Present pages have an entry of a live process and a frame in use.
InUse(s) ==
    \A p \in Procs, v \in PageIDs : s.pt[p][v].frame # NoFrame =>
        p \in s.live /\ s.pt[p][v].id # NoID /\ s.owner[s.pt[p][v].frame] # NoOwner

\* An entry whose ID is not its key is a private copy in a frame of its own.
Keyed(s) ==
    \A p \in Procs, v \in PageIDs : s.pt[p][v].id \notin {NoID, v} =>
        /\ ~s.pt[p][v].shared
        /\ s.pt[p][v].frame # NoFrame
        /\ s.owner[s.pt[p][v].frame] = OwnedBy(p, s.pt[p][v].id)

\* Entries that name the same frame have the same key, are both marked shared, and
\* their processes are registered sharers of that key.
SharedAlike(s) ==
    \A p, q \in Procs, v, w \in PageIDs :
      (<<p, v>> # <<q, w>> /\ s.pt[p][v].frame = s.pt[q][w].frame
          /\ s.pt[p][v].frame # NoFrame) =>
        /\ v = w
        /\ s.pt[p][v].shared /\ s.pt[q][w].shared
        /\ p \in s.sharers[v] /\ q \in s.sharers[v]

Coherent(s) ==
    \A p \in Procs, v \in PageIDs :
        s.tlb[p][v] # NoFrame => s.tlb[p][v] = s.pt[p][v].frame

Good(s) == InUse(s) /\ Keyed(s) /\ SharedAlike(s) /\ Coherent(s)

\* What makes the three properties inductive: shared frames are shared under one
\* key by registered sharers (so that HandleWrite counts at least two references
\* while a frame has two users), and copies sit in frames that record them.
IInv == TypeOK /\ (NoBreach => Good(mm))

-----------------------------------------------------------------------------
(* What the repository says of the program and the program does not keep.     *)

\* "In physical memory" (page.go, Present): the frame a present page names holds
\* that page.  Eviction clears only the entry the frame records, so the other
\* sharers of the frame keep naming it after it has been given away.
PresentMeansResident ==
    \A p \in Procs, v \in PageIDs :
        Maps(p, v) # NoFrame => mm.owner[Maps(p, v)].page = mm.pt[p][v].id

=============================================================================
