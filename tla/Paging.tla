------------------------------- MODULE Paging -------------------------------
(***************************************************************************)
(* The paging core of internal/memory as one record: the frame table, the  *)
(* per-process page tables, the TLB, the registry of shared pages of       *)
(* internal/cow, the compressed store, the huge-page map and the access    *)
(* history behind prefetching.  The Go struct MemoryManager holds all of   *)
(* them and guards them with one lock, mm.mu, so each helper of manager.go *)
(* is an operator from a state s to the set of states it may leave: it is  *)
(* a singleton where the code is deterministic, and has one element per    *)
(* choice where the outcome depends on a replacement policy or on the LRU  *)
(* order of the TLB.  Module MemoryManager composes them into actions.     *)
(***************************************************************************)
EXTENDS Integers, Sequences, FiniteSets

CONSTANTS
    Procs,           \* process identifiers ("proc-1", ...)
    NoProc,          \* ProcessID of a released frame
    NumFrames,       \* number of physical frames
    MaxVirtual,      \* callers access the virtual pages 0..MaxVirtual
    MaxClusterSize,  \* maxClusterSize of the PageClusterManager (16)
    MaxCopies,       \* bound: copy-on-write page IDs handed out in a behaviour
    CowBase,         \* cow.nextPageID starts here, "high to avoid conflicts" (1000000)
    HugeBase,        \* base of the synthetic IDs of huge pages (1 << 32)
    HugeIdx,         \* huge-page indices that callers map
    TLBSize,         \* TLB capacity, 0 = unlimited
    NodeOne          \* the processes whose ID hashes to NUMA node 1

ASSUME ProcsAssumption == IsFiniteSet(Procs) /\ NoProc \notin Procs
ASSUME NumFramesAssumption == NumFrames \in Nat
ASSUME BoundsAssumption ==
    /\ MaxVirtual \in Nat /\ MaxClusterSize \in Nat /\ MaxCopies \in Nat
    /\ TLBSize \in Nat /\ CowBase \in Nat
ASSUME HugeAssumption == HugeBase \in Nat /\ HugeIdx \subseteq Nat
ASSUME NodeAssumption == NodeOne \subseteq Procs

Frames == 0 .. NumFrames - 1
NoFrame == -1
NoID == -1

\* Page numbers.  Nothing in the code keeps callers from accessing the ID of a copy or
\* of a huge page, so the three sets may overlap.
VPages == 0 .. MaxVirtual + MaxClusterSize
CowIDs == CowBase + 1 .. CowBase + MaxCopies
PageIDs == VPages \cup CowIDs
HugeIDs == {HugeBase + i : i \in HugeIdx}

\* A page-table entry.  Present in the code is frame # NoFrame, ReadOnly always
\* equals Shared, and id = NoID says that the table has no entry for the key.
Page == [id : PageIDs \cup {NoID}, frame : Frames \cup {NoFrame}, shared : BOOLEAN]
NoPage == [id |-> NoID, frame |-> NoFrame, shared |-> FALSE]

\* What a frame records about its content.
Owner == [proc : Procs \cup {NoProc}, page : PageIDs \cup HugeIDs \cup {NoID}]
NoOwner == [proc |-> NoProc, page |-> NoID]
OwnedBy(p, id) == [proc |-> p, page |-> id]

\* The replacement algorithms, by what they mean for the memory manager: all of
\* them choose some unpinned used frame, "wsclock" also cleans dirty frames while
\* it scans, "optimal" (Optimal, OPT+) never records a write in the frame, "pff"
\* also trims the resident set after a fault.  The others are "standard".
Algorithms == {"standard", "optimal", "wsclock", "pff"}
Features == {"numa", "compression", "clustering"}

\* History: what has happened since the last Reset that page-table soundness
\* depends on.  "fork" is any fork; "alias" is the mapping of a huge page whose
\* synthetic ID is also the number of a small page; the other four are the operations
\* that module MemoryManager shows to be the only sources of inconsistent mappings.
Breaches == {"evict", "remove", "refork", "copyFailed"}

PageTables == [Procs -> [PageIDs -> Page]]
TLBs == [Procs -> [PageIDs -> Frames \cup {NoFrame}]]

State == [
    alg      : Algorithms,
    on       : SUBSET Features,
    live     : SUBSET Procs,                                  \* processes, pageTables
    owner    : [Frames -> Owner],                             \* Frame.ProcessID, PageID
    dirty    : SUBSET Frames,                                 \* Frame.Modified
    pinned   : SUBSET Frames,                                 \* Frame.Pinned
    pt       : PageTables,                                    \* PageTable.Entries
    tlb      : TLBs,                                          \* TLB.entries
    sharers  : [PageIDs -> SUBSET Procs],                     \* SharedPage.Processes
    copies   : 0 .. MaxCopies,                                \* nextPageID - CowBase
    zip      : SUBSET (PageIDs \cup HugeIDs \cup {NoID}),     \* compressedPages
    huge     : [Procs -> [HugeIdx -> Frames \cup {NoFrame}]], \* hugePages
    recent   : [Procs -> Seq(0 .. MaxVirtual)],               \* recentAccesses, last 3
    clusters : SUBSET (Procs \X (0 .. MaxVirtual)),           \* sequential anchors
    history  : SUBSET (Breaches \cup {"fork", "alias"})]

\* The state NewMemoryManager builds, with the algorithm its caller names.
NewMemoryManager(a) == [
    alg |-> a, on |-> {}, live |-> {},
    owner |-> [f \in Frames |-> NoOwner], dirty |-> {}, pinned |-> {},
    pt |-> [p \in Procs |-> [v \in PageIDs |-> NoPage]],
    tlb |-> [p \in Procs |-> [v \in PageIDs |-> NoFrame]],
    sharers |-> [v \in PageIDs |-> {}], copies |-> 0,
    zip |-> {},
    huge |-> [p \in Procs |-> [i \in HugeIdx |-> NoFrame]],
    recent |-> [p \in Procs |-> <<>>], clusters |-> {},
    history |-> {}]

-----------------------------------------------------------------------------
(* Page tables *)

\* The entry of p's table at key v becomes e.
SetPage(s, p, v, e) == [s EXCEPT !.pt[p][v] = e]

\* PageTable.GetOrCreatePage
GetOrCreatePage(s, p, v) ==
    IF s.pt[p][v].id = NoID THEN SetPage(s, p, v, [NoPage EXCEPT !.id = v]) ELSE s

-----------------------------------------------------------------------------
(* Frame table *)

First(S) == {f \in S : \A g \in S : f <= g}

FreeFrames(s) == {f \in Frames : s.owner[f] = NoOwner}
UsedFrames(s) == Frames \ FreeFrames(s)

\* FrameTable.AllocateFrame scans the frames in order: the set holds the frame
\* it returns, and is empty where it fails.
AllocateFrame(s) == First(FreeFrames(s))

NodeFrames(p) ==
    IF p \in NodeOne THEN NumFrames \div 2 .. NumFrames - 1
                     ELSE 0 .. (NumFrames \div 2) - 1

\* allocateFrameForPage: the process's NUMA node first, then any node.
AllocateFrameForPage(s, p) ==
    LET local == FreeFrames(s) \cap NodeFrames(p)
    IN  IF "numa" \in s.on /\ local # {} THEN First(local) ELSE AllocateFrame(s)

\* Frame.Allocate
Allocate(s, f, p, id) ==
    [s EXCEPT !.owner[f] = OwnedBy(p, id), !.dirty = @ \ {f}]

-----------------------------------------------------------------------------
(* TLB *)

TLBKeys(s) == {k \in Procs \X PageIDs : s.tlb[k[1]][k[2]] # NoFrame}

SetTLB(s, p, v, f) == [s EXCEPT !.tlb[p][v] = f]

\* TLB.Invalidate, of every key in K
TLBDrop(s, K) ==
    [s EXCEPT !.tlb = [p \in Procs |-> [v \in PageIDs |->
        IF <<p, v>> \in K THEN NoFrame ELSE s.tlb[p][v]]]]

\* TLB.Insert: at capacity one entry goes first, even if the key is present;
\* which one depends on access times.
TLBInsert(s, p, v, f) ==
    LET gone == IF TLBSize > 0 /\ Cardinality(TLBKeys(s)) >= TLBSize
                THEN {{k} : k \in TLBKeys(s)} ELSE {{}}
    IN  {SetTLB(TLBDrop(s, K), p, v, f) : K \in gone}

-----------------------------------------------------------------------------
(* Eviction *)

\* SelectVictim's candidates: every policy skips free and pinned frames.
Evictable(s) == UsedFrames(s) \ s.pinned

\* The states in which a policy's scan leaves the frames: WSClock clears the
\* dirty bit of aged frames on its way.
AfterScan(s) ==
    IF s.alg = "wsclock"
    THEN {[s EXCEPT !.dirty = @ \ D] : D \in SUBSET (s.dirty \cap Evictable(s))}
    ELSE {s}

\* The frames in F record (p, id) as their content.
Holds(s, F, p, id) == \E f \in F : s.owner[f] = OwnedBy(p, id)

\* Eviction looks the page up by what the frame records.  It is sound if the
\* recorded entry is the only one that maps the frame and maps no other frame.
SoundEviction(s, F) ==
    \A f \in F, p \in Procs, v \in PageIDs :
        IF s.owner[f] = OwnedBy(p, v)
        THEN s.pt[p][v].frame \in {f, NoFrame}
        ELSE s.pt[p][v].frame # f

\* CompressPage: the compressed store after the dirty frames among F are evicted.
CompressPage(s, F) ==
    IF "compression" \in s.on
    THEN s.zip \cup {s.owner[f].page : f \in F \cap s.dirty} ELSE s.zip

\* DecompressPage
DecompressPage(s, id) ==
    IF "compression" \in s.on THEN [s EXCEPT !.zip = @ \ {id}] ELSE s

\* Mutant: the entry is not put back.
RestoreNothing(s, d, id) == d

\* RestoreCompressed: state d is s after a decompression of page id that was in vain;
\* the entry goes back if there was one.
RestoreCompressed(s, d, id) ==
    IF "compression" \in s.on /\ id \in s.zip THEN [d EXCEPT !.zip = @ \cup {id}] ELSE d

\* Mutant: evictPage without the TLB invalidation.
EvictPagesKeepTLB(s, F) ==
    [s EXCEPT
        !.pt = [p \in Procs |-> [v \in PageIDs |->
                  IF Holds(s, F, p, v) THEN [s.pt[p][v] EXCEPT !.frame = NoFrame]
                                       ELSE s.pt[p][v]]],
        !.owner = [f \in Frames |-> IF f \in F THEN NoOwner ELSE s.owner[f]],
        !.dirty = @ \ F,
        !.history = IF SoundEviction(s, F) THEN @ ELSE @ \cup {"evict"}]

\* evictPage, of every frame in F (one frame, except in EnforcePFFResident).
EvictPages(s, F) ==
    [s EXCEPT
        !.zip = CompressPage(s, F),
        !.pt = [p \in Procs |-> [v \in PageIDs |->
                  IF Holds(s, F, p, v) THEN [s.pt[p][v] EXCEPT !.frame = NoFrame]
                                       ELSE s.pt[p][v]]],
        !.tlb = [p \in Procs |-> [v \in PageIDs |->
                  IF Holds(s, F, p, v) THEN NoFrame ELSE s.tlb[p][v]]],
        !.owner = [f \in Frames |-> IF f \in F THEN NoOwner ELSE s.owner[f]],
        !.dirty = @ \ F,
        !.history = IF SoundEviction(s, F) THEN @ ELSE @ \cup {"evict"}]

\* A frame for page id of process p: the free one offered, else a victim's.
\* Empty where SelectVictim finds no evictable frame.
ObtainFrame(s, free, p, id) ==
    IF free # {}
    THEN {[frame |-> f, st |-> Allocate(s, f, p, id)] : f \in free}
    ELSE UNION {{[frame |-> f, st |-> Allocate(EvictPages(c, {f}), f, p, id)] :
                    f \in Evictable(c)} : c \in AfterScan(s)}

-----------------------------------------------------------------------------
(* Page faults *)

\* SetFrame on the entry at key v, and the TLB entry, which goes under the
\* page's own ID.
MapPage(s, p, v, f) ==
    TLBInsert(SetPage(s, p, v, [s.pt[p][v] EXCEPT !.frame = f]), p, s.pt[p][v].id, f)

\* The loading half of handlePageFault, atomicEvictAndAlloc included.  Empty
\* where no frame can be had.
LoadPage(s, p, v) ==
    LET id  == s.pt[p][v].id
        dec == DecompressPage(s, id)
    IN  UNION {MapPage(o.st, p, v, o.frame) :
                  o \in ObtainFrame(dec, AllocateFrameForPage(dec, p), p, id)}

\* enforcePFFResident: frames are evicted until used <= target or none is
\* evictable.  The target moves with the fault rate, anywhere in 1..NumFrames.
EnforcePFFResident(s) ==
    IF s.alg = "pff"
    THEN {EvictPages(s, F) : F \in {E \in SUBSET Evictable(s) :
              E = {} \/ Cardinality(E) < Cardinality(UsedFrames(s))}}
    ELSE {s}

-----------------------------------------------------------------------------
(* Copy on write *)

\* Mutant: the writer's own reference is counted twice.
NeedsCopyMiscounted(s, p, id) == Cardinality(s.sharers[id]) > 2 /\ p \in s.sharers[id]

\* The decision of CopyOnWrite.HandleWrite for a page marked shared: copy when
\* the ID has another sharer and the writer is a registered one.
NeedsCopy(s, p, id) == Cardinality(s.sharers[id]) > 1 /\ p \in s.sharers[id]

\* !needsCopy: the last reference is given up, and the flags are cleared.
TakeOwnership(s, p, v) ==
    LET id   == s.pt[p][v].id
        last == IF Cardinality(s.sharers[id]) <= 1 THEN {p} ELSE {}
    IN  SetPage([s EXCEPT !.sharers[id] = @ \ last],
                p, v, [s.pt[p][v] EXCEPT !.shared = FALSE])

\* HandleWrite deregisters the writer and draws a page ID.
Deregister(s, p, id) == [s EXCEPT !.sharers[id] = @ \ {p}, !.copies = @ + 1]

\* needsCopy: the copy gets the next page ID and a frame of its own, and
\* replaces the entry under the ID of the page it copies.  (The registry and the
\* frames are disjoint state under one lock: their order cannot be observed.)
CopyPage(s, p, v) ==
    LET id      == s.pt[p][v].id
        new     == CowBase + s.copies + 1
        copy(f) == [id |-> new, frame |-> f, shared |-> FALSE]
        install(o) == Deregister(SetPage(o.st, p, id, copy(o.frame)), p, id)
    IN  UNION {TLBInsert(TLBDrop(install(o), {<<p, id>>}), p, id, o.frame) :
                  o \in ObtainFrame(s, AllocateFrame(s), p, new)}

\* handleCoW that returns nil; the bound MaxCopies disables one copy too many.
HandleCoW(s, p, v) ==
    IF ~NeedsCopy(s, p, s.pt[p][v].id) THEN {TakeOwnership(s, p, v)}
    ELSE IF s.copies < MaxCopies THEN CopyPage(s, p, v)
    ELSE {}

\* handleCoW that returns an error: no frame for the copy, but the writer is no
\* longer a registered sharer of the page it still maps.
HandleCoWFails(s, p, v) ==
    LET id == s.pt[p][v].id
    IN  IF NeedsCopy(s, p, id) /\ s.copies < MaxCopies /\ CopyPage(s, p, v) = {}
        THEN {[Deregister(s, p, id) EXCEPT !.history = @ \cup {"copyFailed"}]}
        ELSE {}

-----------------------------------------------------------------------------
(* Clustering *)

LastThree(q) == IF Len(q) > 3 THEN Tail(q) ELSE q

\* DetectSequential, for the last three accesses
DetectSequential(q) == Len(q) = 3 /\ q[2] = q[1] + 1 /\ q[3] = q[2] + 1

\* trackAccess: only the last three accesses matter.
TrackAccess(s, p, v) ==
    LET q == LastThree(Append(s.recent[p], v))
    IN  IF "clustering" \in s.on
        THEN [s EXCEPT !.recent[p] = q,
                       !.clusters = IF DetectSequential(q) THEN @ \cup {<<p, q[1]>>} ELSE @]
        ELSE s

\* GetPrefetchPages for the anchor that tryPrefetch computes.
PrefetchPages(s, p) ==
    LET q == s.recent[p]
    IN  IF Len(q) = 3 /\ <<p, q[1]>> \in s.clusters
        THEN q[1] + 1 .. q[1] + MaxClusterSize ELSE {}

\* Mutant: the prefetch loop does not skip resident pages.
PrefetchResident(s, p) ==
    LET load(v) ==
            LET c  == GetOrCreatePage(s, p, v)
                fs == AllocateFrameForPage(c, p)
            IN  IF fs = {} THEN {c}
                ELSE UNION {MapPage(Allocate(c, f, p, v), p, v, f) : f \in fs}
    IN  IF PrefetchPages(s, p) = {} THEN {s}
        ELSE UNION {load(v) : v \in First(PrefetchPages(s, p))}

\* One round of the loop of tryPrefetch: the first page of the cluster that is
\* not resident is created and, if a frame is free, loaded.
PrefetchOne(s, p) ==
    LET next == First({v \in PrefetchPages(s, p) : s.pt[p][v].frame = NoFrame})
        load(v) ==
            LET c  == GetOrCreatePage(s, p, v)
                id == c.pt[p][v].id
                fs == AllocateFrameForPage(c, p)
            IN  IF fs = {} THEN {c}
                ELSE UNION {MapPage(Allocate(c, f, p, id), p, v, f) : f \in fs}
    IN  IF next = {} THEN {s} ELSE UNION {load(v) : v \in next}

\* tryPrefetch: maxPrefetch = 2 rounds.  A round that found no free frame is
\* repeated to no effect, as if the loop had returned.
TryPrefetch(s, p) ==
    IF "clustering" \in s.on
    THEN UNION {PrefetchOne(s1, p) : s1 \in PrefetchOne(s, p)}
    ELSE {s}

=============================================================================
