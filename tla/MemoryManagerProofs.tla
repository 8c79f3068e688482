------------------------- MODULE MemoryManagerProofs -------------------------
(***************************************************************************)
(* The theorems about the memory manager.  For every operator of Paging    *)
(* there is a lemma on what it changes ("Effect") and, where it moves a    *)
(* mapping, one that it keeps the mappings sound ("Good"); every action of *)
(* MemoryManager then preserves IInv, and the properties follow from it.   *)
(* Two further invariants build on IInv: Clean (a removed process leaves   *)
(* nothing behind; lemmas "Work") and Tables (without forks and without a  *)
(* huge page under the number of a small one the tables are inverse;       *)
(* lemmas "Agree").                                                        *)
(***************************************************************************)
EXTENDS MemoryManager, FiniteSetTheorems, SequenceTheorems, TLAPS

\* The fields of a typed memory manager have their types.
LEMMA FieldTypes ==
    ASSUME NEW s \in State
    PROVE  /\ s.live \subseteq Procs /\ s.owner \in [Frames -> Owner]
           /\ s.dirty \subseteq Frames /\ s.pinned \subseteq Frames
           /\ s.pt \in PageTables /\ s.tlb \in TLBs
           /\ s.sharers \in [PageIDs -> SUBSET Procs] /\ s.copies \in 0 .. MaxCopies
  BY DEF State

\* Page-table entries and TLB entries of a typed memory manager have their types.
LEMMA EntryTypes ==
    ASSUME NEW s \in State, NEW p \in Procs, NEW v \in PageIDs
    PROVE  /\ s.pt[p][v] \in Page
           /\ s.pt[p][v].frame \in Frames \cup {NoFrame}
           /\ s.pt[p][v].id \in PageIDs \cup {NoID}
           /\ s.pt[p][v].shared \in BOOLEAN
           /\ s.tlb[p][v] \in Frames \cup {NoFrame}
  BY FieldTypes DEF PageTables, TLBs, Page

\* Soundness depends on five fields only.
LEMMA SameGood ==
    ASSUME NEW s, NEW t, t.pt = s.pt, t.owner = s.owner, t.live = s.live, t.sharers = s.sharers
    PROVE  /\ InUse(s) => InUse(t)
           /\ Keyed(s) => Keyed(t)
           /\ SharedAlike(s) => SharedAlike(t)
           /\ t.tlb = s.tlb /\ Good(s) => Good(t)
<1>1. InUse(s) => InUse(t) BY DEF InUse
<1>2. Keyed(s) => Keyed(t) BY DEF Keyed
<1>3. SharedAlike(s) => SharedAlike(t) BY DEF SharedAlike
<1>4. t.tlb = s.tlb /\ Coherent(s) => Coherent(t) BY DEF Coherent
<1> QED BY <1>1, <1>2, <1>3, <1>4 DEF Good

\* SetPage changes one page-table entry and nothing else.
LEMMA SetPageEffect ==
    ASSUME NEW s \in State, NEW p \in Procs, NEW v \in PageIDs, NEW e \in Page
    PROVE  LET t == SetPage(s, p, v, e)
           IN  /\ t \in State
               /\ \A q \in Procs, w \in PageIDs :
                    t.pt[q][w] = IF q = p /\ w = v THEN e ELSE s.pt[q][w]
               /\ t.live = s.live /\ t.owner = s.owner /\ t.tlb = s.tlb
               /\ t.sharers = s.sharers /\ t.copies = s.copies /\ t.history = s.history
<1> DEFINE T == [s.pt EXCEPT ![p][v] = e]
           t == SetPage(s, p, v, e)
<1>1. s.pt \in PageTables BY FieldTypes
<1>2. T \in PageTables BY <1>1 DEF PageTables
<1>3. \A q \in Procs, w \in PageIDs : T[q][w] = IF q = p /\ w = v THEN e ELSE s.pt[q][w]
  BY <1>1 DEF PageTables
<1>4. t = [s EXCEPT !.pt = T] BY DEF SetPage, State
<1> HIDE DEF T, t
<1>5. t \in State BY <1>2, <1>4 DEF State
<1>6. t.pt = T BY <1>4 DEF State
<1>7. /\ t.live = s.live /\ t.owner = s.owner /\ t.tlb = s.tlb
      /\ t.sharers = s.sharers /\ t.copies = s.copies /\ t.history = s.history
  BY <1>4 DEF State
<1> QED BY <1>3, <1>5, <1>6, <1>7 DEF t

\* SetTLB changes one TLB entry and nothing else.
LEMMA SetTLBEffect ==
    ASSUME NEW s \in State, NEW p \in Procs, NEW v \in PageIDs, NEW f \in Frames
    PROVE  LET t == SetTLB(s, p, v, f)
           IN  /\ t \in State
               /\ \A q \in Procs, w \in PageIDs :
                    t.tlb[q][w] = IF q = p /\ w = v THEN f ELSE s.tlb[q][w]
               /\ t.live = s.live /\ t.owner = s.owner /\ t.pt = s.pt
               /\ t.sharers = s.sharers /\ t.copies = s.copies /\ t.history = s.history
<1> DEFINE T == [s.tlb EXCEPT ![p][v] = f]
           t == SetTLB(s, p, v, f)
<1>1. s.tlb \in TLBs BY FieldTypes
<1>2. T \in TLBs BY <1>1 DEF TLBs
<1>3. \A q \in Procs, w \in PageIDs : T[q][w] = IF q = p /\ w = v THEN f ELSE s.tlb[q][w]
  BY <1>1 DEF TLBs
<1>4. t = [s EXCEPT !.tlb = T] BY DEF SetTLB, State
<1> HIDE DEF T, t
<1>5. t \in State BY <1>2, <1>4 DEF State
<1>6. t.tlb = T BY <1>4 DEF State
<1>7. /\ t.live = s.live /\ t.owner = s.owner /\ t.pt = s.pt
      /\ t.sharers = s.sharers /\ t.copies = s.copies /\ t.history = s.history
  BY <1>4 DEF State
<1> QED BY <1>3, <1>5, <1>6, <1>7 DEF t

\* TLBDrop only forgets: an entry stays as it was or is absent.
LEMMA TLBDropEffect ==
    ASSUME NEW s \in State, NEW K
    PROVE  LET t == TLBDrop(s, K)
           IN  /\ t \in State
               /\ \A q \in Procs, w \in PageIDs : t.tlb[q][w] \in {NoFrame, s.tlb[q][w]}
               /\ t.live = s.live /\ t.owner = s.owner /\ t.pt = s.pt
               /\ t.sharers = s.sharers /\ t.copies = s.copies /\ t.history = s.history
<1> DEFINE T == [p \in Procs |-> [v \in PageIDs |->
                    IF <<p, v>> \in K THEN NoFrame ELSE s.tlb[p][v]]]
           t == TLBDrop(s, K)
<1>1. s.tlb \in TLBs BY FieldTypes
<1>2. T \in TLBs BY <1>1 DEF TLBs
<1>3. \A q \in Procs, w \in PageIDs : T[q][w] \in {NoFrame, s.tlb[q][w]} OBVIOUS
<1>4. t = [s EXCEPT !.tlb = T] BY DEF TLBDrop, State
<1> HIDE DEF T, t
<1>5. t \in State BY <1>2, <1>4 DEF State
<1>6. t.tlb = T BY <1>4 DEF State
<1>7. /\ t.live = s.live /\ t.owner = s.owner /\ t.pt = s.pt
      /\ t.sharers = s.sharers /\ t.copies = s.copies /\ t.history = s.history
  BY <1>4 DEF State
<1> QED BY <1>3, <1>5, <1>6, <1>7 DEF t

\* Allocate records the owner of one frame.
LEMMA AllocateEffect ==
    ASSUME NEW s \in State, NEW f \in Frames, NEW p \in Procs,
           NEW id \in PageIDs \cup HugeIDs
    PROVE  LET t == Allocate(s, f, p, id)
           IN  /\ t \in State
               /\ \A g \in Frames :
                    t.owner[g] = IF g = f THEN OwnedBy(p, id) ELSE s.owner[g]
               /\ t.live = s.live /\ t.pt = s.pt /\ t.tlb = s.tlb
               /\ t.sharers = s.sharers /\ t.copies = s.copies /\ t.history = s.history
  BY DEF Allocate, State, Owner, OwnedBy

\* EvictPages frees the frames and unmaps exactly the pages they record.
LEMMA EvictPagesEffect ==
    ASSUME NEW s \in State, NEW F \in SUBSET Frames
    PROVE  LET t == EvictPages(s, F)
           IN  /\ t \in State
               /\ \A q \in Procs, w \in PageIDs :
                    /\ t.pt[q][w] = IF Holds(s, F, q, w)
                                    THEN [s.pt[q][w] EXCEPT !.frame = NoFrame]
                                    ELSE s.pt[q][w]
                    /\ t.tlb[q][w] = IF Holds(s, F, q, w) THEN NoFrame ELSE s.tlb[q][w]
               /\ \A g \in Frames : t.owner[g] = IF g \in F THEN NoOwner ELSE s.owner[g]
               /\ t.live = s.live /\ t.sharers = s.sharers /\ t.copies = s.copies
               /\ s.history \subseteq t.history
               /\ t.history \subseteq {"fork", "alias"} => SoundEviction(s, F)
<1> DEFINE T == [p \in Procs |-> [v \in PageIDs |->
                    IF Holds(s, F, p, v) THEN [s.pt[p][v] EXCEPT !.frame = NoFrame]
                                         ELSE s.pt[p][v]]]
           B == [p \in Procs |-> [v \in PageIDs |->
                    IF Holds(s, F, p, v) THEN NoFrame ELSE s.tlb[p][v]]]
           O == [f \in Frames |-> IF f \in F THEN NoOwner ELSE s.owner[f]]
           H == IF SoundEviction(s, F) THEN s.history ELSE s.history \cup {"evict"}
           Z == IF "compression" \in s.on
                THEN s.zip \cup {s.owner[f].page : f \in F \cap s.dirty} ELSE s.zip
           t == EvictPages(s, F)
<1>1. T \in PageTables
  <2> SUFFICES ASSUME NEW p \in Procs, NEW v \in PageIDs
               PROVE  [s.pt[p][v] EXCEPT !.frame = NoFrame] \in Page /\ s.pt[p][v] \in Page
    BY DEF PageTables
  <2> QED BY EntryTypes DEF Page
<1>2. B \in TLBs BY FieldTypes DEF TLBs
<1>3. O \in [Frames -> Owner] BY FieldTypes DEF Owner, NoOwner
<1>4. H \in SUBSET (Breaches \cup {"fork", "alias"}) BY DEF State, Breaches
<1>5. Z \in SUBSET (PageIDs \cup HugeIDs \cup {NoID}) BY FieldTypes DEF State, Owner
<1>6. t = [s EXCEPT !.zip = Z, !.pt = T, !.tlb = B, !.owner = O, !.dirty = @ \ F, !.history = H]
  BY DEF EvictPages, CompressPage, State
<1>7. \A q \in Procs, w \in PageIDs :
        /\ T[q][w] = IF Holds(s, F, q, w) THEN [s.pt[q][w] EXCEPT !.frame = NoFrame]
                                          ELSE s.pt[q][w]
        /\ B[q][w] = IF Holds(s, F, q, w) THEN NoFrame ELSE s.tlb[q][w]
  OBVIOUS
<1>8. \A g \in Frames : O[g] = IF g \in F THEN NoOwner ELSE s.owner[g] OBVIOUS
<1>9. s.history \subseteq H /\ (H \subseteq {"fork", "alias"} => SoundEviction(s, F)) OBVIOUS
<1> HIDE DEF T, B, O, H, Z, t
<1>10. t \in State BY <1>1, <1>2, <1>3, <1>4, <1>5, <1>6 DEF State
<1>11. /\ t.pt = T /\ t.tlb = B /\ t.owner = O /\ t.history = H
       /\ t.live = s.live /\ t.sharers = s.sharers /\ t.copies = s.copies
  BY <1>6 DEF State
<1> QED BY <1>7, <1>8, <1>9, <1>10, <1>11 DEF t

\* An eviction that is not a breach leaves no entry naming an evicted frame
\* (evictPage of manager.go).
LEMMA EvictPagesGood ==
    ASSUME NEW s \in State, NEW F \in SUBSET Frames, Good(s),
           EvictPages(s, F).history \subseteq {"fork", "alias"}
    PROVE  /\ Good(EvictPages(s, F))
           /\ \A q \in Procs, w \in PageIDs : EvictPages(s, F).pt[q][w].frame \notin F
<1> DEFINE t == EvictPages(s, F)
<1>1. /\ \A q \in Procs, w \in PageIDs :
           /\ t.pt[q][w] = IF Holds(s, F, q, w)
                           THEN [s.pt[q][w] EXCEPT !.frame = NoFrame] ELSE s.pt[q][w]
           /\ t.tlb[q][w] = IF Holds(s, F, q, w) THEN NoFrame ELSE s.tlb[q][w]
      /\ \A g \in Frames : t.owner[g] = IF g \in F THEN NoOwner ELSE s.owner[g]
      /\ t.live = s.live /\ t.sharers = s.sharers
      /\ SoundEviction(s, F)
  BY EvictPagesEffect
<1>2. ASSUME NEW q \in Procs, NEW w \in PageIDs
      PROVE  /\ t.pt[q][w].id = s.pt[q][w].id
             /\ t.pt[q][w].shared = s.pt[q][w].shared
             /\ t.pt[q][w].frame = IF Holds(s, F, q, w) THEN NoFrame ELSE s.pt[q][w].frame
             /\ t.tlb[q][w] = IF Holds(s, F, q, w) THEN NoFrame ELSE s.tlb[q][w]
             /\ s.pt[q][w].frame \in Frames \cup {NoFrame}
  <2>1. s.pt[q][w] \in Page /\ s.pt[q][w].frame \in Frames \cup {NoFrame} BY EntryTypes
  <2>2. CASE Holds(s, F, q, w)
    <3>1. t.pt[q][w] = [s.pt[q][w] EXCEPT !.frame = NoFrame] BY <1>1, <2>2
    <3> QED BY <1>1, <2>1, <2>2, <3>1 DEF Page
  <2>3. CASE ~Holds(s, F, q, w) BY <1>1, <2>1, <2>3
  <2> QED BY <2>2, <2>3
<1>3. ASSUME NEW q \in Procs, NEW w \in PageIDs
      PROVE  /\ s.pt[q][w].frame \in F => Holds(s, F, q, w)
             /\ Holds(s, F, q, w) =>
                  \E f \in F : s.owner[f] = OwnedBy(q, w) /\ s.pt[q][w].frame \in {f, NoFrame}
  BY <1>1 DEF SoundEviction, Holds
<1>4. ASSUME NEW q \in Procs, NEW w \in PageIDs PROVE t.pt[q][w].frame \notin F
  BY <1>2, <1>3 DEF NoFrame, Frames
<1> HIDE DEF t
<1>5. InUse(t) BY <1>1, <1>2, <1>4 DEF Good, InUse
<1>6. Keyed(t)
  <2> SUFFICES ASSUME NEW q \in Procs, NEW w \in PageIDs, s.pt[q][w].id \notin {NoID, w}
               PROVE  /\ ~t.pt[q][w].shared
                      /\ t.pt[q][w].frame # NoFrame
                      /\ t.owner[t.pt[q][w].frame] = OwnedBy(q, s.pt[q][w].id)
    BY <1>2 DEF Keyed
  <2>1. /\ ~s.pt[q][w].shared /\ s.pt[q][w].frame # NoFrame
        /\ s.owner[s.pt[q][w].frame] = OwnedBy(q, s.pt[q][w].id)
    BY DEF Good, Keyed
  <2>2. ASSUME Holds(s, F, q, w) PROVE FALSE
    <3>1. OwnedBy(q, w) = OwnedBy(q, s.pt[q][w].id) BY <1>3, <2>1, <2>2
    <3> QED BY <3>1 DEF OwnedBy
  <2>3. /\ t.pt[q][w].frame = s.pt[q][w].frame /\ t.pt[q][w].shared = s.pt[q][w].shared
        /\ t.pt[q][w].frame \notin F /\ s.pt[q][w].frame \in Frames \cup {NoFrame}
    BY <1>2, <1>4, <2>2
  <2>4. t.owner[s.pt[q][w].frame] = s.owner[s.pt[q][w].frame] BY <1>1, <2>1, <2>3
  <2> QED BY <2>1, <2>3, <2>4
<1>7. SharedAlike(t) BY <1>1, <1>2 DEF Good, SharedAlike
<1>8. Coherent(t)
  <2> SUFFICES ASSUME NEW q \in Procs, NEW w \in PageIDs, t.tlb[q][w] # NoFrame
               PROVE  t.tlb[q][w] = t.pt[q][w].frame
    BY DEF Coherent
  <2> QED BY <1>2 DEF Good, Coherent
<1> QED BY <1>4, <1>5, <1>6, <1>7, <1>8 DEF Good, t

\* TLB.Insert adds one entry and may drop another.
LEMMA TLBInsertEffect ==
    ASSUME NEW s \in State, NEW p \in Procs, NEW v \in PageIDs, NEW f \in Frames,
           NEW t \in TLBInsert(s, p, v, f)
    PROVE  /\ t \in State
           /\ \A q \in Procs, w \in PageIDs :
                IF q = p /\ w = v THEN t.tlb[q][w] = f
                                  ELSE t.tlb[q][w] \in {NoFrame, s.tlb[q][w]}
           /\ t.live = s.live /\ t.owner = s.owner /\ t.pt = s.pt
           /\ t.sharers = s.sharers /\ t.copies = s.copies /\ t.history = s.history
<1>1. PICK K : t = SetTLB(TLBDrop(s, K), p, v, f) BY DEF TLBInsert
<1> DEFINE d == TLBDrop(s, K)
<1>2. /\ d \in State
      /\ \A q \in Procs, w \in PageIDs : d.tlb[q][w] \in {NoFrame, s.tlb[q][w]}
      /\ d.live = s.live /\ d.owner = s.owner /\ d.pt = s.pt
      /\ d.sharers = s.sharers /\ d.copies = s.copies /\ d.history = s.history
  BY TLBDropEffect
<1>3. t = SetTLB(d, p, v, f) BY <1>1
<1> HIDE DEF d
<1>4. \A q \in Procs, w \in PageIDs : t.tlb[q][w] = IF q = p /\ w = v THEN f ELSE d.tlb[q][w]
  BY <1>2, <1>3, SetTLBEffect
<1>5. /\ t \in State
      /\ t.live = s.live /\ t.owner = s.owner /\ t.pt = s.pt
      /\ t.sharers = s.sharers /\ t.copies = s.copies /\ t.history = s.history
  BY <1>2, <1>3, SetTLBEffect
<1> QED BY <1>2, <1>4, <1>5

\* Inserting what the page table says keeps the TLB coherent.
LEMMA TLBInsertGood ==
    ASSUME NEW s \in State, NEW p \in Procs, NEW v \in PageIDs, NEW f \in Frames,
           InUse(s), Keyed(s), SharedAlike(s),
           \A q \in Procs, w \in PageIDs :
             s.tlb[q][w] # NoFrame /\ <<q, w>> # <<p, v>> => s.tlb[q][w] = s.pt[q][w].frame,
           s.pt[p][v].frame = f,
           NEW t \in TLBInsert(s, p, v, f)
    PROVE  Good(t)
<1>1. /\ t.live = s.live /\ t.owner = s.owner /\ t.pt = s.pt /\ t.sharers = s.sharers
      /\ \A q \in Procs, w \in PageIDs :
           IF q = p /\ w = v THEN t.tlb[q][w] = f
                             ELSE t.tlb[q][w] \in {NoFrame, s.tlb[q][w]}
  BY TLBInsertEffect
<1>2. Coherent(t) BY <1>1 DEF Coherent
<1>3. InUse(t) /\ Keyed(t) /\ SharedAlike(t) BY <1>1, SameGood
<1> QED BY <1>2, <1>3 DEF Good

\* The numbers that copies and huge pages get, and those that callers access, are IDs.
LEMMA FreshIDs ==
    /\ \A n \in 0 .. MaxCopies : n < MaxCopies => CowBase + n + 1 \in CowIDs
    /\ \A i \in HugeIdx : HugeBase + i \in HugeIDs
    /\ NoFrame \notin Frames /\ NoID \notin PageIDs
    /\ 0 .. MaxVirtual \subseteq PageIDs
  BY BoundsAssumption, HugeAssumption, NumFramesAssumption
     DEF CowIDs, VPages, HugeIDs, PageIDs, NoFrame, Frames, NoID

\* The frame table hands out free frames only.
LEMMA AllocationIsFree ==
    ASSUME NEW s \in State, NEW p \in Procs
    PROVE  /\ AllocateFrame(s) \subseteq FreeFrames(s)
           /\ AllocateFrameForPage(s, p) \subseteq FreeFrames(s)
           /\ FreeFrames(s) \subseteq Frames
           /\ Evictable(s) \subseteq Frames
  BY DEF AllocateFrame, AllocateFrameForPage, First, FreeFrames, Evictable, UsedFrames

\* A frame that records a process is in use.
LEMMA OwnedByIsOwner ==
    ASSUME NEW p \in Procs, NEW id
    PROVE  OwnedBy(p, id) # NoOwner
  BY ProcsAssumption DEF OwnedBy, NoOwner

\* Giving a page a frame that no entry names keeps the mappings sound.
LEMMA AllocateGood ==
    ASSUME NEW s \in State, Good(s), NEW f \in Frames, NEW p \in Procs,
           NEW id \in PageIDs \cup HugeIDs,
           \A q \in Procs, w \in PageIDs : s.pt[q][w].frame # f
    PROVE  Good(Allocate(s, f, p, id))
<1> DEFINE t == Allocate(s, f, p, id)
<1>1. /\ \A g \in Frames : t.owner[g] = IF g = f THEN OwnedBy(p, id) ELSE s.owner[g]
      /\ t.live = s.live /\ t.pt = s.pt /\ t.tlb = s.tlb /\ t.sharers = s.sharers
  BY AllocateEffect
<1> HIDE DEF t
<1>2. ASSUME NEW q \in Procs, NEW w \in PageIDs, s.pt[q][w].frame # NoFrame
      PROVE  t.owner[t.pt[q][w].frame] = s.owner[s.pt[q][w].frame]
  BY <1>1, <1>2, EntryTypes
<1>3. InUse(t) BY <1>1, <1>2 DEF Good, InUse
<1>4. Keyed(t) BY <1>1, <1>2 DEF Good, Keyed
<1>5. SharedAlike(t) /\ Coherent(t) BY <1>1 DEF Good, SharedAlike, Coherent
<1> QED BY <1>3, <1>4, <1>5 DEF Good, t

\* A search for a victim may clean frames, it changes no mapping.
LEMMA AfterScanEffect ==
    ASSUME NEW s \in State, NEW c \in AfterScan(s)
    PROVE  /\ c \in State /\ c.pt = s.pt /\ c.owner = s.owner /\ c.tlb = s.tlb
           /\ c.live = s.live /\ c.sharers = s.sharers /\ c.copies = s.copies
           /\ c.history = s.history
<1>1. CASE c = s BY <1>1
<1>2. ASSUME NEW D \in SUBSET s.dirty, c = [s EXCEPT !.dirty = @ \ D]
      PROVE  /\ c \in State /\ c.pt = s.pt /\ c.owner = s.owner /\ c.tlb = s.tlb
             /\ c.live = s.live /\ c.sharers = s.sharers /\ c.copies = s.copies
             /\ c.history = s.history
  BY <1>2 DEF State
<1>3. c = s \/ \E D \in SUBSET s.dirty : c = [s EXCEPT !.dirty = @ \ D] BY DEF AfterScan
<1> QED BY <1>1, <1>2, <1>3

\* The entries after ObtainFrame are those before, but for some that an eviction
\* made not present.
Obtained(s, p, id, o) ==
    /\ o.frame \in Frames /\ o.st \in State
    /\ o.st.owner[o.frame] = OwnedBy(p, id)
    /\ \A q \in Procs, w \in PageIDs :
         /\ o.st.pt[q][w].frame \in {s.pt[q][w].frame, NoFrame}
         /\ o.st.pt[q][w].id = s.pt[q][w].id
         /\ o.st.pt[q][w].shared = s.pt[q][w].shared
    /\ o.st.live = s.live /\ o.st.sharers = s.sharers /\ o.st.copies = s.copies
    /\ s.history \subseteq o.st.history

\* It evicts pages if it must, and changes no entry otherwise.
LEMMA ObtainFrameEffect ==
    ASSUME NEW s \in State, NEW p \in Procs, NEW id \in PageIDs \cup HugeIDs,
           NEW free \in SUBSET FreeFrames(s), NEW o \in ObtainFrame(s, free, p, id)
    PROVE  Obtained(s, p, id, o)
<1>1. CASE free # {}
  <2>1. PICK f \in free : o = [frame |-> f, st |-> Allocate(s, f, p, id)]
    BY <1>1 DEF ObtainFrame
  <2>2. o.frame = f /\ o.st = Allocate(s, f, p, id) /\ f \in Frames
    BY <2>1 DEF FreeFrames
  <2>3. /\ o.st \in State /\ o.st.live = s.live /\ o.st.pt = s.pt /\ o.st.owner[f] = OwnedBy(p, id)
        /\ o.st.sharers = s.sharers /\ o.st.copies = s.copies /\ o.st.history = s.history
    BY <2>2, AllocateEffect
  <2> QED BY <2>2, <2>3 DEF Obtained
<1>2. CASE free = {}
  <2>1. PICK c \in AfterScan(s) :
          \E f \in Evictable(c) :
            o = [frame |-> f, st |-> Allocate(EvictPages(c, {f}), f, p, id)]
    BY <1>2 DEF ObtainFrame
  <2>2. PICK f \in Evictable(c) :
          o = [frame |-> f, st |-> Allocate(EvictPages(c, {f}), f, p, id)]
    BY <2>1
  <2>3. /\ c \in State /\ c.pt = s.pt /\ c.live = s.live /\ c.sharers = s.sharers
        /\ c.copies = s.copies /\ c.history = s.history
    BY AfterScanEffect
  <2> DEFINE e == EvictPages(c, {f})
  <2>4. f \in Frames /\ {f} \in SUBSET Frames BY AllocationIsFree, <2>3
  <2>5. /\ e \in State
        /\ \A q \in Procs, w \in PageIDs :
             e.pt[q][w] \in {c.pt[q][w], [c.pt[q][w] EXCEPT !.frame = NoFrame]}
        /\ e.live = c.live /\ e.sharers = c.sharers /\ e.copies = c.copies
        /\ c.history \subseteq e.history
    BY <2>3, <2>4, EvictPagesEffect
  <2>6. o.frame = f /\ o.st = Allocate(e, f, p, id) BY <2>2
  <2> HIDE DEF e
  <2>7. /\ o.st \in State
        /\ o.st.live = e.live /\ o.st.pt = e.pt /\ o.st.owner[f] = OwnedBy(p, id)
        /\ o.st.sharers = e.sharers /\ o.st.copies = e.copies /\ o.st.history = e.history
    BY <2>4, <2>5, <2>6, AllocateEffect
  <2>8. ASSUME NEW q \in Procs, NEW w \in PageIDs
        PROVE  /\ e.pt[q][w].frame \in {c.pt[q][w].frame, NoFrame}
               /\ e.pt[q][w].id = c.pt[q][w].id
               /\ e.pt[q][w].shared = c.pt[q][w].shared
    <3>1. c.pt[q][w] \in Page BY <2>3, EntryTypes
    <3> QED BY <2>5, <3>1 DEF Page
  <2>9. ASSUME NEW q \in Procs, NEW w \in PageIDs
        PROVE  /\ o.st.pt[q][w].frame \in {s.pt[q][w].frame, NoFrame}
               /\ o.st.pt[q][w].id = s.pt[q][w].id
               /\ o.st.pt[q][w].shared = s.pt[q][w].shared
    BY <2>3, <2>7, <2>8
  <2>10. /\ o.frame \in Frames /\ o.st \in State /\ o.st.owner[o.frame] = OwnedBy(p, id)
         /\ o.st.live = s.live /\ o.st.sharers = s.sharers /\ o.st.copies = s.copies
         /\ s.history \subseteq o.st.history
    BY <2>3, <2>4, <2>5, <2>6, <2>7
  <2> QED BY <2>9, <2>10 DEF Obtained
<1> QED BY <1>1, <1>2

\* A frame obtained for a page is mapped by no entry.
LEMMA ObtainFrameGood ==
    ASSUME NEW s \in State, Good(s), NEW p \in Procs, NEW id \in PageIDs \cup HugeIDs,
           NEW free \in SUBSET FreeFrames(s), NEW o \in ObtainFrame(s, free, p, id),
           o.st.history \subseteq {"fork", "alias"}
    PROVE  /\ Good(o.st)
           /\ \A q \in Procs, w \in PageIDs : o.st.pt[q][w].frame # o.frame
<1>1. CASE free # {}
  <2>1. PICK f \in free : o = [frame |-> f, st |-> Allocate(s, f, p, id)]
    BY <1>1 DEF ObtainFrame
  <2>2. o.frame = f /\ o.st = Allocate(s, f, p, id) /\ f \in Frames
    BY <2>1 DEF FreeFrames
  <2>3. \A q \in Procs, w \in PageIDs : s.pt[q][w].frame # f
    BY <2>1, EntryTypes, FreshIDs DEF Good, InUse, FreeFrames
  <2> QED BY <2>2, <2>3, AllocateEffect, AllocateGood
<1>2. CASE free = {}
  <2>1. PICK c \in AfterScan(s) :
          \E f \in Evictable(c) :
            o = [frame |-> f, st |-> Allocate(EvictPages(c, {f}), f, p, id)]
    BY <1>2 DEF ObtainFrame
  <2>2. PICK f \in Evictable(c) :
          o = [frame |-> f, st |-> Allocate(EvictPages(c, {f}), f, p, id)]
    BY <2>1
  <2>30. /\ c \in State /\ c.pt = s.pt /\ c.live = s.live /\ c.owner = s.owner /\ c.tlb = s.tlb
         /\ c.sharers = s.sharers
    BY AfterScanEffect
  <2>3. c \in State /\ Good(c) BY <2>30, SameGood
  <2> DEFINE e == EvictPages(c, {f})
  <2>4. f \in Frames /\ {f} \in SUBSET Frames BY AllocationIsFree, <2>3
  <2>5. e \in State BY <2>3, <2>4, EvictPagesEffect
  <2>6. o.frame = f /\ o.st = Allocate(e, f, p, id) BY <2>2
  <2>7. o.st.pt = e.pt /\ o.st.history = e.history
    <3> HIDE DEF e
    <3> QED BY <2>4, <2>5, <2>6, AllocateEffect
  <2>8. Good(e) /\ \A q \in Procs, w \in PageIDs : e.pt[q][w].frame \notin {f}
    BY <2>3, <2>4, <2>7, EvictPagesGood
  <2> HIDE DEF e
  <2> QED BY <2>4, <2>5, <2>6, <2>7, <2>8, AllocateGood
<1> QED BY <1>1, <1>2

\* MapPage makes one page present in the given frame.
LEMMA MapPageEffect ==
    ASSUME NEW s \in State, NEW p \in Procs, NEW v \in PageIDs, NEW f \in Frames,
           s.pt[p][v].id # NoID, NEW t \in MapPage(s, p, v, f)
    PROVE  /\ t \in State
           /\ t.pt[p][v].id = s.pt[p][v].id
           /\ t.pt[p][v].frame = f
           /\ t.live = s.live /\ t.owner = s.owner
           /\ t.sharers = s.sharers /\ t.copies = s.copies /\ t.history = s.history
<1> DEFINE e == [s.pt[p][v] EXCEPT !.frame = f]
           m == SetPage(s, p, v, e)
           id == s.pt[p][v].id
<1>1. /\ e \in Page /\ e.id = id /\ e.shared = s.pt[p][v].shared /\ e.frame = f
      /\ id \in PageIDs
  BY EntryTypes DEF Page
<1>2. t \in TLBInsert(m, p, id, f) BY DEF MapPage
<1> HIDE DEF e
<1>3. /\ m \in State
      /\ \A q \in Procs, w \in PageIDs : m.pt[q][w] = IF q = p /\ w = v THEN e ELSE s.pt[q][w]
      /\ m.live = s.live /\ m.owner = s.owner
      /\ m.sharers = s.sharers /\ m.copies = s.copies /\ m.history = s.history
  BY <1>1, SetPageEffect
<1> HIDE DEF m, id
<1>4. /\ t \in State /\ t.live = m.live /\ t.owner = m.owner /\ t.pt = m.pt
      /\ t.sharers = m.sharers /\ t.copies = m.copies /\ t.history = m.history
  BY <1>1, <1>2, <1>3, TLBInsertEffect
<1> QED BY <1>1, <1>3, <1>4 DEF e, id

\* Mapping a page to a frame in use that nobody names keeps the mappings sound.
LEMMA MapPageGood ==
    ASSUME NEW s \in State, Good(s), NEW p \in Procs, NEW v \in PageIDs, NEW f \in Frames,
           p \in s.live, s.pt[p][v].id = v,
           s.owner[f] # NoOwner, \A q \in Procs, w \in PageIDs : s.pt[q][w].frame # f,
           NEW t \in MapPage(s, p, v, f)
    PROVE  Good(t)
<1> DEFINE e == [s.pt[p][v] EXCEPT !.frame = f]
           m == SetPage(s, p, v, e)
<1>1. e \in Page /\ e.id = v /\ e.frame = f
  BY EntryTypes DEF Page
<1>2. t \in TLBInsert(m, p, v, f) BY DEF MapPage
<1> HIDE DEF e
<1>3. /\ m \in State
      /\ \A q \in Procs, w \in PageIDs : m.pt[q][w] = IF q = p /\ w = v THEN e ELSE s.pt[q][w]
      /\ m.live = s.live /\ m.owner = s.owner /\ m.tlb = s.tlb /\ m.sharers = s.sharers
  BY <1>1, SetPageEffect
<1> HIDE DEF m
<1>4. InUse(m) BY <1>1, <1>3, FreshIDs DEF Good, InUse
<1>5. Keyed(m) BY <1>1, <1>3 DEF Good, Keyed
<1>6. SharedAlike(m) BY <1>1, <1>3 DEF Good, SharedAlike
<1>7. \A q \in Procs, w \in PageIDs :
        m.tlb[q][w] # NoFrame /\ <<q, w>> # <<p, v>> => m.tlb[q][w] = m.pt[q][w].frame
  BY <1>3 DEF Good, Coherent
<1> QED BY <1>1, <1>2, <1>3, <1>4, <1>5, <1>6, <1>7, TLBInsertGood

\* handlePageFault leaves the page present, and soundly so unless it breached.
LEMMA LoadPageEffect ==
    ASSUME NEW s \in State, NEW p \in Procs, NEW v \in PageIDs,
           s.pt[p][v].id # NoID, NEW t \in LoadPage(s, p, v)
    PROVE  /\ t \in State /\ t.pt[p][v].id # NoID
           /\ t.pt[p][v].id = s.pt[p][v].id
           /\ t.pt[p][v].frame \in Frames
           /\ t.live = s.live /\ t.sharers = s.sharers /\ t.copies = s.copies
           /\ s.history \subseteq t.history
           /\ Good(s) /\ p \in s.live /\ s.pt[p][v].id = v /\ t.history \subseteq {"fork", "alias"}
                => Good(t)
<1> DEFINE id == s.pt[p][v].id
           d == IF "compression" \in s.on THEN [s EXCEPT !.zip = @ \ {id}] ELSE s
<1>1. /\ d \in State /\ d.pt = s.pt /\ d.owner = s.owner /\ d.tlb = s.tlb
      /\ d.live = s.live /\ d.sharers = s.sharers /\ d.copies = s.copies
      /\ d.history = s.history
  BY DEF State
<1>2. id \in PageIDs BY EntryTypes
<1>3. PICK o \in ObtainFrame(d, AllocateFrameForPage(d, p), p, id) :
        t \in MapPage(o.st, p, v, o.frame)
  BY DEF LoadPage, DecompressPage
<1> HIDE DEF d
<1>4. AllocateFrameForPage(d, p) \in SUBSET FreeFrames(d) BY <1>1, AllocationIsFree
<1>50. Obtained(d, p, id, o)
  <2> HIDE DEF id
  <2> QED BY <1>1, <1>2, <1>3, <1>4, ObtainFrameEffect
<1>5. /\ o.frame \in Frames /\ o.st \in State
      /\ o.st.owner[o.frame] = OwnedBy(p, id)
      /\ \A q \in Procs, w \in PageIDs : o.st.pt[q][w].id = d.pt[q][w].id
      /\ o.st.live = d.live /\ o.st.sharers = d.sharers /\ o.st.copies = d.copies
      /\ d.history \subseteq o.st.history
  BY <1>50 DEF Obtained
<1>6. o.st.pt[p][v].id = id BY <1>1, <1>5
<1>7. /\ t \in State /\ t.pt[p][v].id = id /\ t.pt[p][v].frame = o.frame
      /\ t.live = o.st.live /\ t.sharers = o.st.sharers /\ t.copies = o.st.copies
      /\ t.history = o.st.history
  <2> DEFINE x == o.st
             f == o.frame
  <2>1. x \in State /\ f \in Frames /\ x.pt[p][v].id # NoID /\ t \in MapPage(x, p, v, f)
    BY <1>3, <1>5, <1>6
  <2>2. x.pt[p][v].id = id BY <1>6
  <2> HIDE DEF x, f, id
  <2>3. /\ t \in State /\ t.pt[p][v].id = x.pt[p][v].id /\ t.pt[p][v].frame = f
        /\ t.live = x.live /\ t.sharers = x.sharers /\ t.copies = x.copies
        /\ t.history = x.history
    BY <2>1, MapPageEffect
  <2> QED BY <2>2, <2>3 DEF x, f
<1>8. ASSUME Good(s), p \in s.live, id = v, t.history \subseteq {"fork", "alias"}
      PROVE  Good(t)
  <2>1. Good(d) BY <1>1, <1>8, SameGood
  <2>2. Good(o.st) /\ \A q \in Procs, w \in PageIDs : o.st.pt[q][w].frame # o.frame
    BY <1>1, <1>2, <1>3, <1>4, <1>7, <1>8, <2>1, ObtainFrameGood
  <2>3. o.st.owner[o.frame] # NoOwner BY <1>5, OwnedByIsOwner
  <2> QED BY <1>1, <1>3, <1>5, <1>6, <1>8, <2>2, <2>3, MapPageGood
<1> QED BY <1>1, <1>2, <1>5, <1>7, <1>8, FreshIDs

\* A set with two different members counts more than one: the way HandleWrite
\* recognises sharing.
LEMMA TwoMembers ==
    ASSUME NEW S \in SUBSET Procs, NEW a \in S, NEW b \in S, a # b
    PROVE  Cardinality(S) > 1
<1>1. IsFiniteSet(S) BY ProcsAssumption, FS_Subset
<1>2. Cardinality(S) \in Nat BY <1>1, FS_CardinalityType
<1>3. Cardinality(S) # 0 BY <1>1, FS_EmptySet
<1>4. Cardinality(S) # 1 BY <1>1, FS_Singleton
<1> QED BY <1>2, <1>3, <1>4

\* HandleWrite without a copy unmarks the page and drops a last registration.
Taken(s, p, v, t) ==
    /\ t \in State
    /\ \A q \in Procs, w \in PageIDs :
         t.pt[q][w] = IF q = p /\ w = v THEN [s.pt[p][v] EXCEPT !.shared = FALSE]
                                        ELSE s.pt[q][w]
    /\ \A w \in PageIDs :
         t.sharers[w] = IF w = s.pt[p][v].id /\ Cardinality(s.sharers[w]) <= 1
                        THEN s.sharers[w] \ {p} ELSE s.sharers[w]
    /\ t.live = s.live /\ t.owner = s.owner /\ t.tlb = s.tlb
    /\ t.copies = s.copies /\ t.history = s.history

\* Which is what TakeOwnership does.
LEMMA TakeOwnershipEffect ==
    ASSUME NEW s \in State, NEW p \in Procs, NEW v \in PageIDs, s.pt[p][v].id # NoID
    PROVE  Taken(s, p, v, TakeOwnership(s, p, v))
<1> DEFINE id == s.pt[p][v].id
           last == IF Cardinality(s.sharers[id]) <= 1 THEN {p} ELSE {}
           S == [s.sharers EXCEPT ![id] = @ \ last]
           m == [s EXCEPT !.sharers = S]
           e == [s.pt[p][v] EXCEPT !.shared = FALSE]
           t == TakeOwnership(s, p, v)
<1>0. s.pt[p][v] \in Page /\ id \in PageIDs BY EntryTypes
<1>1. e \in Page BY <1>0 DEF Page
<1>2. S \in [PageIDs -> SUBSET Procs] BY FieldTypes
<1>3. \A w \in PageIDs : S[w] = IF w = id /\ Cardinality(s.sharers[w]) <= 1
                                THEN s.sharers[w] \ {p} ELSE s.sharers[w]
  BY FieldTypes, <1>0
<1>4. t = SetPage(m, p, v, e) BY DEF TakeOwnership, State
<1> HIDE DEF S, e, t, last
<1>5. /\ m \in State /\ m.pt = s.pt /\ m.live = s.live /\ m.owner = s.owner /\ m.tlb = s.tlb
      /\ m.sharers = S /\ m.copies = s.copies /\ m.history = s.history
  BY <1>2 DEF State
<1> HIDE DEF m
<1>6. /\ t \in State
      /\ \A q \in Procs, w \in PageIDs : t.pt[q][w] = IF q = p /\ w = v THEN e ELSE m.pt[q][w]
      /\ t.live = m.live /\ t.owner = m.owner /\ t.tlb = m.tlb
      /\ t.sharers = m.sharers /\ t.copies = m.copies /\ t.history = m.history
  BY <1>1, <1>4, <1>5, SetPageEffect
<1>7. \A q \in Procs, w \in PageIDs : t.pt[q][w] = IF q = p /\ w = v THEN e ELSE s.pt[q][w]
  BY <1>5, <1>6
<1>8. \A w \in PageIDs : t.sharers[w] = IF w = id /\ Cardinality(s.sharers[w]) <= 1
                                        THEN s.sharers[w] \ {p} ELSE s.sharers[w]
  BY <1>3, <1>5, <1>6
<1>9. /\ t \in State /\ t.live = s.live /\ t.owner = s.owner /\ t.tlb = s.tlb
      /\ t.copies = s.copies /\ t.history = s.history
  BY <1>5, <1>6
<1>10. Taken(s, p, v, t) BY <1>7, <1>8, <1>9, Zenon DEF Taken, e
<1> QED BY <1>10 DEF t

\* If HandleWrite does not copy, no other entry names the frame.
LEMMA TakeOwnershipGood ==
    ASSUME NEW s \in State, Good(s), NEW p \in Procs, NEW v \in PageIDs,
           s.pt[p][v].id = v, ~NeedsCopy(s, p, v)
    PROVE  Good(TakeOwnership(s, p, v))
<1> DEFINE t == TakeOwnership(s, p, v)
<1>1. /\ \A q \in Procs, w \in PageIDs :
           t.pt[q][w] = IF q = p /\ w = v THEN [s.pt[p][v] EXCEPT !.shared = FALSE]
                                          ELSE s.pt[q][w]
      /\ \A w \in PageIDs :
           t.sharers[w] = IF w = v /\ Cardinality(s.sharers[w]) <= 1
                          THEN s.sharers[w] \ {p} ELSE s.sharers[w]
      /\ t.live = s.live /\ t.owner = s.owner /\ t.tlb = s.tlb
  <2>1. s.pt[p][v].id # NoID BY FreshIDs
  <2>0. Taken(s, p, v, t) BY <2>1, TakeOwnershipEffect
  <2> HIDE DEF t
  <2>2. \A w \in PageIDs :
           t.sharers[w] = IF w = s.pt[p][v].id /\ Cardinality(s.sharers[w]) <= 1
                          THEN s.sharers[w] \ {p} ELSE s.sharers[w]
    BY <2>0 DEF Taken
  <2>3. /\ \A q \in Procs, w \in PageIDs :
             t.pt[q][w] = IF q = p /\ w = v THEN [s.pt[p][v] EXCEPT !.shared = FALSE]
                                            ELSE s.pt[q][w]
        /\ t.live = s.live /\ t.owner = s.owner /\ t.tlb = s.tlb
    BY <2>0 DEF Taken
  <2> QED BY <2>2, <2>3
<1>2. ASSUME NEW q \in Procs, NEW w \in PageIDs
      PROVE  /\ t.pt[q][w].id = s.pt[q][w].id
             /\ t.pt[q][w].frame = s.pt[q][w].frame
             /\ t.pt[q][w].shared => s.pt[q][w].shared
             /\ s.pt[q][w].shared /\ <<q, w>> # <<p, v>> => t.pt[q][w].shared
  <2>1. s.pt[q][w] \in Page BY EntryTypes
  <2>2. CASE q = p /\ w = v BY <1>1, <2>1, <2>2 DEF Page
  <2>3. CASE ~(q = p /\ w = v) BY <1>1, <2>3
  <2> QED BY <2>2, <2>3
<1> HIDE DEF t
\* The writer is alone in its frame: another user would be a second reference.
<1>3. ASSUME NEW q \in Procs, NEW w \in PageIDs, <<q, w>> # <<p, v>>,
             s.pt[q][w].frame = s.pt[p][v].frame, s.pt[p][v].frame # NoFrame
      PROVE  FALSE
  <2>1. q # p /\ p \in s.sharers[v] /\ q \in s.sharers[v]
    BY <1>3 DEF Good, SharedAlike
  <2>2. Cardinality(s.sharers[v]) > 1 BY <2>1, FieldTypes, TwoMembers
  <2> QED BY <2>1, <2>2 DEF NeedsCopy
<1>4. InUse(t) BY <1>1, <1>2 DEF Good, InUse
<1>5. Keyed(t) BY <1>1, <1>2 DEF Good, Keyed
<1>6. SharedAlike(t)
  <2> SUFFICES ASSUME NEW q \in Procs, NEW r \in Procs, NEW w \in PageIDs, NEW x \in PageIDs,
                      <<q, w>> # <<r, x>>, t.pt[q][w].frame = t.pt[r][x].frame,
                      t.pt[q][w].frame # NoFrame
               PROVE  /\ w = x
                      /\ t.pt[q][w].shared /\ t.pt[r][x].shared
                      /\ q \in t.sharers[w] /\ r \in t.sharers[w]
    BY DEF SharedAlike
  <2>1. s.pt[q][w].frame = s.pt[r][x].frame /\ s.pt[q][w].frame # NoFrame BY <1>2
  <2>2. /\ w = x /\ s.pt[q][w].shared /\ s.pt[r][x].shared
        /\ q \in s.sharers[w] /\ r \in s.sharers[w]
    BY <2>1 DEF Good, SharedAlike
  <2>3. <<q, w>> # <<p, v>> /\ <<r, x>> # <<p, v>> BY <1>3, <2>1
  <2>4. t.pt[q][w].shared /\ t.pt[r][x].shared BY <1>2, <2>2, <2>3
  <2>5. q \in t.sharers[w] /\ r \in t.sharers[w] BY <1>1, <2>2, <2>3
  <2> QED BY <2>2, <2>4, <2>5
<1>7. Coherent(t) BY <1>1, <1>2 DEF Good, Coherent
<1> QED BY <1>4, <1>5, <1>6, <1>7 DEF Good, t

\* Deregister touches the registry only.
LEMMA DeregisterEffect ==
    ASSUME NEW s \in State, NEW p \in Procs, NEW id \in PageIDs, s.copies < MaxCopies
    PROVE  LET t == Deregister(s, p, id)
           IN  /\ t \in State
               /\ \A w \in PageIDs : s.sharers[w] \ {p} \subseteq t.sharers[w]
               /\ \A w \in PageIDs : w # id => t.sharers[w] = s.sharers[w]
               /\ t.live = s.live /\ t.owner = s.owner /\ t.pt = s.pt /\ t.tlb = s.tlb
               /\ t.history = s.history
<1> DEFINE S == [s.sharers EXCEPT ![id] = @ \ {p}]
           t == Deregister(s, p, id)
<1>1. S \in [PageIDs -> SUBSET Procs] BY FieldTypes
<1>2. \A w \in PageIDs : s.sharers[w] \ {p} \subseteq S[w] BY FieldTypes
<1>3. \A w \in PageIDs : w # id => S[w] = s.sharers[w] BY FieldTypes
<1>4. s.copies + 1 \in 0 .. MaxCopies BY FieldTypes, BoundsAssumption
<1>5. t = [s EXCEPT !.sharers = S, !.copies = @ + 1] BY DEF Deregister, State
<1> HIDE DEF S, t
<1>6. /\ t \in State /\ t.sharers = S
      /\ t.live = s.live /\ t.owner = s.owner /\ t.pt = s.pt /\ t.tlb = s.tlb
      /\ t.history = s.history
  BY <1>1, <1>4, <1>5 DEF State
<1> QED BY <1>2, <1>3, <1>6 DEF t

\* A copy of a page that is stored under its own ID keeps the mappings sound: the
\* writer moves to a frame nobody maps, the other sharers stay registered.
LEMMA InstallGood ==
    ASSUME NEW s \in State, Good(s), NEW p \in Procs, NEW v \in PageIDs, p \in s.live,
           NEW f \in Frames, NEW id \in PageIDs, s.owner[f] = OwnedBy(p, id),
           \A q \in Procs, w \in PageIDs : s.pt[q][w].frame # f,
           NEW t \in State,
           t.pt[p][v].id = id, t.pt[p][v].frame = f, ~t.pt[p][v].shared,
           \A q \in Procs, w \in PageIDs : <<q, w>> # <<p, v>> => t.pt[q][w] = s.pt[q][w],
           \A w \in PageIDs : s.sharers[w] \ {p} \subseteq t.sharers[w],
           \A w \in PageIDs : w # v => t.sharers[w] = s.sharers[w],
           t.live = s.live, t.owner = s.owner, t.tlb = s.tlb
    PROVE  InUse(t) /\ Keyed(t) /\ SharedAlike(t)
<1>2. InUse(t) BY OwnedByIsOwner, FreshIDs DEF Good, InUse
<1>3. Keyed(t) BY FreshIDs DEF Good, Keyed
<1>4. SharedAlike(t)
  <2> SUFFICES ASSUME NEW q \in Procs, NEW r \in Procs, NEW w \in PageIDs, NEW x \in PageIDs,
                      <<q, w>> # <<r, x>>, t.pt[q][w].frame = t.pt[r][x].frame,
                      t.pt[q][w].frame # NoFrame
               PROVE  /\ w = x
                      /\ t.pt[q][w].shared /\ t.pt[r][x].shared
                      /\ q \in t.sharers[w] /\ r \in t.sharers[w]
    BY DEF SharedAlike
  <2>1. <<q, w>> # <<p, v>> /\ <<r, x>> # <<p, v>> OBVIOUS
  <2>2. t.pt[q][w] = s.pt[q][w] /\ t.pt[r][x] = s.pt[r][x] BY <2>1
  <2>3. /\ w = x /\ s.pt[q][w].shared /\ s.pt[r][x].shared
        /\ q \in s.sharers[w] /\ r \in s.sharers[w]
    BY <2>2 DEF Good, SharedAlike
  <2>4. q \in t.sharers[w] /\ r \in t.sharers[w] BY <2>1, <2>3
  <2> QED BY <2>2, <2>3, <2>4
<1> QED BY <1>2, <1>3, <1>4

\* A copy-on-write fault keeps the mappings sound unless it breached.
LEMMA CopyPageEffect ==
    ASSUME NEW s \in State, NEW p \in Procs, NEW v \in PageIDs,
           s.pt[p][v].id # NoID, s.copies < MaxCopies, NEW t \in CopyPage(s, p, v)
    PROVE  /\ t \in State /\ t.live = s.live /\ s.history \subseteq t.history
           /\ Good(s) /\ p \in s.live /\ s.pt[p][v].id = v /\ t.history \subseteq {"fork", "alias"}
                => Good(t)
<1> DEFINE id == s.pt[p][v].id
           new == CowBase + s.copies + 1
<1>1. id \in PageIDs /\ new \in PageIDs
  BY EntryTypes, FieldTypes, FreshIDs DEF PageIDs
<1>2. PICK o \in ObtainFrame(s, AllocateFrame(s), p, new) :
        t \in TLBInsert(TLBDrop(Deregister(SetPage(o.st, p, id,
                 [id |-> new, frame |-> o.frame, shared |-> FALSE]), p, id), {<<p, id>>}),
               p, id, o.frame)
  BY DEF CopyPage
<1> DEFINE x == o.st
           f == o.frame
           e == [id |-> new, frame |-> f, shared |-> FALSE]
           m == SetPage(x, p, id, e)
           n == Deregister(m, p, id)
           K == {<<p, id>>}
           d == TLBDrop(n, K)
<1>3. AllocateFrame(s) \in SUBSET FreeFrames(s) BY AllocationIsFree
<1> HIDE DEF new, id
<1>40. Obtained(s, p, new, o) BY <1>1, <1>2, <1>3, ObtainFrameEffect
<1>4. /\ f \in Frames /\ x \in State /\ x.owner[f] = OwnedBy(p, new)
      /\ x.live = s.live /\ x.copies = s.copies /\ s.history \subseteq x.history
  BY <1>40 DEF Obtained
<1>5. t \in TLBInsert(d, p, id, f) BY <1>2
<1>6. e \in Page BY <1>1, <1>4 DEF Page
<1> HIDE DEF x, f, e
<1>7. /\ m \in State
      /\ \A q \in Procs, w \in PageIDs : m.pt[q][w] = IF q = p /\ w = id THEN e ELSE x.pt[q][w]
      /\ m.live = x.live /\ m.owner = x.owner /\ m.tlb = x.tlb
      /\ m.sharers = x.sharers /\ m.copies = x.copies /\ m.history = x.history
  BY <1>1, <1>4, <1>6, SetPageEffect
<1> HIDE DEF m
<1>8. /\ n \in State
      /\ \A w \in PageIDs : m.sharers[w] \ {p} \subseteq n.sharers[w]
      /\ \A w \in PageIDs : w # id => n.sharers[w] = m.sharers[w]
      /\ n.live = m.live /\ n.owner = m.owner /\ n.pt = m.pt /\ n.tlb = m.tlb
      /\ n.history = m.history
  BY <1>1, <1>4, <1>7, DeregisterEffect
<1> HIDE DEF n, K
<1>9. /\ d \in State
      /\ \A q \in Procs, w \in PageIDs : d.tlb[q][w] \in {NoFrame, n.tlb[q][w]}
      /\ d.live = n.live /\ d.owner = n.owner /\ d.pt = n.pt
      /\ d.sharers = n.sharers /\ d.history = n.history
  BY <1>8, TLBDropEffect
<1> HIDE DEF d
<1>10. t \in State /\ t.live = d.live /\ t.history = d.history
  BY <1>1, <1>4, <1>5, <1>9, TLBInsertEffect
<1>11. ASSUME Good(s), p \in s.live, s.pt[p][v].id = v, t.history \subseteq {"fork", "alias"}
       PROVE  Good(t)
  <2>0. id = v /\ o.st.history \subseteq {"fork", "alias"} BY <1>7, <1>8, <1>9, <1>10, <1>11 DEF id, x
  <2>1. Good(x) /\ \A q \in Procs, w \in PageIDs : x.pt[q][w].frame # f
    BY <1>1, <1>2, <1>3, <1>11, <2>0, ObtainFrameGood DEF x, f
  <2>2. e.id = new /\ e.frame = f /\ ~e.shared BY DEF e
  <2>3. p \in x.live BY <1>4, <1>11
  <2>4. InUse(n) /\ Keyed(n) /\ SharedAlike(n)
    <3>1. /\ n \in State
          /\ n.pt[p][v].id = new /\ n.pt[p][v].frame = f /\ ~n.pt[p][v].shared
          /\ \A q \in Procs, w \in PageIDs : <<q, w>> # <<p, v>> => n.pt[q][w] = x.pt[q][w]
          /\ \A w \in PageIDs : x.sharers[w] \ {p} \subseteq n.sharers[w]
          /\ \A w \in PageIDs : w # v => n.sharers[w] = x.sharers[w]
          /\ n.live = x.live /\ n.owner = x.owner /\ n.tlb = x.tlb
      BY <1>7, <1>8, <2>0, <2>2
    <3> QED BY <1>1, <1>4, <2>1, <2>3, <3>1, InstallGood
  <2>5. InUse(d) /\ Keyed(d) /\ SharedAlike(d)
    BY <1>9, <2>4, SameGood
  <2>6. d.pt[p][v].frame = f BY <1>7, <1>8, <1>9, <2>0, <2>2
  <2>7. \A q \in Procs, w \in PageIDs :
          d.tlb[q][w] # NoFrame /\ <<q, w>> # <<p, v>> => d.tlb[q][w] = d.pt[q][w].frame
    BY <1>7, <1>8, <1>9, <2>0, <2>1 DEF Good, Coherent
  <2> QED BY <1>4, <1>5, <1>9, <2>0, <2>5, <2>6, <2>7, TLBInsertGood
<1> QED BY <1>4, <1>7, <1>8, <1>9, <1>10, <1>11

\* handleCoW keeps the mappings sound, whether it copies or takes ownership.
LEMMA HandleCoWEffect ==
    ASSUME NEW s \in State, NEW p \in Procs, NEW v \in PageIDs,
           s.pt[p][v].id # NoID, NEW t \in HandleCoW(s, p, v)
    PROVE  /\ t \in State /\ t.live = s.live /\ s.history \subseteq t.history
           /\ Good(s) /\ p \in s.live /\ s.pt[p][v].id = v /\ t.history \subseteq {"fork", "alias"}
                => Good(t)
<1>1. CASE ~NeedsCopy(s, p, s.pt[p][v].id)
  <2> DEFINE u == TakeOwnership(s, p, v)
  <2>1. t = u BY <1>1 DEF HandleCoW
  <2>3. Taken(s, p, v, u) BY TakeOwnershipEffect
  <2>2. u \in State /\ u.live = s.live /\ u.history = s.history
    BY <2>3 DEF Taken
  <2> QED BY <1>1, <2>1, <2>2, TakeOwnershipGood
<1>2. CASE NeedsCopy(s, p, s.pt[p][v].id)
  <2>1. s.copies < MaxCopies /\ t \in CopyPage(s, p, v) BY <1>2 DEF HandleCoW
  <2> QED BY <2>1, CopyPageEffect
<1> QED BY <1>1, <1>2

\* A failed copy leaves the sharers short of a process that still maps the frame:
\* it is one of the breaches.
LEMMA HandleCoWFailsEffect ==
    ASSUME NEW s \in State, NEW p \in Procs, NEW v \in PageIDs,
           s.pt[p][v].id # NoID, NEW t \in HandleCoWFails(s, p, v)
    PROVE  t \in State /\ ~(t.history \subseteq {"fork", "alias"})
<1> DEFINE id == s.pt[p][v].id
           d == Deregister(s, p, id)
<1>1. /\ s.copies < MaxCopies
      /\ t = [d EXCEPT !.history = @ \cup {"copyFailed"}]
  BY DEF HandleCoWFails
<1>2. id \in PageIDs BY EntryTypes
<1> HIDE DEF id
<1>3. d \in State BY <1>1, <1>2, DeregisterEffect
<1> HIDE DEF d
<1> QED BY <1>1, <1>3 DEF State, Breaches

\* Trimming the resident set (enforcePFFResident) is a sequence of evictions.
LEMMA EnforcePFFResidentEffect ==
    ASSUME NEW s \in State, NEW t \in EnforcePFFResident(s)
    PROVE  /\ t \in State /\ t.live = s.live /\ s.history \subseteq t.history
           /\ Good(s) /\ t.history \subseteq {"fork", "alias"} => Good(t)
<1>1. CASE t = s BY <1>1
<1>2. ASSUME NEW F \in SUBSET Evictable(s), t = EvictPages(s, F)
      PROVE  /\ t \in State /\ t.live = s.live /\ s.history \subseteq t.history
             /\ Good(s) /\ t.history \subseteq {"fork", "alias"} => Good(t)
  <2> DEFINE e == EvictPages(s, F)
  <2>1. F \in SUBSET Frames BY AllocationIsFree, ProcsAssumption DEF Evictable, UsedFrames
  <2>2. e \in State /\ e.live = s.live /\ s.history \subseteq e.history
    BY <2>1, EvictPagesEffect
  <2>3. Good(s) /\ e.history \subseteq {"fork", "alias"} => Good(e)
    BY <2>1, EvictPagesGood
  <2> QED BY <1>2, <2>2, <2>3
<1>3. t = s \/ \E F \in SUBSET Evictable(s) : t = EvictPages(s, F)
  BY DEF EnforcePFFResident
<1> QED BY <1>1, <1>2, <1>3

\* A page-table entry is created not present.
LEMMA GetOrCreatePageEffect ==
    ASSUME NEW s \in State, NEW p \in Procs, NEW v \in PageIDs
    PROVE  LET t == GetOrCreatePage(s, p, v)
           IN  /\ t \in State /\ t.pt[p][v].id # NoID
               /\ t.live = s.live /\ t.history = s.history /\ t.owner = s.owner
               /\ Good(s) => Good(t)
<1> DEFINE t == GetOrCreatePage(s, p, v)
           e == [NoPage EXCEPT !.id = v]
           m == SetPage(s, p, v, e)
<1>1. CASE s.pt[p][v].id # NoID BY <1>1 DEF GetOrCreatePage
<1>2. CASE s.pt[p][v].id = NoID
  <2>1. t = m BY <1>2 DEF GetOrCreatePage
  <2>2. e \in Page /\ e.id = v /\ e.frame = NoFrame /\ e.shared = FALSE
    BY DEF Page, NoPage, NoFrame, NoID
  <2> HIDE DEF e
  <2>3. /\ m \in State
        /\ \A q \in Procs, w \in PageIDs : m.pt[q][w] = IF q = p /\ w = v THEN e ELSE s.pt[q][w]
        /\ m.live = s.live /\ m.owner = s.owner /\ m.tlb = s.tlb
        /\ m.sharers = s.sharers /\ m.history = s.history
    BY <2>2, SetPageEffect
  <2> HIDE DEF m
  <2>4. ASSUME Good(s) PROVE Good(m)
    <3>1. InUse(m) BY <2>2, <2>3, <2>4 DEF Good, InUse
    <3>2. Keyed(m) BY <2>2, <2>3, <2>4 DEF Good, Keyed
    <3>3. SharedAlike(m) BY <2>2, <2>3, <2>4 DEF Good, SharedAlike
    <3>4. s.pt[p][v].frame = NoFrame BY <1>2, <2>4 DEF Good, InUse
    <3>5. Coherent(m) BY <2>2, <2>3, <2>4, <3>4 DEF Good, Coherent
    <3> QED BY <3>1, <3>2, <3>3, <3>5 DEF Good
  <2>5. m.pt[p][v].id # NoID BY <2>2, <2>3, FreshIDs
  <2> QED BY <2>1, <2>3, <2>4, <2>5
<1> QED BY <1>1, <1>2

\* The first of three recorded accesses is a virtual page.
LEMMA FirstOfThree ==
    ASSUME NEW q \in Seq(0 .. MaxVirtual), Len(q) = 3
    PROVE  q[1] \in 0 .. MaxVirtual
<1> DEFINE S == 0 .. MaxVirtual
<1>1. 1 \in 1 .. Len(q) OBVIOUS
<1>2. q \in Seq(S) OBVIOUS
<1> HIDE DEF S
<1>3. q[1] \in S BY <1>1, <1>2, ElementOfSeq
<1> QED BY <1>3 DEF S

\* Clustering keeps its own books.
LEMMA TrackAccessEffect ==
    ASSUME NEW s \in State, NEW p \in Procs, NEW v \in 0 .. MaxVirtual
    PROVE  LET t == TrackAccess(s, p, v)
           IN  /\ t \in State /\ t.live = s.live /\ t.history = s.history
               /\ Good(s) => Good(t)
<1> DEFINE a == Append(s.recent[p], v)
           q == LastThree(a)
           R == [s.recent EXCEPT ![p] = q]
           c == Len(q) = 3 /\ q[2] = q[1] + 1 /\ q[3] = q[2] + 1
           C == IF c THEN s.clusters \cup {<<p, q[1]>>} ELSE s.clusters
           t == TrackAccess(s, p, v)
<1>1. s.recent \in [Procs -> Seq(0 .. MaxVirtual)] /\ s.clusters \subseteq Procs \X (0 .. MaxVirtual)
  BY DEF State
<1>2. a \in Seq(0 .. MaxVirtual) /\ a # <<>> BY <1>1, AppendProperties
<1> HIDE DEF a
<1>3. Tail(a) \in Seq(0 .. MaxVirtual) BY <1>2, HeadTailProperties
<1>3a. q \in Seq(0 .. MaxVirtual) BY <1>2, <1>3 DEF LastThree
<1> HIDE DEF q
<1>4. R \in [Procs -> Seq(0 .. MaxVirtual)] BY <1>1, <1>3a
<1>5. Len(q) = 3 => q[1] \in 0 .. MaxVirtual BY <1>3a, FirstOfThree
<1>6. C \subseteq Procs \X (0 .. MaxVirtual) BY <1>1, <1>5
<1>7. t = s \/ t = [s EXCEPT !.recent = R, !.clusters = C]
  BY DEF TrackAccess, DetectSequential, State, q, a
<1> HIDE DEF R, C, t
<1>8. /\ t \in State /\ t.live = s.live /\ t.history = s.history /\ t.pt = s.pt
      /\ t.owner = s.owner /\ t.tlb = s.tlb /\ t.sharers = s.sharers
  <2>1. CASE t = s BY <2>1
  <2>2. CASE t = [s EXCEPT !.recent = R, !.clusters = C]
    <3>1. PICK u : u = [s EXCEPT !.recent = R] OBVIOUS
    <3>2. /\ u \in State /\ u.live = s.live /\ u.history = s.history /\ u.pt = s.pt
          /\ u.owner = s.owner /\ u.tlb = s.tlb /\ u.sharers = s.sharers
      BY <1>4, <3>1 DEF State
    <3>3. t = [u EXCEPT !.clusters = C] BY <2>2, <3>1
    <3>4. /\ t \in State /\ t.live = u.live /\ t.history = u.history /\ t.pt = u.pt
          /\ t.owner = u.owner /\ t.tlb = u.tlb /\ t.sharers = u.sharers
      BY <1>6, <3>2, <3>3 DEF State
    <3> QED BY <3>2, <3>4
  <2> QED BY <1>7, <2>1, <2>2
<1>9. Good(s) => Good(t) BY <1>8, SameGood
<1> QED BY <1>8, <1>9 DEF t

\* The pages a cluster asks for have entries in the tables.
LEMMA PrefetchPagesType ==
    ASSUME NEW s \in State, NEW p \in Procs
    PROVE  PrefetchPages(s, p) \subseteq PageIDs
<1> DEFINE q == s.recent[p]
<1>1. q \in Seq(0 .. MaxVirtual) BY DEF State
<1> HIDE DEF q
<1>2. Len(q) = 3 => q[1] \in 0 .. MaxVirtual BY <1>1, FirstOfThree
<1>3. Len(q) = 3 => q[1] + 1 .. q[1] + MaxClusterSize \subseteq VPages
  BY <1>2, BoundsAssumption DEF VPages
<1> QED BY <1>3 DEF PrefetchPages, PageIDs, q

\* A prefetched page is loaded into a free frame, without an eviction.
LEMMA PrefetchOneEffect ==
    ASSUME NEW s \in State, NEW p \in Procs, NEW t \in PrefetchOne(s, p)
    PROVE  /\ t \in State /\ t.live = s.live /\ t.history = s.history
           /\ Good(s) /\ p \in s.live => Good(t)
<1>1. CASE t = s BY <1>1
<1>2. ASSUME NEW v \in PageIDs, s.pt[p][v].frame = NoFrame, t = GetOrCreatePage(s, p, v)
      PROVE  /\ t \in State /\ t.live = s.live /\ t.history = s.history
             /\ Good(s) => Good(t)
  <2> DEFINE c == GetOrCreatePage(s, p, v)
  <2>1. c \in State /\ c.live = s.live /\ c.history = s.history /\ (Good(s) => Good(c))
    BY GetOrCreatePageEffect
  <2> QED BY <1>2, <2>1
<1>3. ASSUME NEW v \in PageIDs, s.pt[p][v].frame = NoFrame, NEW c, c = GetOrCreatePage(s, p, v),
             NEW f \in AllocateFrameForPage(c, p),
             t \in MapPage(Allocate(c, f, p, c.pt[p][v].id), p, v, f)
      PROVE  /\ t \in State /\ t.live = s.live /\ t.history = s.history
             /\ Good(s) /\ p \in s.live => Good(t)
  <2> DEFINE g == GetOrCreatePage(s, p, v)
  <2>1. /\ g \in State /\ g.live = s.live /\ g.history = s.history /\ g.pt[p][v].id # NoID
        /\ Good(s) => Good(g)
    BY GetOrCreatePageEffect
  <2>2. /\ c \in State /\ c.live = s.live /\ c.history = s.history /\ c.pt[p][v].id # NoID
        /\ Good(s) => Good(c)
    BY <1>3, <2>1
  <2> DEFINE id == c.pt[p][v].id
             a == Allocate(c, f, p, id)
  <2>3. f \in Frames /\ f \in FreeFrames(c) BY <2>2, AllocationIsFree
  <2>4. id \in PageIDs BY <2>2, EntryTypes
  <2>5. t \in MapPage(a, p, v, f) BY <1>3
  <2> HIDE DEF id
  <2>6. /\ a \in State /\ a.live = c.live /\ a.history = c.history /\ a.pt = c.pt
        /\ a.owner[f] = OwnedBy(p, id)
    BY <2>2, <2>3, <2>4, AllocateEffect
  <2>7. ASSUME Good(s), p \in s.live
        PROVE  /\ Good(a) /\ a.pt[p][v].id = v
               /\ \A q \in Procs, w \in PageIDs : a.pt[q][w].frame # f
    <3>1. \A q \in Procs, w \in PageIDs : c.pt[q][w].frame # f
      BY <2>2, <2>3, <2>7, FreshIDs DEF Good, InUse, FreeFrames
    <3>2. Good(a) BY <2>2, <2>3, <2>4, <2>7, <3>1, AllocateGood
    <3>3. c.pt[p][v].id = v
      <4>1. CASE s.pt[p][v].id # NoID
        <5>1. c = s BY <1>3, <4>1 DEF GetOrCreatePage
        <5> QED BY <1>3, <2>7, <4>1, <5>1 DEF Good, Keyed
      <4>2. CASE s.pt[p][v].id = NoID
        <5> DEFINE e == [NoPage EXCEPT !.id = v]
                   m == SetPage(s, p, v, e)
        <5>1. e \in Page /\ e.id = v BY DEF Page, NoPage, NoFrame, NoID
        <5>2. c = m BY <1>3, <4>2 DEF GetOrCreatePage
        <5> HIDE DEF e
        <5>3. m.pt[p][v] = e BY <5>1, SetPageEffect
        <5> QED BY <5>1, <5>2, <5>3
      <4> QED BY <4>1, <4>2
    <3> QED BY <2>6, <3>1, <3>2, <3>3
  <2>8. a.pt[p][v].id # NoID BY <2>2, <2>6
  <2> HIDE DEF a
  <2>9. t \in State /\ t.live = a.live /\ t.history = a.history
    BY <2>3, <2>5, <2>6, <2>8, MapPageEffect
  <2>10. ASSUME Good(s), p \in s.live PROVE Good(t)
    <3>1. a.owner[f] # NoOwner BY <2>6, OwnedByIsOwner
    <3>2. p \in a.live BY <2>2, <2>6, <2>10
    <3> QED BY <2>3, <2>5, <2>6, <2>7, <2>10, <3>1, <3>2, MapPageGood
  <2> QED BY <2>2, <2>6, <2>9, <2>10
<1>4. \/ t = s
      \/ \E v \in PageIDs : s.pt[p][v].frame = NoFrame /\
           LET c == GetOrCreatePage(s, p, v)
           IN  \/ t = c
               \/ \E f \in AllocateFrameForPage(c, p) :
                    t \in MapPage(Allocate(c, f, p, c.pt[p][v].id), p, v, f)
  BY PrefetchPagesType DEF PrefetchOne, First
<1> QED BY <1>1, <1>2, <1>3, <1>4

\* tryPrefetch keeps the mappings sound.
LEMMA TryPrefetchEffect ==
    ASSUME NEW s \in State, NEW p \in Procs, NEW t \in TryPrefetch(s, p)
    PROVE  /\ t \in State /\ t.live = s.live /\ t.history = s.history
           /\ Good(s) /\ p \in s.live => Good(t)
<1>1. CASE t = s BY <1>1
<1>2. ASSUME NEW u \in PrefetchOne(s, p), t \in PrefetchOne(u, p)
      PROVE  /\ t \in State /\ t.live = s.live /\ t.history = s.history
             /\ Good(s) /\ p \in s.live => Good(t)
  <2>1. /\ u \in State /\ u.live = s.live /\ u.history = s.history
        /\ Good(s) /\ p \in s.live => Good(u)
    BY PrefetchOneEffect
  <2> QED BY <1>2, <2>1, PrefetchOneEffect
<1>3. t = s \/ \E u \in PrefetchOne(s, p) : t \in PrefetchOne(u, p) BY DEF TryPrefetch
<1> QED BY <1>1, <1>2, <1>3

\* The states an operation may leave, for a process p that it works for: they are
\* well typed, and sound if the state before is and no breach is on record.
Leaves(s, p, t) ==
    /\ t \in State /\ t.live = s.live
    /\ t.history \subseteq {"fork", "alias"} =>
         s.history \subseteq {"fork", "alias"} /\ (Good(s) /\ p \in s.live => Good(t))

\* The prologue of the locked access finds or creates an entry.
LEMMA LocateEffect ==
    ASSUME NEW s \in State, NEW r \in Request
    PROVE  LET t == Locate(s, r)
           IN  Leaves(s, r.proc, t) /\ t.pt[r.proc][r.page].id # NoID
<1> DEFINE p == r.proc
           v == r.page
           u == TrackAccess(s, p, v)
           t == GetOrCreatePage(u, p, v)
<1>1. p \in Procs /\ v \in 0 .. MaxVirtual /\ v \in PageIDs BY FreshIDs DEF Request
<1>2. Locate(s, r) = t BY DEF Locate
<1> HIDE DEF p, v
<1>3. u \in State /\ u.live = s.live /\ u.history = s.history /\ (Good(s) => Good(u))
  BY <1>1, TrackAccessEffect
<1> HIDE DEF u
<1>4. /\ t \in State /\ t.pt[p][v].id # NoID /\ t.live = u.live /\ t.history = u.history
      /\ Good(u) => Good(t)
  BY <1>1, <1>3, GetOrCreatePageEffect
<1> HIDE DEF t
<1> QED BY <1>2, <1>3, <1>4 DEF Leaves, p, v

\* A shared entry is stored under its own ID.
LEMMA SharedIsKeyed ==
    ASSUME NEW s \in State, Good(s), NEW p \in Procs, NEW v \in PageIDs,
           s.pt[p][v].id # NoID, s.pt[p][v].shared
    PROVE  s.pt[p][v].id = v
  BY DEF Good, Keyed

\* A write to a shared page keeps the invariant.
LEMMA WriteEffect ==
    ASSUME NEW s \in State, NEW p \in Procs, NEW v \in PageIDs, s.pt[p][v].id # NoID,
           s.pt[p][v].shared, NEW t \in HandleCoW(s, p, v)
    PROVE  Leaves(s, p, t)
<1>1. /\ t \in State /\ t.live = s.live /\ s.history \subseteq t.history
      /\ Good(s) /\ p \in s.live /\ s.pt[p][v].id = v /\ t.history \subseteq {"fork", "alias"} => Good(t)
  BY HandleCoWEffect
<1> QED BY <1>1, SharedIsKeyed DEF Leaves

\* A write whose copy gets no frame keeps the invariant: it is a breach.
LEMMA WriteFailsEffect ==
    ASSUME NEW s \in State, NEW p \in Procs, NEW v \in PageIDs, s.pt[p][v].id # NoID,
           NEW t \in HandleCoWFails(s, p, v)
    PROVE  Leaves(s, p, t)
<1>1. t \in State /\ ~(t.history \subseteq {"fork", "alias"}) BY HandleCoWFailsEffect
<1>2. t.live = s.live
  <2> DEFINE id == s.pt[p][v].id
             d == Deregister(s, p, id)
  <2>1. s.copies < MaxCopies /\ t = [d EXCEPT !.history = @ \cup {"copyFailed"}]
    BY DEF HandleCoWFails
  <2>2. id \in PageIDs BY EntryTypes
  <2> HIDE DEF id
  <2>3. d \in State /\ d.live = s.live BY <2>1, <2>2, DeregisterEffect
  <2> HIDE DEF d
  <2> QED BY <2>1, <2>3 DEF State
<1> QED BY <1>1, <1>2 DEF Leaves

\* The hit path of AccessMemory keeps the invariant.
LEMMA HitEffect ==
    ASSUME NEW s \in State, NEW r \in Request, s.pt[r.proc][r.page].id # NoID,
           IsPresent(s, r), NEW t \in HitOutcomes(s, r)
    PROVE  Leaves(s, r.proc, t)
<1> DEFINE p == r.proc
           v == r.page
           f == s.pt[p][v].frame
           a == OnPageAccess(s, f, r.write)
<1>1. p \in Procs /\ v \in PageIDs BY FreshIDs DEF Request
<1>2. f \in Frames
  <2>1. s.pt[p][v].frame \in Frames \cup {NoFrame} BY <1>1, EntryTypes
  <2> QED BY <2>1 DEF IsPresent
<1>3. PICK h \in TLBInsert(a, p, v, f) :
        t \in IF WritesShared(h, r) THEN HandleCoW(h, p, v) \cup HandleCoWFails(h, p, v) ELSE {h}
  BY DEF HitOutcomes
<1>4. /\ a \in State /\ a.pt = s.pt /\ a.owner = s.owner /\ a.tlb = s.tlb
      /\ a.live = s.live /\ a.sharers = s.sharers /\ a.history = s.history
  BY <1>2 DEF OnPageAccess, State
<1>5. s.pt[p][v].id # NoID /\ s.pt[p][v].frame = f OBVIOUS
<1>6. WritesShared(h, r) => h.pt[p][v].shared BY DEF WritesShared
<1> HIDE DEF p, v, f, a
<1>7. h \in State /\ h.live = a.live /\ h.pt = a.pt /\ h.history = a.history
  BY <1>1, <1>2, <1>3, <1>4, TLBInsertEffect
<1>8. ASSUME Good(s) PROVE Good(h)
  <2>0. Good(a) BY <1>4, <1>8, SameGood
  <2>1. /\ InUse(a) /\ Keyed(a) /\ SharedAlike(a)
        /\ \A q \in Procs, w \in PageIDs :
             a.tlb[q][w] # NoFrame /\ <<q, w>> # <<p, v>> => a.tlb[q][w] = a.pt[q][w].frame
    BY <2>0 DEF Good, Coherent
  <2>2. a.pt[p][v].frame = f BY <1>4, <1>5
  <2> QED BY <1>1, <1>2, <1>3, <1>4, <2>1, <2>2, TLBInsertGood
<1>9. h.pt[p][v].id # NoID BY <1>4, <1>5, <1>7
<1>10. Leaves(h, p, t)
  <2>1. CASE t = h BY <1>7, <2>1 DEF Leaves
  <2>2. CASE WritesShared(h, r) /\ t \in HandleCoW(h, p, v)
    BY <1>1, <1>6, <1>7, <1>9, <2>2, WriteEffect
  <2>3. CASE t \in HandleCoWFails(h, p, v)
    BY <1>1, <1>7, <1>9, <2>3, WriteFailsEffect
  <2> QED BY <1>3, <2>1, <2>2, <2>3
<1> QED BY <1>4, <1>7, <1>8, <1>10 DEF Leaves, p

\* A page that is not present is loaded under its own ID.
LEMMA LoadEffect ==
    ASSUME NEW s \in State, NEW r \in Request, s.pt[r.proc][r.page].id # NoID,
           ~IsPresent(s, r), NEW t \in LoadPage(s, r.proc, r.page)
    PROVE  Leaves(s, r.proc, t) /\ t.pt[r.proc][r.page].id # NoID
<1> DEFINE p == r.proc
           v == r.page
<1>1. p \in Procs /\ v \in PageIDs BY FreshIDs DEF Request
<1>2. s.pt[p][v].id # NoID /\ s.pt[p][v].frame = NoFrame /\ t \in LoadPage(s, p, v)
  BY DEF IsPresent
<1> HIDE DEF p, v
<1>3. /\ t \in State /\ t.pt[p][v].id # NoID
      /\ t.live = s.live /\ s.history \subseteq t.history
      /\ Good(s) /\ p \in s.live /\ s.pt[p][v].id = v /\ t.history \subseteq {"fork", "alias"} => Good(t)
  BY <1>1, <1>2, LoadPageEffect
<1>4. Good(s) => s.pt[p][v].id = v BY <1>1, <1>2 DEF Good, Keyed
<1> QED BY <1>3, <1>4 DEF Leaves, p, v

\* The fault path of AccessMemory keeps the invariant.
LEMMA FaultEffect ==
    ASSUME NEW s \in State, NEW r \in Request, s.pt[r.proc][r.page].id # NoID,
           ~IsPresent(s, r), NEW t \in FaultOutcomes(s, r)
    PROVE  Leaves(s, r.proc, t)
<1> DEFINE p == r.proc
           v == r.page
<1>1. p \in Procs /\ v \in PageIDs BY FreshIDs DEF Request
<1>2. PICK l \in LoadPage(s, p, v) :
        \E x \in (IF WritesShared(l, r) THEN HandleCoW(l, p, v) ELSE {l}) :
          \E y \in EnforcePFFResident(x) : t \in TryPrefetch(y, p)
  BY DEF FaultOutcomes
<1>3. PICK x \in (IF WritesShared(l, r) THEN HandleCoW(l, p, v) ELSE {l}) :
        \E y \in EnforcePFFResident(x) : t \in TryPrefetch(y, p)
  BY <1>2
<1>4. PICK y \in EnforcePFFResident(x) : t \in TryPrefetch(y, p) BY <1>3
<1>5. Leaves(s, p, l) /\ l.pt[p][v].id # NoID BY <1>2, LoadEffect
<1>6. WritesShared(l, r) => l.pt[p][v].shared BY DEF WritesShared
<1> HIDE DEF p, v
<1>7. l \in State BY <1>5 DEF Leaves
<1>8. Leaves(l, p, x)
  <2>1. CASE x = l BY <1>7, <2>1 DEF Leaves
  <2>2. CASE WritesShared(l, r) /\ x \in HandleCoW(l, p, v)
    BY <1>1, <1>5, <1>6, <1>7, <2>2, WriteEffect
  <2> QED BY <1>3, <2>1, <2>2
<1>9. x \in State BY <1>8 DEF Leaves
<1>10. /\ y \in State /\ y.live = x.live /\ x.history \subseteq y.history
       /\ Good(x) /\ y.history \subseteq {"fork", "alias"} => Good(y)
  BY <1>4, <1>9, EnforcePFFResidentEffect
<1>11. /\ t \in State /\ t.live = y.live /\ t.history = y.history
       /\ Good(y) /\ p \in y.live => Good(t)
  BY <1>1, <1>4, <1>10, TryPrefetchEffect
<1>12. Leaves(x, p, t) BY <1>10, <1>11 DEF Leaves
<1> QED BY <1>5, <1>8, <1>12 DEF Leaves, p

\* A decompression in vain leaves no trace once the entry has been put back.
LEMMA RestoreExact ==
    ASSUME NEW s \in State, NEW id PROVE RestoreCompressed(s, DecompressPage(s, id), id) = s
<1>1. CASE "compression" \in s.on /\ id \in s.zip
  <2>1. RestoreCompressed(s, DecompressPage(s, id), id)
          = [[s EXCEPT !.zip = @ \ {id}] EXCEPT !.zip = @ \cup {id}]
    BY <1>1 DEF RestoreCompressed, DecompressPage
  <2>2. (s.zip \ {id}) \cup {id} = s.zip BY <1>1
  <2>3. PICK u : u = [s EXCEPT !.zip = @ \ {id}] OBVIOUS
  <2>4. PICK z : z = (s.zip \ {id}) \cup {id} OBVIOUS
  <2>5. "zip" \in DOMAIN s /\ s = [s EXCEPT !.zip = s.zip] BY DEF State
  <2>6. u.zip = s.zip \ {id} BY <2>3, <2>5
  <2>7. [u EXCEPT !.zip = @ \cup {id}] = [u EXCEPT !.zip = z] BY <2>4, <2>6
  <2>8. [u EXCEPT !.zip = z] = [s EXCEPT !.zip = z] BY <2>3
  <2> QED BY <2>1, <2>2, <2>3, <2>4, <2>5, <2>7, <2>8, Zenon
<1>2. CASE ~("compression" \in s.on /\ id \in s.zip)
  <2>1. RestoreCompressed(s, DecompressPage(s, id), id) = DecompressPage(s, id)
    BY <1>2 DEF RestoreCompressed
  <2>2. "compression" \in s.on => s.zip \ {id} = s.zip BY <1>2
  <2>3. DecompressPage(s, id) = s BY <2>2 DEF DecompressPage, State
  <2> QED BY <2>1, <2>3
<1> QED BY <1>1, <1>2

\* The paths of AccessMemory that return an error keep the invariant.
LEMMA ErrorEffect ==
    ASSUME NEW s \in State, NEW r \in Request, s.pt[r.proc][r.page].id # NoID,
           ~IsPresent(s, r), NEW t \in ErrorOutcomes(s, r)
    PROVE  Leaves(s, r.proc, t)
<1> DEFINE p == r.proc
           v == r.page
<1>1. p \in Procs /\ v \in PageIDs BY FreshIDs DEF Request
<1>2. t = s \/ \E l \in LoadPage(s, p, v) : t \in HandleCoWFails(l, p, v)
  BY RestoreExact DEF ErrorOutcomes
<1>3. CASE t = s BY <1>3 DEF Leaves
<1>4. ASSUME NEW l \in LoadPage(s, p, v), t \in HandleCoWFails(l, p, v)
      PROVE  Leaves(s, p, t)
  <2>1. Leaves(s, p, l) /\ l.pt[p][v].id # NoID BY LoadEffect
  <2> HIDE DEF p, v
  <2>2. l \in State BY <2>1 DEF Leaves
  <2>3. Leaves(l, p, t) BY <1>1, <1>4, <2>1, <2>2, WriteFailsEffect
  <2> QED BY <2>1, <2>3 DEF Leaves
<1> QED BY <1>2, <1>3, <1>4

\* CreateProcess keeps the invariant.
LEMMA CreateProcessEffect ==
    ASSUME mm \in State, NEW p \in Procs, CreateProcess(p)
    PROVE  mm' \in State /\ mm'.history = mm.history /\ (Good(mm) => Good(mm'))
<1> DEFINE T == [mm.pt EXCEPT ![p] = [v \in PageIDs |-> NoPage]]
           R == [mm.recent EXCEPT ![p] = <<>>]
           H == [mm.huge EXCEPT ![p] = [i \in HugeIdx |-> NoFrame]]
<1>1. mm' = [mm EXCEPT !.live = @ \cup {p}, !.pt = T, !.recent = R, !.huge = H]
  BY DEF CreateProcess, State
<1>2. NoPage \in Page BY DEF NoPage, Page
<1>3. T \in PageTables BY <1>2, FieldTypes DEF PageTables
<1>4. R \in [Procs -> Seq(0 .. MaxVirtual)] BY DEF State
<1>5. H \in [Procs -> [HugeIdx -> Frames \cup {NoFrame}]] BY DEF State
<1>6. \A q \in Procs, v \in PageIDs : T[q][v] = IF q = p THEN NoPage ELSE mm.pt[q][v]
  BY FieldTypes DEF PageTables
<1> HIDE DEF T, R, H
<1>7. /\ mm' \in State /\ mm'.pt = T /\ mm'.live = mm.live \cup {p} /\ mm'.owner = mm.owner
      /\ mm'.tlb = mm.tlb /\ mm'.sharers = mm.sharers /\ mm'.history = mm.history
  BY <1>1, <1>3, <1>4, <1>5 DEF State
<1>8. NoPage.frame = NoFrame /\ NoPage.id = NoID /\ NoPage.shared = FALSE BY DEF NoPage
<1>9. ASSUME Good(mm) PROVE Good(mm')
  <2>1. \A v \in PageIDs : mm.pt[p][v].frame = NoFrame
    BY <1>9 DEF Good, InUse, CreateProcess
  <2>2. InUse(mm') BY <1>6, <1>7, <1>8, <1>9 DEF Good, InUse
  <2>3. Keyed(mm') BY <1>6, <1>7, <1>8, <1>9 DEF Good, Keyed
  <2>4. SharedAlike(mm') BY <1>6, <1>7, <1>8, <1>9 DEF Good, SharedAlike
  <2>5. Coherent(mm') BY <1>6, <1>7, <1>8, <1>9, <2>1 DEF Good, Coherent
  <2> QED BY <2>2, <2>3, <2>4, <2>5 DEF Good
<1> QED BY <1>7, <1>9

\* RemoveProcess keeps the invariant.
LEMMA RemoveProcessEffect ==
    ASSUME mm \in State, NEW p \in Procs, RemoveProcess(p)
    PROVE  /\ mm' \in State
           /\ mm'.history \subseteq {"fork", "alias"} =>
                mm.history \subseteq {"fork", "alias"} /\ (Good(mm) => Good(mm'))
<1> DEFINE gone == MappedFrames(mm, p)
           O == [f \in Frames |-> IF f \in gone THEN NoOwner ELSE mm.owner[f]]
           T == [mm.pt EXCEPT ![p] = [v \in PageIDs |-> NoPage]]
           B == [mm.tlb EXCEPT ![p] = [v \in PageIDs |-> NoFrame]]
           S == [id \in PageIDs |-> mm.sharers[id] \ {p}]
           G == [mm.huge EXCEPT ![p] = [i \in HugeIdx |-> NoFrame]]
           R == [mm.recent EXCEPT ![p] = <<>>]
           C == {k \in mm.clusters : k[1] # p}
           H == IF MapsSharedFrame(mm, p) THEN mm.history \cup {"remove"} ELSE mm.history
<1>1. mm' = [mm EXCEPT !.live = @ \ {p}, !.owner = O, !.dirty = @ \ gone, !.pt = T,
               !.tlb = B, !.sharers = S, !.huge = G, !.recent = R, !.clusters = C, !.history = H]
  BY DEF RemoveProcess, State
<1>2. NoPage \in Page BY DEF NoPage, Page
<1>3. T \in PageTables BY <1>2, FieldTypes DEF PageTables
<1>4. B \in TLBs BY FieldTypes DEF TLBs
<1>5. O \in [Frames -> Owner] /\ S \in [PageIDs -> SUBSET Procs]
  BY FieldTypes DEF Owner, NoOwner
<1>6. /\ R \in [Procs -> Seq(0 .. MaxVirtual)]
      /\ G \in [Procs -> [HugeIdx -> Frames \cup {NoFrame}]]
      /\ C \in SUBSET (Procs \X (0 .. MaxVirtual))
  BY DEF State
<1>7. H \in SUBSET (Breaches \cup {"fork", "alias"}) BY DEF State, Breaches
<1>8. \A q \in Procs, v \in PageIDs :
        /\ T[q][v] = IF q = p THEN NoPage ELSE mm.pt[q][v]
        /\ B[q][v] = IF q = p THEN NoFrame ELSE mm.tlb[q][v]
  BY FieldTypes DEF PageTables, TLBs
<1>9. \A f \in Frames : f \notin gone => O[f] = mm.owner[f] OBVIOUS
<1>10. \A id \in PageIDs : S[id] = mm.sharers[id] \ {p} OBVIOUS
<1>11. mm.history \subseteq H /\ (H \subseteq {"fork", "alias"} => ~MapsSharedFrame(mm, p)) OBVIOUS
<1> HIDE DEF gone, O, T, B, S, G, R, C, H
<1>12. mm' \in State BY <1>1, <1>3, <1>4, <1>5, <1>6, <1>7 DEF State
<1>13. /\ mm'.pt = T /\ mm'.tlb = B /\ mm'.owner = O /\ mm'.sharers = S
       /\ mm'.live = mm.live \ {p} /\ mm'.history = H
  BY <1>1 DEF State
<1>14. NoPage.frame = NoFrame /\ NoPage.id = NoID /\ NoPage.shared = FALSE BY DEF NoPage
<1>15. ASSUME Good(mm), H \subseteq {"fork", "alias"} PROVE Good(mm')
  <2>1. ASSUME NEW q \in Procs, q # p, NEW v \in PageIDs, mm.pt[q][v].frame # NoFrame
        PROVE  O[mm.pt[q][v].frame] = mm.owner[mm.pt[q][v].frame]
    <3>1. mm.pt[q][v].frame \in MappedFrames(mm, q) BY <2>1 DEF MappedFrames
    <3>2. mm.pt[q][v].frame \notin gone
      BY <1>11, <1>15, <2>1, <3>1 DEF MapsSharedFrame, gone
    <3>3. mm.pt[q][v].frame \in Frames BY <2>1, EntryTypes
    <3> QED BY <1>9, <3>2, <3>3
  <2>2. InUse(mm') BY <1>8, <1>13, <1>14, <1>15, <2>1 DEF Good, InUse
  <2>3. Keyed(mm') BY <1>8, <1>13, <1>14, <1>15, <2>1 DEF Good, Keyed
  <2>4. SharedAlike(mm') BY <1>8, <1>10, <1>13, <1>14, <1>15 DEF Good, SharedAlike
  <2>5. Coherent(mm') BY <1>8, <1>13, <1>14, <1>15 DEF Good, Coherent
  <2> QED BY <2>2, <2>3, <2>4, <2>5 DEF Good
<1> QED BY <1>11, <1>12, <1>13, <1>15

\* ForkProcess keeps the invariant: it marks both copies of every present page.
LEMMA ForkProcessEffect ==
    ASSUME mm \in State, NEW p \in Procs, NEW c \in Procs, ForkProcess(p, c)
    PROVE  /\ mm' \in State
           /\ mm'.history \subseteq {"fork", "alias"} =>
                mm.history \subseteq {"fork", "alias"} /\ (Good(mm) => Good(mm'))
<1> DEFINE table == mm.pt[p]
           T == [mm.pt EXCEPT ![c] = Clone(table), ![p] = MakeShared(table)]
           S == [id \in PageIDs |-> IF id \in PresentIDs(table) THEN mm.sharers[id] \cup {p, c}
                                                                ELSE mm.sharers[id]]
           G == [mm.huge EXCEPT ![c] = [i \in HugeIdx |-> NoFrame]]
           R == [mm.recent EXCEPT ![c] = <<>>]
           H == mm.history \cup {"fork"} \cup (IF HoldsCopy(table) THEN {"refork"} ELSE {})
<1>1. mm' = [mm EXCEPT !.live = @ \cup {c}, !.pt = T, !.sharers = S, !.huge = G,
                       !.recent = R, !.history = H]
  BY DEF ForkProcess, State
<1>2. p \in mm.live /\ c \notin mm.live /\ p # c BY DEF ForkProcess
<1>3. ASSUME NEW v \in PageIDs
      PROVE  /\ Clone(table)[v] \in Page /\ MakeShared(table)[v] \in Page
             /\ MakeShared(table)[v].frame = table[v].frame
             /\ MakeShared(table)[v].id = table[v].id
             /\ table[v].frame # NoFrame => MakeShared(table)[v].shared
             /\ table[v].id # NoID => /\ Clone(table)[v].frame = table[v].frame
                                      /\ Clone(table)[v].id = table[v].id
                                      /\ Clone(table)[v].shared
             /\ table[v].id = NoID => Clone(table)[v] = NoPage
  <2>1. table[v] \in Page BY EntryTypes
  <2> HIDE DEF table
  <2>2. NoPage \in Page BY DEF NoPage, Page
  <2>3. [table[v] EXCEPT !.shared = TRUE] \in Page BY <2>1 DEF Page
  <2>4. /\ [table[v] EXCEPT !.shared = TRUE].frame = table[v].frame
        /\ [table[v] EXCEPT !.shared = TRUE].id = table[v].id
        /\ [table[v] EXCEPT !.shared = TRUE].shared = TRUE
    BY <2>1 DEF Page
  <2>5. MakeShared(table)[v] \in {table[v], [table[v] EXCEPT !.shared = TRUE]}
    BY DEF MakeShared
  <2>6. table[v].frame # NoFrame => MakeShared(table)[v] = [table[v] EXCEPT !.shared = TRUE]
    BY DEF MakeShared
  <2>7. /\ table[v].id # NoID => Clone(table)[v] = [table[v] EXCEPT !.shared = TRUE]
        /\ table[v].id = NoID => Clone(table)[v] = NoPage
    BY DEF Clone
  <2> QED BY <2>1, <2>2, <2>3, <2>4, <2>5, <2>6, <2>7
<1>4. Clone(table) \in [PageIDs -> Page] /\ MakeShared(table) \in [PageIDs -> Page]
  <2> HIDE DEF table
  <2>1. \A v \in PageIDs : Clone(table)[v] \in Page /\ MakeShared(table)[v] \in Page BY <1>3
  <2>2. /\ Clone(table) = [v \in PageIDs |-> Clone(table)[v]]
        /\ MakeShared(table) = [v \in PageIDs |-> MakeShared(table)[v]]
    BY DEF Clone, MakeShared
  <2> QED BY <2>1, <2>2
<1>5. T \in PageTables BY <1>4, FieldTypes DEF PageTables
<1>6. /\ T[c] = Clone(table) /\ T[p] = MakeShared(table)
      /\ \A q \in Procs : q \notin {p, c} => T[q] = mm.pt[q]
  BY <1>2, FieldTypes DEF PageTables
<1>7. S \in [PageIDs -> SUBSET Procs] BY FieldTypes
<1>8. \A id \in PageIDs : mm.sharers[id] \subseteq S[id] OBVIOUS
<1>9. ASSUME NEW v \in PageIDs, table[v].frame # NoFrame, table[v].id = v
      PROVE  p \in S[v] /\ c \in S[v]
  BY <1>9 DEF PresentIDs
<1>10. /\ G \in [Procs -> [HugeIdx -> Frames \cup {NoFrame}]]
       /\ R \in [Procs -> Seq(0 .. MaxVirtual)]
  BY DEF State
<1>11. H \in SUBSET (Breaches \cup {"fork", "alias"}) BY DEF State, Breaches
<1>12. mm.history \subseteq H /\ (H \subseteq {"fork", "alias"} => ~HoldsCopy(table)) OBVIOUS
<1>13. table = mm.pt[p] OBVIOUS
<1> HIDE DEF table, T, S, G, R, H
<1>14. mm' \in State BY <1>1, <1>5, <1>7, <1>10, <1>11 DEF State
<1>15. /\ mm'.pt = T /\ mm'.sharers = S /\ mm'.live = mm.live \cup {c} /\ mm'.history = H
       /\ mm'.owner = mm.owner /\ mm'.tlb = mm.tlb
  BY <1>1 DEF State
<1>16. NoPage.frame = NoFrame /\ NoPage.id = NoID /\ NoPage.shared = FALSE BY DEF NoPage
<1>17. ASSUME Good(mm), H \subseteq {"fork", "alias"} PROVE Good(mm')
  <2>1. \A v \in PageIDs : table[v].id \in {NoID, v} BY <1>12, <1>17 DEF HoldsCopy
  <2>2. \A v \in PageIDs : mm.pt[c][v].frame = NoFrame /\ mm.tlb[c][v] = NoFrame
    BY <1>2, <1>17 DEF Good, InUse, Coherent
  <2>3. \A v \in PageIDs : table[v].frame # NoFrame =>
          table[v].id = v /\ mm.owner[table[v].frame] # NoOwner
    BY <1>13, <1>17, <2>1 DEF Good, InUse
  \* Parent and child have the parent's mapping, marked shared and registered.
  <2>4. ASSUME NEW q \in {p, c}, NEW v \in PageIDs
        PROVE  /\ T[q][v].frame = table[v].frame /\ T[q][v].id = table[v].id
               /\ T[q][v].frame # NoFrame => T[q][v].shared /\ q \in S[v]
    <3>1. table[v].id = NoID => table[v].frame = NoFrame BY <2>3, FreshIDs
    <3>2. CASE q = p BY <1>3, <1>6, <1>9, <2>3, <3>2
    <3>3. CASE q = c BY <1>3, <1>6, <1>9, <1>16, <2>3, <3>1, <3>3
    <3> QED BY <3>2, <3>3
  <2>5. InUse(mm') BY <1>2, <1>6, <1>15, <1>17, <2>3, <2>4, FreshIDs DEF Good, InUse
  <2>6. Keyed(mm') BY <1>6, <1>15, <1>17, <2>1, <2>4 DEF Good, Keyed
  <2>7. Coherent(mm') BY <1>6, <1>13, <1>15, <1>17, <2>2, <2>4 DEF Good, Coherent
  <2>8. SharedAlike(mm')
    <3> SUFFICES ASSUME NEW q \in Procs, NEW r \in Procs, NEW v \in PageIDs, NEW w \in PageIDs,
                        <<q, v>> # <<r, w>>, T[q][v].frame = T[r][w].frame,
                        T[q][v].frame # NoFrame
                 PROVE  /\ v = w
                        /\ T[q][v].shared /\ T[r][w].shared
                        /\ q \in S[v] /\ r \in S[v]
      BY <1>15 DEF SharedAlike
    <3> DEFINE a == IF q = c THEN p ELSE q
               b == IF r = c THEN p ELSE r
    <3>1. /\ mm.pt[a][v].frame = T[q][v].frame /\ mm.pt[b][w].frame = T[r][w].frame
          /\ a \in Procs /\ b \in Procs
      BY <1>6, <1>13, <2>4
    <3>2. CASE <<a, v>> = <<b, w>>
      <4>1. v = w /\ q \in {p, c} /\ r \in {p, c} BY <3>2
      <4> QED BY <2>4, <4>1
    <3>3. CASE <<a, v>> # <<b, w>>
      <4> HIDE DEF a, b
      <4>1. /\ v = w /\ mm.pt[a][v].shared /\ mm.pt[b][w].shared
            /\ a \in mm.sharers[v] /\ b \in mm.sharers[v]
        BY <1>17, <3>1, <3>3 DEF Good, SharedAlike
      <4>2. T[q][v].shared /\ q \in S[v] BY <1>6, <1>8, <2>4, <4>1 DEF a
      <4>3. T[r][w].shared /\ r \in S[v] BY <1>6, <1>8, <2>4, <4>1 DEF b
      <4> QED BY <4>1, <4>2, <4>3
    <3> QED BY <3>2, <3>3
  <2> QED BY <2>5, <2>6, <2>7, <2>8 DEF Good
<1> QED BY <1>12, <1>14, <1>15, <1>17

\* State m is what MapHugePage makes of the frame that it has obtained.
Named(m, o, p, i) ==
    m = [o.st EXCEPT
           !.huge[p][i] = o.frame,
           !.history = IF HugeBase + i \in PageIDs THEN @ \cup {"alias"} ELSE @]

\* MapHugePage records the huge page, and that its number is that of a small one.
LEMMA NamedEffect ==
    ASSUME NEW p \in Procs, NEW i \in HugeIdx, NEW o, o.st \in State, o.frame \in Frames,
           NEW m, Named(m, o, p, i)
    PROVE  LET x == o.st
           IN  /\ m \in State /\ m.pt = x.pt /\ m.owner = x.owner /\ m.tlb = x.tlb
               /\ m.live = x.live /\ m.sharers = x.sharers /\ m.zip = x.zip
               /\ m.recent = x.recent /\ m.clusters = x.clusters
               /\ x.history \subseteq m.history
               /\ (m.history = x.history /\ HugeBase + i \notin PageIDs) \/ "alias" \in m.history
<1> DEFINE x == o.st
           G == [x.huge EXCEPT ![p][i] = o.frame]
           H == IF HugeBase + i \in PageIDs THEN x.history \cup {"alias"} ELSE x.history
<1>1. x \in State OBVIOUS
<1>2. m = [x EXCEPT !.huge = G, !.history = H] BY DEF Named, State
<1>3. G \in [Procs -> [HugeIdx -> Frames \cup {NoFrame}]] BY <1>1 DEF State
<1>4. H \in SUBSET (Breaches \cup {"fork", "alias"}) BY <1>1 DEF State
<1>5. /\ x.history \subseteq H
      /\ (H = x.history /\ HugeBase + i \notin PageIDs) \/ "alias" \in H
  OBVIOUS
<1> HIDE DEF x, G, H
<1>6. /\ m \in State /\ m.pt = x.pt /\ m.owner = x.owner /\ m.tlb = x.tlb
      /\ m.live = x.live /\ m.sharers = x.sharers /\ m.zip = x.zip
      /\ m.recent = x.recent /\ m.clusters = x.clusters /\ m.history = H
  BY <1>1, <1>2, <1>3, <1>4 DEF State
<1> QED BY <1>5, <1>6 DEF x

\* MapHugePage keeps the invariant.
LEMMA MapHugePageEffect ==
    ASSUME mm \in State, NEW p \in Procs, NEW i \in HugeIdx, MapHugePage(p, i)
    PROVE  /\ mm' \in State
           /\ mm'.history \subseteq {"fork", "alias"} =>
                mm.history \subseteq {"fork", "alias"} /\ (Good(mm) => Good(mm'))
<1> DEFINE id == HugeBase + i
<1>1. PICK o \in ObtainFrame(mm, AllocateFrameForPage(mm, p), p, id) : Named(mm', o, p, i)
  BY DEF MapHugePage, Named
<1>2. AllocateFrameForPage(mm, p) \in SUBSET FreeFrames(mm) BY AllocationIsFree
<1>3. id \in PageIDs \cup HugeIDs BY FreshIDs
<1> HIDE DEF id
<1>40. Obtained(mm, p, id, o) BY <1>1, <1>2, <1>3, ObtainFrameEffect
<1>4. o.frame \in Frames /\ o.st \in State /\ mm.history \subseteq o.st.history
  BY <1>40 DEF Obtained
<1> DEFINE x == o.st
<1>5. x \in State BY <1>4
<1>8. /\ mm' \in State /\ mm'.pt = x.pt /\ mm'.owner = x.owner /\ mm'.tlb = x.tlb
      /\ mm'.live = x.live /\ mm'.sharers = x.sharers /\ x.history \subseteq mm'.history
  BY <1>1, <1>4, <1>5, NamedEffect
<1> HIDE DEF x
<1>9. ASSUME Good(mm), mm'.history \subseteq {"fork", "alias"} PROVE Good(mm')
  <2>0. o.st.history \subseteq {"fork", "alias"} BY <1>8, <1>9 DEF x
  <2>1. Good(x) BY <1>1, <1>2, <1>3, <1>9, <2>0, ObtainFrameGood DEF x
  <2> QED BY <1>8, <2>1, SameGood
<1> QED BY <1>4, <1>8, <1>9 DEF x

\* A memory manager without mappings is sound, as built and as reset.
LEMMA NewMemoryManagerGood ==
    ASSUME NEW a \in Algorithms
    PROVE  NewMemoryManager(a) \in State /\ Good(NewMemoryManager(a))
<1> DEFINE n == NewMemoryManager(a)
<1>1. NoPage \in Page /\ NoOwner \in Owner BY DEF NoPage, Page, NoOwner, Owner
<1>2. 0 \in 0 .. MaxCopies BY BoundsAssumption
<1>3. n \in State BY <1>1, <1>2 DEF NewMemoryManager, State, PageTables, TLBs
<1>4. NoPage.frame = NoFrame /\ NoPage.id = NoID BY DEF NoPage
<1>5. \A p \in Procs, v \in PageIDs : n.pt[p][v] = NoPage /\ n.tlb[p][v] = NoFrame
  BY DEF NewMemoryManager
<1> HIDE DEF n
<1>6. Good(n) BY <1>4, <1>5 DEF Good, InUse, Keyed, SharedAlike, Coherent
<1> QED BY <1>3, <1>6 DEF n

\* Reset restores the invariant.
LEMMA ResetEffect ==
    ASSUME mm \in State, Reset
    PROVE  mm' \in State /\ Good(mm')
<1> DEFINE n == NewMemoryManager(mm.alg)
<1>1. mm.alg \in Algorithms BY DEF State
<1>2. n \in State /\ Good(n) BY <1>1, NewMemoryManagerGood
<1>3. mm' = [n EXCEPT !.on = mm.on, !.pinned = mm.pinned, !.copies = mm.copies] BY DEF Reset
<1> HIDE DEF n
<1>4. /\ mm' \in State /\ mm'.pt = n.pt /\ mm'.owner = n.owner /\ mm'.tlb = n.tlb
      /\ mm'.live = n.live /\ mm'.sharers = n.sharers
  BY <1>2, <1>3 DEF State
<1> QED BY <1>2, <1>4, SameGood

\* The fields that SetAlgorithm, Enable and SetPinned assign do not bear on mappings.
LEMMA SettingsEffect ==
    ASSUME mm \in State, NEW a \in Algorithms, NEW n \in SUBSET Features,
           NEW P \in SUBSET Frames,
           \/ mm' = [mm EXCEPT !.alg = a]
           \/ mm' = [mm EXCEPT !.on = n]
           \/ mm' = [mm EXCEPT !.pinned = P]
    PROVE  /\ mm' \in State /\ mm'.history = mm.history
           /\ Good(mm) => Good(mm')
<1>1. /\ mm' \in State /\ mm'.pt = mm.pt /\ mm'.owner = mm.owner /\ mm'.tlb = mm.tlb
      /\ mm'.live = mm.live /\ mm'.sharers = mm.sharers /\ mm'.history = mm.history
  <2>1. CASE mm' = [mm EXCEPT !.alg = a] BY <2>1 DEF State
  <2>2. CASE mm' = [mm EXCEPT !.on = n] BY <2>2 DEF State
  <2>3. CASE mm' = [mm EXCEPT !.pinned = P] BY <2>3 DEF State
  <2> QED BY <2>1, <2>2, <2>3
<1> QED BY <1>1, SameGood

\* The initial states satisfy the inductive invariant.
LEMMA InitIInv == Init => IInv
<1> SUFFICES ASSUME Init PROVE IInv OBVIOUS
<1>1. PICK a \in Algs : mm = NewMemoryManager(a) BY DEF Init
<1>2. a \in Algorithms BY CallersAssumption
<1>3. mm \in State /\ Good(mm) BY <1>1, <1>2, NewMemoryManagerGood
<1>4. req \in [Threads -> Request \cup {Idle}] BY DEF Init
<1> QED BY <1>3, <1>4 DEF IInv, TypeOK

\* One access, in its second locked section.
LEMMA AccessEffect ==
    ASSUME mm \in State, req \in [Threads -> Request \cup {Idle}], NEW t \in Threads,
           AccessHit(t) \/ AccessFault(t) \/ AccessError(t)
    PROVE  mm' \in State /\ Leaves(mm, req[t].proc, mm') /\ req[t].proc \in mm.live
<1> DEFINE r == req[t]
           s == Locate(mm, r)
<1>1. r \in Request /\ r.proc \in mm.live
  BY DEF AccessHit, AccessFault, AccessError, Pending
<1>2. \/ IsPresent(s, r) /\ mm' \in HitOutcomes(s, r)
      \/ ~IsPresent(s, r) /\ mm' \in FaultOutcomes(s, r) \cup ErrorOutcomes(s, r)
  BY DEF AccessHit, AccessFault, AccessError
<1> HIDE DEF r
<1>3. Leaves(mm, r.proc, s) /\ s.pt[r.proc][r.page].id # NoID BY <1>1, LocateEffect
<1> HIDE DEF s
<1>4. s \in State BY <1>3 DEF Leaves
<1>5. Leaves(s, r.proc, mm')
  BY <1>1, <1>2, <1>3, <1>4, HitEffect, FaultEffect, ErrorEffect
<1>6. Leaves(mm, r.proc, mm') BY <1>3, <1>5 DEF Leaves
<1> QED BY <1>1, <1>6 DEF Leaves, r

\* Every step preserves the inductive invariant.
LEMMA NextIInv == IInv /\ [Next]_vars => IInv'
<1> SUFFICES ASSUME IInv, [Next]_vars PROVE IInv' OBVIOUS
<1>1. mm \in State /\ req \in [Threads -> Request \cup {Idle}] BY DEF IInv, TypeOK
<1>2. NoBreach => Good(mm) BY DEF IInv
<1>3. ASSUME mm' \in State, req' \in [Threads -> Request \cup {Idle}],
             mm'.history \subseteq {"fork", "alias"} => Good(mm')
      PROVE  IInv'
  BY <1>3 DEF IInv, TypeOK, NoBreach, Good, InUse, Keyed, SharedAlike, Coherent
<1>4. ASSUME NEW p \in Procs, CreateProcess(p) PROVE IInv'
  <2>1. mm' \in State /\ mm'.history = mm.history /\ (Good(mm) => Good(mm'))
    BY <1>1, <1>4, CreateProcessEffect
  <2>2. req' = req BY <1>4 DEF CreateProcess
  <2> QED BY <1>1, <1>2, <1>3, <2>1, <2>2 DEF NoBreach
<1>5. ASSUME NEW p \in Procs, RemoveProcess(p) PROVE IInv'
  <2>1. /\ mm' \in State
        /\ mm'.history \subseteq {"fork", "alias"} =>
             mm.history \subseteq {"fork", "alias"} /\ (Good(mm) => Good(mm'))
    BY <1>1, <1>5, RemoveProcessEffect
  <2>2. req' = req BY <1>5 DEF RemoveProcess
  <2> QED BY <1>1, <1>2, <1>3, <2>1, <2>2 DEF NoBreach
<1>6. ASSUME NEW p \in Procs, NEW c \in Procs, ForkProcess(p, c) PROVE IInv'
  <2>1. /\ mm' \in State
        /\ mm'.history \subseteq {"fork", "alias"} =>
             mm.history \subseteq {"fork", "alias"} /\ (Good(mm) => Good(mm'))
    BY <1>1, <1>6, ForkProcessEffect
  <2>2. req' = req BY <1>6 DEF ForkProcess
  <2> QED BY <1>1, <1>2, <1>3, <2>1, <2>2 DEF NoBreach
<1>7. ASSUME NEW t \in Threads, NEW p \in Procs, NEW v \in 0 .. MaxVirtual, NEW w \in BOOLEAN,
             AccessFast(t, p, v, w)
      PROVE  IInv'
  <2>1. [proc |-> p, page |-> v, write |-> w] \in Request BY DEF Request
  <2>2. mm' = mm /\ req' = [req EXCEPT ![t] = [proc |-> p, page |-> v, write |-> w]]
    BY <1>7 DEF AccessFast
  <2>3. req' \in [Threads -> Request \cup {Idle}] BY <1>1, <2>1, <2>2
  <2> QED BY <1>1, <1>2, <1>3, <2>2, <2>3 DEF NoBreach
<1>8. ASSUME NEW t \in Threads, AccessHit(t) \/ AccessFault(t) \/ AccessError(t) PROVE IInv'
  <2>1. mm' \in State /\ Leaves(mm, req[t].proc, mm') /\ req[t].proc \in mm.live
    BY <1>1, <1>8, AccessEffect
  <2>2. req' = [req EXCEPT ![t] = Idle]
    BY <1>8 DEF AccessHit, AccessFault, AccessError, Done
  <2>3. req' \in [Threads -> Request \cup {Idle}] BY <1>1, <2>2
  <2> QED BY <1>2, <1>3, <2>1, <2>3 DEF Leaves, NoBreach
<1>9. ASSUME NEW t \in Threads, AccessGone(t) PROVE IInv'
  <2>1. mm' = mm /\ req' = [req EXCEPT ![t] = Idle] BY <1>9 DEF AccessGone, Done
  <2>2. req' \in [Threads -> Request \cup {Idle}] BY <1>1, <2>1
  <2> QED BY <1>1, <1>2, <1>3, <2>1, <2>2 DEF NoBreach
<1>10. ASSUME NEW p \in Procs, NEW i \in HugeIdx, MapHugePage(p, i) PROVE IInv'
  <2>1. /\ mm' \in State
        /\ mm'.history \subseteq {"fork", "alias"} =>
             mm.history \subseteq {"fork", "alias"} /\ (Good(mm) => Good(mm'))
    BY <1>1, <1>10, MapHugePageEffect
  <2>2. req' = req BY <1>10 DEF MapHugePage
  <2> QED BY <1>1, <1>2, <1>3, <2>1, <2>2 DEF NoBreach
<1>11. ASSUME req' = req, NEW a \in Algorithms, NEW n \in SUBSET Features,
              NEW P \in SUBSET Frames,
              \/ mm' = [mm EXCEPT !.alg = a]
              \/ mm' = [mm EXCEPT !.on = n]
              \/ mm' = [mm EXCEPT !.pinned = P]
       PROVE  IInv'
  <2>1. mm' \in State /\ mm'.history = mm.history /\ (Good(mm) => Good(mm'))
    BY <1>1, <1>11, SettingsEffect
  <2> QED BY <1>1, <1>2, <1>3, <1>11, <2>1 DEF NoBreach
<1>12. mm.alg \in Algorithms /\ mm.on \in SUBSET Features /\ mm.pinned \in SUBSET Frames
  BY <1>1 DEF State
<1>13. ASSUME NEW a \in Algs, SetAlgorithm(a) PROVE IInv'
  <2>1. a \in Algorithms BY CallersAssumption
  <2>2. mm' = [mm EXCEPT !.alg = a] /\ req' = req BY <1>13 DEF SetAlgorithm
  <2> QED BY <1>11, <1>12, <2>1, <2>2
<1>14. ASSUME NEW x \in Toggles, NEW b \in BOOLEAN, Enable(x, b) PROVE IInv'
  <2> DEFINE n == IF b THEN mm.on \cup {x} ELSE mm.on \ {x}
  <2>1. n \in SUBSET Features BY <1>12, CallersAssumption
  <2>2. mm' = [mm EXCEPT !.on = n] /\ req' = req BY <1>1, <1>14 DEF Enable, State
  <2> HIDE DEF n
  <2> QED BY <1>11, <1>12, <2>1, <2>2
<1>15. ASSUME NEW f \in Frames, NEW b \in BOOLEAN, SetPinned(f, b) PROVE IInv'
  <2> DEFINE P == IF b THEN mm.pinned \cup {f} ELSE mm.pinned \ {f}
  <2>1. P \in SUBSET Frames BY <1>12
  <2>2. mm' = [mm EXCEPT !.pinned = P] /\ req' = req BY <1>1, <1>15 DEF SetPinned, State
  <2> HIDE DEF P
  <2> QED BY <1>11, <1>12, <2>1, <2>2
<1>16. CASE Reset
  <2>1. mm' \in State /\ Good(mm') BY <1>1, <1>16, ResetEffect
  <2>2. req' = req BY <1>16 DEF Reset
  <2> QED BY <1>1, <1>3, <2>1, <2>2
<1>17. CASE UNCHANGED vars
  <2>1. mm' = mm /\ req' = req BY <1>17 DEF vars
  <2> QED BY <1>1, <1>2, <1>3, <2>1 DEF NoBreach
<1> QED
  BY <1>4, <1>5, <1>6, <1>7, <1>8, <1>9, <1>10, <1>13, <1>14, <1>15, <1>16, <1>17 DEF Next

\* Every field of the memory manager and every access in flight always has its type.
THEOREM TypeCorrect == Spec => []TypeOK
<1>1. IInv => TypeOK BY DEF IInv
<1> QED BY <1>1, InitIInv, NextIInv, PTL DEF Spec

\* The inductive invariant holds: until a breach happens the mappings are sound.
THEOREM Inductive == Spec => []IInv
  BY InitIInv, NextIInv, PTL DEF Spec

\* Whatever the number of processes, frames, pages and threads, the policy and the
\* features: until a breach, a frame with two users is marked shared in both.
THEOREM Isolated == Spec => []Isolation
<1>1. IInv => Isolation BY DEF IInv, Isolation, Good, SharedAlike, Maps
<1> QED BY <1>1, InitIInv, NextIInv, PTL DEF Spec

\* Until a breach, a page marked present is in a frame in use and its process lives.
THEOREM NoPageDangles == Spec => []NoDanglingPage
<1>1. IInv => NoDanglingPage BY DEF IInv, NoDanglingPage, Good, InUse, Maps
<1> QED BY <1>1, InitIInv, NextIInv, PTL DEF Spec

\* Until a breach, the TLB answers only with the frame the page table names.
THEOREM TLBIsCoherent == Spec => []TLBCoherent
<1>1. IInv => TLBCoherent BY DEF IInv, TLBCoherent, Good, Coherent, Maps
<1> QED BY <1>1, InitIInv, NextIInv, PTL DEF Spec

-----------------------------------------------------------------------------
(* What a removed process leaves behind *)

\* NothingLeftOfTheDead, of a state.
Clean(s) ==
    \A p \in Procs \ s.live :
        /\ \A v \in PageIDs : s.tlb[p][v] = NoFrame /\ p \notin s.sharers[v]
        /\ \A k \in s.clusters : k[1] # p
        /\ s.recent[p] = <<>>

\* State t is s after work for process p: of the other processes it may forget
\* TLB entries and sharers, and it learns nothing; it erases no history.
WorkFor(p, s, t) ==
    /\ t \in State /\ t.live = s.live /\ s.history \subseteq t.history
    /\ \A q \in Procs \ {p}, v \in PageIDs :
         /\ t.tlb[q][v] \in {NoFrame, s.tlb[q][v]}
         /\ q \in t.sharers[v] => q \in s.sharers[v]
    /\ \A k \in t.clusters : k[1] = p \/ k \in s.clusters
    /\ \A q \in Procs \ {p} : t.recent[q] = s.recent[q]

\* Work for a live process leaves nothing of a dead one.
LEMMA WorkKeepsClean ==
    ASSUME NEW s \in State, NEW t, NEW p \in s.live, WorkFor(p, s, t), Clean(s)
    PROVE  Clean(t)
<1> SUFFICES ASSUME NEW q \in Procs \ t.live
             PROVE  /\ \A v \in PageIDs : t.tlb[q][v] = NoFrame /\ q \notin t.sharers[v]
                    /\ \A k \in t.clusters : k[1] # q
                    /\ t.recent[q] = <<>>
  BY DEF Clean
<1>1. q \in Procs \ s.live /\ q # p /\ q \in Procs \ {p} BY DEF WorkFor
<1>2. /\ \A v \in PageIDs : s.tlb[q][v] = NoFrame /\ q \notin s.sharers[v]
      /\ \A k \in s.clusters : k[1] # q
      /\ s.recent[q] = <<>>
  BY <1>1 DEF Clean
<1> QED BY <1>1, <1>2 DEF WorkFor

\* Work for a process followed by work for it is work for it.
LEMMA WorkComposes ==
    ASSUME NEW p \in Procs, NEW s, NEW t, NEW u, WorkFor(p, s, t), WorkFor(p, t, u)
    PROVE  WorkFor(p, s, u)
<1>1. u \in State /\ u.live = s.live /\ s.history \subseteq u.history BY DEF WorkFor
<1>2. ASSUME NEW q \in Procs \ {p}, NEW v \in PageIDs
      PROVE  /\ u.tlb[q][v] \in {NoFrame, s.tlb[q][v]}
             /\ q \in u.sharers[v] => q \in s.sharers[v]
  BY DEF WorkFor
<1>3. \A k \in u.clusters : k[1] = p \/ k \in s.clusters BY DEF WorkFor
<1>4. \A q \in Procs \ {p} : u.recent[q] = s.recent[q] BY DEF WorkFor
<1> QED BY <1>1, <1>2, <1>3, <1>4 DEF WorkFor

\* Doing nothing is work.
LEMMA WorkStays ==
    ASSUME NEW p \in Procs, NEW s \in State PROVE WorkFor(p, s, s)
  BY DEF WorkFor

\* An operator that leaves the TLB, the registry, the clusters and the history alone.
LEMMA WorkElsewhere ==
    ASSUME NEW p \in Procs, NEW s \in State, NEW t \in State, t.live = s.live, t.tlb = s.tlb,
           t.sharers = s.sharers, t.clusters = s.clusters, t.recent = s.recent,
           s.history \subseteq t.history
    PROVE  WorkFor(p, s, t)
  BY DEF WorkFor

\* The operators of Paging work for the process they are given.  Its page table ...
LEMMA SetPageWork ==
    ASSUME NEW s \in State, NEW p \in Procs, NEW v \in PageIDs, NEW e \in Page
    PROVE  WorkFor(p, s, SetPage(s, p, v, e))
<1> DEFINE T == [s.pt EXCEPT ![p][v] = e]
           t == SetPage(s, p, v, e)
<1>1. t = [s EXCEPT !.pt = T] BY DEF SetPage, State
<1>2. /\ t \in State /\ t.live = s.live /\ t.tlb = s.tlb /\ t.sharers = s.sharers
      /\ t.history = s.history
  BY SetPageEffect
<1> HIDE DEF T, t
<1>3. t.clusters = s.clusters /\ t.recent = s.recent BY <1>1 DEF State
<1> QED BY <1>2, <1>3, WorkElsewhere DEF t

\* ... its TLB entries, where an insertion may drop another process's entry ...
LEMMA TLBInsertWork ==
    ASSUME NEW s \in State, NEW p \in Procs, NEW v \in PageIDs, NEW f \in Frames,
           NEW t \in TLBInsert(s, p, v, f)
    PROVE  WorkFor(p, s, t)
<1>1. PICK K : t = SetTLB(TLBDrop(s, K), p, v, f) BY DEF TLBInsert
<1> DEFINE d == TLBDrop(s, K)
           B == [q \in Procs |-> [w \in PageIDs |->
                    IF <<q, w>> \in K THEN NoFrame ELSE s.tlb[q][w]]]
           C == [d.tlb EXCEPT ![p][v] = f]
<1>2. d = [s EXCEPT !.tlb = B] BY DEF TLBDrop, State
<1> HIDE DEF B
<1>3. d.clusters = s.clusters /\ d.recent = s.recent BY <1>2 DEF State
<1>4. d \in State BY TLBDropEffect
<1> HIDE DEF d
<1>5. t = [d EXCEPT !.tlb = C] BY <1>1, <1>4 DEF SetTLB, State, d
<1> HIDE DEF C
<1>6. t.clusters = d.clusters /\ t.recent = d.recent BY <1>4, <1>5 DEF State
<1>7. /\ t \in State /\ t.live = s.live /\ t.sharers = s.sharers /\ t.history = s.history
      /\ \A q \in Procs, w \in PageIDs :
           IF q = p /\ w = v THEN t.tlb[q][w] = f ELSE t.tlb[q][w] \in {NoFrame, s.tlb[q][w]}
  BY TLBInsertEffect
<1> QED BY <1>3, <1>6, <1>7 DEF WorkFor

\* ... or an invalidation may ...
LEMMA TLBDropWork ==
    ASSUME NEW s \in State, NEW p \in Procs, NEW K
    PROVE  WorkFor(p, s, TLBDrop(s, K))
<1> DEFINE d == TLBDrop(s, K)
           B == [q \in Procs |-> [w \in PageIDs |->
                    IF <<q, w>> \in K THEN NoFrame ELSE s.tlb[q][w]]]
<1>1. d = [s EXCEPT !.tlb = B] BY DEF TLBDrop, State
<1>2. /\ d \in State /\ d.live = s.live /\ d.sharers = s.sharers /\ d.history = s.history
      /\ \A q \in Procs, w \in PageIDs : d.tlb[q][w] \in {NoFrame, s.tlb[q][w]}
  BY TLBDropEffect
<1> HIDE DEF B, d
<1>3. d.clusters = s.clusters /\ d.recent = s.recent BY <1>1 DEF State
<1> QED BY <1>2, <1>3 DEF WorkFor, d

\* ... its frames ...
LEMMA AllocateWork ==
    ASSUME NEW s \in State, NEW f \in Frames, NEW p \in Procs,
           NEW id \in PageIDs \cup HugeIDs
    PROVE  WorkFor(p, s, Allocate(s, f, p, id))
<1> DEFINE t == Allocate(s, f, p, id)
           O == [s.owner EXCEPT ![f] = OwnedBy(p, id)]
<1>1. t = [s EXCEPT !.owner = O, !.dirty = @ \ {f}] BY DEF Allocate, State
<1>2. /\ t \in State /\ t.live = s.live /\ t.tlb = s.tlb /\ t.sharers = s.sharers
      /\ t.history = s.history
  BY AllocateEffect
<1> HIDE DEF O, t
<1>3. t.clusters = s.clusters /\ t.recent = s.recent BY <1>1 DEF State
<1> QED BY <1>2, <1>3, WorkElsewhere DEF t

\* ... an eviction, which takes pages and TLB entries of any process ...
LEMMA EvictPagesWork ==
    ASSUME NEW s \in State, NEW p \in Procs, NEW F \in SUBSET Frames
    PROVE  WorkFor(p, s, EvictPages(s, F))
<1> DEFINE t == EvictPages(s, F)
<1>1. /\ t \in State /\ t.live = s.live /\ t.sharers = s.sharers
      /\ s.history \subseteq t.history
      /\ \A q \in Procs, w \in PageIDs :
           /\ t.pt[q][w] = IF Holds(s, F, q, w)
                           THEN [s.pt[q][w] EXCEPT !.frame = NoFrame] ELSE s.pt[q][w]
           /\ t.tlb[q][w] = IF Holds(s, F, q, w) THEN NoFrame ELSE s.tlb[q][w]
  BY EvictPagesEffect
<1> DEFINE T == [q \in Procs |-> [v \in PageIDs |->
                    IF Holds(s, F, q, v) THEN [s.pt[q][v] EXCEPT !.frame = NoFrame]
                                         ELSE s.pt[q][v]]]
           B == [q \in Procs |-> [v \in PageIDs |->
                    IF Holds(s, F, q, v) THEN NoFrame ELSE s.tlb[q][v]]]
           O == [f \in Frames |-> IF f \in F THEN NoOwner ELSE s.owner[f]]
           H == IF SoundEviction(s, F) THEN s.history ELSE s.history \cup {"evict"}
           Z == IF "compression" \in s.on
                THEN s.zip \cup {s.owner[f].page : f \in F \cap s.dirty} ELSE s.zip
<1>2. t = [s EXCEPT !.zip = Z, !.pt = T, !.tlb = B, !.owner = O, !.dirty = @ \ F, !.history = H]
  BY DEF EvictPages, CompressPage, State
<1> HIDE DEF T, B, O, H, Z, t
<1>3. t.clusters = s.clusters /\ t.recent = s.recent BY <1>2 DEF State
<1> QED BY <1>1, <1>3 DEF WorkFor, t

\* ... the search for a victim ...
LEMMA AfterScanWork ==
    ASSUME NEW s \in State, NEW p \in Procs, NEW c \in AfterScan(s)
    PROVE  WorkFor(p, s, c)
<1>1. c = s \/ \E D : c = [s EXCEPT !.dirty = @ \ D] BY DEF AfterScan
<1>2. c.clusters = s.clusters /\ c.recent = s.recent BY <1>1 DEF State
<1>3. /\ c \in State /\ c.live = s.live /\ c.tlb = s.tlb /\ c.sharers = s.sharers
      /\ c.history = s.history
  BY AfterScanEffect
<1> QED BY <1>2, <1>3, WorkElsewhere

\* ... and the two together, to obtain a frame.
LEMMA ObtainFrameWork ==
    ASSUME NEW s \in State, NEW p \in Procs, NEW id \in PageIDs \cup HugeIDs,
           NEW free \in SUBSET FreeFrames(s), NEW o \in ObtainFrame(s, free, p, id)
    PROVE  WorkFor(p, s, o.st)
<1>1. CASE free # {}
  <2>1. PICK f \in free : o = [frame |-> f, st |-> Allocate(s, f, p, id)]
    BY <1>1 DEF ObtainFrame
  <2>2. o.st = Allocate(s, f, p, id) /\ f \in Frames BY <2>1 DEF FreeFrames
  <2> QED BY <2>2, AllocateWork
<1>2. CASE free = {}
  <2>1. PICK c \in AfterScan(s) :
          \E f \in Evictable(c) :
            o = [frame |-> f, st |-> Allocate(EvictPages(c, {f}), f, p, id)]
    BY <1>2 DEF ObtainFrame
  <2>2. PICK f \in Evictable(c) :
          o = [frame |-> f, st |-> Allocate(EvictPages(c, {f}), f, p, id)]
    BY <2>1
  <2>3. c \in State /\ WorkFor(p, s, c) BY AfterScanWork, AfterScanEffect
  <2> DEFINE e == EvictPages(c, {f})
  <2>4. f \in Frames /\ {f} \in SUBSET Frames BY AllocationIsFree, <2>3
  <2>5. e \in State /\ WorkFor(p, c, e) BY <2>3, <2>4, EvictPagesWork DEF WorkFor
  <2>6. o.st = Allocate(e, f, p, id) BY <2>2
  <2> HIDE DEF e
  <2>7. WorkFor(p, e, o.st) BY <2>4, <2>5, <2>6, AllocateWork
  <2> QED BY <2>3, <2>5, <2>7, WorkComposes
<1> QED BY <1>1, <1>2

\* Mapping a page puts the TLB entry under the process that faulted.
LEMMA MapPageWork ==
    ASSUME NEW s \in State, NEW p \in Procs, NEW v \in PageIDs, NEW f \in Frames,
           s.pt[p][v].id # NoID, NEW t \in MapPage(s, p, v, f)
    PROVE  WorkFor(p, s, t)
<1> DEFINE e == [s.pt[p][v] EXCEPT !.frame = f]
           m == SetPage(s, p, v, e)
           id == s.pt[p][v].id
<1>1. e \in Page /\ id \in PageIDs BY EntryTypes DEF Page
<1>2. t \in TLBInsert(m, p, id, f) BY DEF MapPage
<1> HIDE DEF e, id
<1>3. m \in State /\ WorkFor(p, s, m) BY <1>1, SetPageWork DEF WorkFor
<1> HIDE DEF m
<1> QED BY <1>1, <1>2, <1>3, TLBInsertWork, WorkComposes

\* A page fault works for the process that faulted.
LEMMA LoadPageWork ==
    ASSUME NEW s \in State, NEW p \in Procs, NEW v \in PageIDs,
           s.pt[p][v].id # NoID, NEW t \in LoadPage(s, p, v)
    PROVE  WorkFor(p, s, t)
<1> DEFINE id == s.pt[p][v].id
           d == DecompressPage(s, id)
<1>1. id \in PageIDs BY EntryTypes
<1>2. PICK o \in ObtainFrame(d, AllocateFrameForPage(d, p), p, id) :
        t \in MapPage(o.st, p, v, o.frame)
  BY DEF LoadPage
<1> HIDE DEF id
<1>3. /\ d \in State /\ d.live = s.live /\ d.tlb = s.tlb /\ d.sharers = s.sharers
      /\ d.clusters = s.clusters /\ d.recent = s.recent /\ d.pt = s.pt /\ d.history = s.history
  BY DEF DecompressPage, State
<1> HIDE DEF d
<1>4. AllocateFrameForPage(d, p) \in SUBSET FreeFrames(d) BY <1>3, AllocationIsFree
<1>5. WorkFor(p, s, d) BY <1>3, WorkElsewhere
<1>6. WorkFor(p, d, o.st) BY <1>1, <1>2, <1>3, <1>4, ObtainFrameWork
<1>70. Obtained(d, p, id, o)
  <2> HIDE DEF id
  <2> QED BY <1>1, <1>2, <1>3, <1>4, ObtainFrameEffect
<1>7. /\ o.frame \in Frames /\ o.st \in State
      /\ \A q \in Procs, w \in PageIDs : o.st.pt[q][w].id = d.pt[q][w].id
  BY <1>70 DEF Obtained
<1>8. o.st.pt[p][v].id # NoID BY <1>3, <1>7
<1>9. WorkFor(p, o.st, t) BY <1>2, <1>7, <1>8, MapPageWork
<1> QED BY <1>5, <1>6, <1>9, WorkComposes

\* A copy on write deregisters the writer and nobody else ...
LEMMA DeregisterWork ==
    ASSUME NEW s \in State, NEW p \in Procs, NEW id \in PageIDs, s.copies < MaxCopies
    PROVE  WorkFor(p, s, Deregister(s, p, id))
<1> DEFINE S == [s.sharers EXCEPT ![id] = @ \ {p}]
           t == Deregister(s, p, id)
<1>1. \A w \in PageIDs : S[w] \subseteq s.sharers[w] BY FieldTypes
<1>2. t = [s EXCEPT !.sharers = S, !.copies = @ + 1] BY DEF Deregister, State
<1>3. t \in State /\ t.live = s.live /\ t.tlb = s.tlb /\ t.history = s.history
  BY DeregisterEffect
<1> HIDE DEF S, t
<1>4. t.sharers = S /\ t.clusters = s.clusters /\ t.recent = s.recent BY <1>2 DEF State
<1> QED BY <1>1, <1>3, <1>4 DEF WorkFor, t

\* ... taking ownership gives up the writer's reference ...
LEMMA TakeOwnershipWork ==
    ASSUME NEW s \in State, NEW p \in Procs, NEW v \in PageIDs, s.pt[p][v].id # NoID
    PROVE  WorkFor(p, s, TakeOwnership(s, p, v))
<1> DEFINE id == s.pt[p][v].id
           last == IF Cardinality(s.sharers[id]) <= 1 THEN {p} ELSE {}
           S == [s.sharers EXCEPT ![id] = @ \ last]
           m == [s EXCEPT !.sharers = S]
           e == [s.pt[p][v] EXCEPT !.shared = FALSE]
           t == TakeOwnership(s, p, v)
<1>0. s.pt[p][v] \in Page /\ id \in PageIDs BY EntryTypes
<1>1. e \in Page BY <1>0 DEF Page
<1>2. S \in [PageIDs -> SUBSET Procs] /\ \A w \in PageIDs : S[w] \subseteq s.sharers[w]
  BY FieldTypes
<1>3. t = SetPage(m, p, v, e) BY DEF TakeOwnership, State
<1> HIDE DEF S, e, t, last
<1>4. /\ m \in State /\ m.live = s.live /\ m.tlb = s.tlb /\ m.sharers = S
      /\ m.clusters = s.clusters /\ m.recent = s.recent /\ m.history = s.history
  BY <1>2 DEF State
<1>5. WorkFor(p, s, m) BY <1>2, <1>4 DEF WorkFor
<1> HIDE DEF m
<1>6. WorkFor(p, m, t) BY <1>1, <1>3, <1>4, SetPageWork
<1> QED BY <1>5, <1>6, WorkComposes DEF t

\* ... and the copy is the writer's.
LEMMA CopyPageWork ==
    ASSUME NEW s \in State, NEW p \in Procs, NEW v \in PageIDs,
           s.pt[p][v].id # NoID, s.copies < MaxCopies, NEW t \in CopyPage(s, p, v)
    PROVE  WorkFor(p, s, t)
<1> DEFINE id == s.pt[p][v].id
           new == CowBase + s.copies + 1
<1>1. id \in PageIDs /\ new \in PageIDs
  BY EntryTypes, FieldTypes, FreshIDs DEF PageIDs
<1>2. PICK o \in ObtainFrame(s, AllocateFrame(s), p, new) :
        t \in TLBInsert(TLBDrop(Deregister(SetPage(o.st, p, id,
                 [id |-> new, frame |-> o.frame, shared |-> FALSE]), p, id), {<<p, id>>}),
               p, id, o.frame)
  BY DEF CopyPage
<1> DEFINE x == o.st
           f == o.frame
           e == [id |-> new, frame |-> f, shared |-> FALSE]
           m == SetPage(x, p, id, e)
           n == Deregister(m, p, id)
           K == {<<p, id>>}
           d == TLBDrop(n, K)
<1>3. AllocateFrame(s) \in SUBSET FreeFrames(s) BY AllocationIsFree
<1> HIDE DEF new, id
<1>40. Obtained(s, p, new, o) BY <1>1, <1>2, <1>3, ObtainFrameEffect
<1>4. f \in Frames /\ x \in State /\ x.copies = s.copies
  BY <1>40 DEF Obtained
<1>5. WorkFor(p, s, x) BY <1>1, <1>2, <1>3, ObtainFrameWork
<1>6. t \in TLBInsert(d, p, id, f) BY <1>2
<1>7. e \in Page BY <1>1, <1>4 DEF Page
<1> HIDE DEF x, f, e
<1>8. m \in State /\ m.copies = x.copies BY <1>1, <1>4, <1>7, SetPageEffect
<1>9. WorkFor(p, x, m) BY <1>1, <1>4, <1>7, SetPageWork
<1> HIDE DEF m
<1>10. n \in State /\ WorkFor(p, m, n) BY <1>1, <1>4, <1>8, DeregisterWork DEF WorkFor
<1> HIDE DEF n, K
<1>11. d \in State /\ WorkFor(p, n, d) BY <1>10, TLBDropWork DEF WorkFor
<1> HIDE DEF d
<1>12. WorkFor(p, d, t) BY <1>1, <1>4, <1>6, <1>11, TLBInsertWork
<1>13. WorkFor(p, s, n) BY <1>5, <1>9, <1>10, WorkComposes
<1> QED BY <1>11, <1>12, <1>13, WorkComposes

\* A write to a shared page works for the writer, whether or not it succeeds.
LEMMA HandleCoWWork ==
    ASSUME NEW s \in State, NEW p \in Procs, NEW v \in PageIDs, s.pt[p][v].id # NoID,
           NEW t \in HandleCoW(s, p, v) \cup HandleCoWFails(s, p, v)
    PROVE  WorkFor(p, s, t)
<1> DEFINE id == s.pt[p][v].id
           d == Deregister(s, p, id)
<1>1. \/ t = TakeOwnership(s, p, v)
      \/ s.copies < MaxCopies /\ t \in CopyPage(s, p, v)
      \/ s.copies < MaxCopies /\ t = [d EXCEPT !.history = @ \cup {"copyFailed"}]
  BY DEF HandleCoW, HandleCoWFails
<1>2. CASE t = TakeOwnership(s, p, v) BY <1>2, TakeOwnershipWork
<1>3. CASE s.copies < MaxCopies /\ t \in CopyPage(s, p, v) BY <1>3, CopyPageWork
<1>4. CASE s.copies < MaxCopies /\ t = [d EXCEPT !.history = @ \cup {"copyFailed"}]
  <2>1. id \in PageIDs BY EntryTypes
  <2> HIDE DEF id
  <2>2. d \in State /\ WorkFor(p, s, d) BY <1>4, <2>1, DeregisterWork DEF WorkFor
  <2> HIDE DEF d
  <2>3. /\ t \in State /\ t.live = d.live /\ t.tlb = d.tlb /\ t.sharers = d.sharers
        /\ t.clusters = d.clusters /\ t.recent = d.recent /\ d.history \subseteq t.history
    BY <1>4, <2>2 DEF State, Breaches
  <2>4. WorkFor(p, d, t) BY <2>2, <2>3, WorkElsewhere
  <2> QED BY <2>2, <2>4, WorkComposes
<1> QED BY <1>1, <1>2, <1>3, <1>4

\* Trimming after a fault only takes away.
LEMMA EnforcePFFResidentWork ==
    ASSUME NEW s \in State, NEW p \in Procs, NEW t \in EnforcePFFResident(s)
    PROVE  WorkFor(p, s, t)
<1>1. t = s \/ \E F \in SUBSET Evictable(s) : t = EvictPages(s, F)
  BY DEF EnforcePFFResident
<1>2. CASE t = s BY <1>2, WorkStays
<1>3. ASSUME NEW F \in SUBSET Evictable(s), t = EvictPages(s, F) PROVE WorkFor(p, s, t)
  <2>1. F \in SUBSET Frames BY AllocationIsFree
  <2> QED BY <1>3, <2>1, EvictPagesWork
<1> QED BY <1>1, <1>2, <1>3

\* An entry is created in the table of the process that asks.
LEMMA GetOrCreatePageWork ==
    ASSUME NEW s \in State, NEW p \in Procs, NEW v \in PageIDs
    PROVE  WorkFor(p, s, GetOrCreatePage(s, p, v))
<1> DEFINE e == [NoPage EXCEPT !.id = v]
<1>1. e \in Page BY DEF Page, NoPage, NoFrame, NoID
<1>2. GetOrCreatePage(s, p, v) \in {s, SetPage(s, p, v, e)} BY DEF GetOrCreatePage
<1> HIDE DEF e
<1> QED BY <1>1, <1>2, WorkStays, SetPageWork

\* trackAccess records an access, and perhaps a cluster, of its own process.
LEMMA TrackAccessWork ==
    ASSUME NEW s \in State, NEW p \in Procs, NEW v \in 0 .. MaxVirtual
    PROVE  WorkFor(p, s, TrackAccess(s, p, v))
<1> DEFINE q == LastThree(Append(s.recent[p], v))
           R == [s.recent EXCEPT ![p] = q]
           C == IF DetectSequential(q) THEN s.clusters \cup {<<p, q[1]>>} ELSE s.clusters
           t == TrackAccess(s, p, v)
<1>1. t \in State /\ t.live = s.live /\ t.history = s.history BY TrackAccessEffect
<1>2. t = s \/ t = [s EXCEPT !.recent = R, !.clusters = C] BY DEF TrackAccess, State
<1>3. s.recent \in [Procs -> Seq(0 .. MaxVirtual)] BY DEF State
<1> HIDE DEF q
<1>4. \A r \in Procs \ {p} : R[r] = s.recent[r] BY <1>3
<1>5. \A k \in C : k[1] = p \/ k \in s.clusters OBVIOUS
<1> HIDE DEF R, C, t
<1>6. CASE t = [s EXCEPT !.recent = R, !.clusters = C]
  <2>1. t.recent = R /\ t.clusters = C /\ t.tlb = s.tlb /\ t.sharers = s.sharers
    BY <1>6 DEF State
  <2> QED BY <1>1, <1>4, <1>5, <2>1 DEF WorkFor, t
<1>7. CASE t = s BY <1>7, WorkStays DEF t
<1> QED BY <1>2, <1>6, <1>7

\* Prefetching works for the process whose fault started it ...
LEMMA PrefetchOneWork ==
    ASSUME NEW s \in State, NEW p \in Procs, NEW t \in PrefetchOne(s, p)
    PROVE  WorkFor(p, s, t)
<1>1. \/ t = s
      \/ \E v \in PageIDs :
           LET c == GetOrCreatePage(s, p, v)
           IN  \/ t = c
               \/ \E f \in AllocateFrameForPage(c, p) :
                    t \in MapPage(Allocate(c, f, p, c.pt[p][v].id), p, v, f)
  BY PrefetchPagesType DEF PrefetchOne, First
<1>2. CASE t = s BY <1>2, WorkStays
<1>3. ASSUME NEW v \in PageIDs, NEW c, c = GetOrCreatePage(s, p, v),
             \/ t = c
             \/ \E f \in AllocateFrameForPage(c, p) :
                   t \in MapPage(Allocate(c, f, p, c.pt[p][v].id), p, v, f)
      PROVE  WorkFor(p, s, t)
  <2> DEFINE g == GetOrCreatePage(s, p, v)
  <2>1. g \in State /\ g.pt[p][v].id # NoID BY GetOrCreatePageEffect
  <2>2. c \in State /\ c.pt[p][v].id # NoID BY <1>3, <2>1
  <2>3. WorkFor(p, s, c) BY <1>3, GetOrCreatePageWork
  <2>4. CASE t = c BY <2>3, <2>4
  <2>5. ASSUME NEW f \in AllocateFrameForPage(c, p),
               t \in MapPage(Allocate(c, f, p, c.pt[p][v].id), p, v, f)
        PROVE  WorkFor(p, s, t)
    <3> DEFINE id == c.pt[p][v].id
               a == Allocate(c, f, p, id)
    <3>1. f \in Frames BY <2>2, AllocationIsFree
    <3>2. id \in PageIDs BY <2>2, EntryTypes
    <3>3. t \in MapPage(a, p, v, f) BY <2>5
    <3>4. id # NoID BY <2>2
    <3>4a. c.pt[p][v].id = id OBVIOUS
    <3> HIDE DEF id
    <3>5. a \in State /\ a.pt = c.pt BY <2>2, <3>1, <3>2, AllocateEffect
    <3>6. WorkFor(p, c, a) BY <2>2, <3>1, <3>2, AllocateWork
    <3> HIDE DEF a
    <3>7. WorkFor(p, a, t) BY <3>1, <3>3, <3>4, <3>4a, <3>5, MapPageWork
    <3> QED BY <2>3, <3>6, <3>7, WorkComposes
  <2> QED BY <1>3, <2>4, <2>5
<1> QED BY <1>1, <1>2, <1>3

\* ... in both rounds.
LEMMA TryPrefetchWork ==
    ASSUME NEW s \in State, NEW p \in Procs, NEW t \in TryPrefetch(s, p)
    PROVE  WorkFor(p, s, t)
<1>1. t = s \/ \E u \in PrefetchOne(s, p) : t \in PrefetchOne(u, p) BY DEF TryPrefetch
<1>2. CASE t = s BY <1>2, WorkStays
<1>3. ASSUME NEW u \in PrefetchOne(s, p), t \in PrefetchOne(u, p) PROVE WorkFor(p, s, t)
  <2>1. WorkFor(p, s, u) BY PrefetchOneWork
  <2>2. u \in State BY <2>1 DEF WorkFor
  <2>3. WorkFor(p, u, t) BY <1>3, <2>2, PrefetchOneWork
  <2> QED BY <2>1, <2>3, WorkComposes
<1> QED BY <1>1, <1>2, <1>3

\* The second locked section of an access works for the process of the request.
LEMMA AccessWork ==
    ASSUME NEW m \in State, NEW r \in Request, NEW t,
           LET s == Locate(m, r)
           IN  \/ IsPresent(s, r) /\ t \in HitOutcomes(s, r)
               \/ ~IsPresent(s, r) /\ t \in FaultOutcomes(s, r) \cup ErrorOutcomes(s, r)
    PROVE  WorkFor(r.proc, m, t)
<1> DEFINE p == r.proc
           v == r.page
           k == TrackAccess(m, p, v)
           s == GetOrCreatePage(k, p, v)
<1>0. \/ IsPresent(s, r) /\ t \in HitOutcomes(s, r)
      \/ ~IsPresent(s, r) /\ t \in FaultOutcomes(s, r) \cup ErrorOutcomes(s, r)
  BY DEF Locate
<1>1. p \in Procs /\ v \in 0 .. MaxVirtual /\ v \in PageIDs BY FreshIDs DEF Request
<1>1a. r.proc = p /\ r.page = v OBVIOUS
<1> HIDE DEF p, v
<1>2. k \in State /\ WorkFor(p, m, k) BY <1>1, TrackAccessWork DEF WorkFor
<1> HIDE DEF k
<1>3. s \in State /\ s.pt[p][v].id # NoID BY <1>1, <1>2, GetOrCreatePageEffect
<1>4. WorkFor(p, k, s) BY <1>1, <1>2, GetOrCreatePageWork
<1> HIDE DEF s
<1>5. WorkFor(p, m, s) BY <1>1, <1>2, <1>4, WorkComposes
<1>6. ASSUME NEW l \in LoadPage(s, p, v)
      PROVE  l \in State /\ l.pt[p][v].id # NoID /\ WorkFor(p, s, l)
  BY <1>1, <1>3, LoadPageEffect, LoadPageWork
<1>7. ASSUME IsPresent(s, r), t \in HitOutcomes(s, r) PROVE WorkFor(p, s, t)
  <2> DEFINE f == s.pt[p][v].frame
             a == OnPageAccess(s, f, r.write)
  <2>1. f \in Frames
    <3>1. f \in Frames \cup {NoFrame} BY <1>1, <1>3, EntryTypes
    <3> QED BY <1>1a, <1>7, <3>1 DEF IsPresent
  <2>2. PICK h \in TLBInsert(a, p, v, f) :
          t \in IF WritesShared(h, r) THEN HandleCoW(h, p, v) \cup HandleCoWFails(h, p, v) ELSE {h}
    BY <1>1a, <1>7 DEF HitOutcomes
  <2> HIDE DEF f
  <2>3. /\ a \in State /\ a.live = s.live /\ a.tlb = s.tlb /\ a.sharers = s.sharers
        /\ a.clusters = s.clusters /\ a.recent = s.recent /\ a.pt = s.pt /\ a.history = s.history
    BY <1>3, <2>1 DEF OnPageAccess, State
  <2> HIDE DEF a
  <2>4. WorkFor(p, s, a) BY <1>1, <1>3, <2>3, WorkElsewhere
  <2>5. WorkFor(p, a, h) BY <1>1, <2>1, <2>3, TLBInsertWork
  <2>6. h \in State /\ h.pt = a.pt BY <1>1, <2>1, <2>3, TLBInsertEffect
  <2>7. h.pt[p][v].id # NoID BY <1>3, <2>3, <2>6
  <2>8. WorkFor(p, h, t)
    <3>1. t = h \/ t \in HandleCoW(h, p, v) \cup HandleCoWFails(h, p, v) BY <2>2
    <3> QED BY <1>1, <2>6, <2>7, <3>1, HandleCoWWork, WorkStays
  <2> QED BY <1>1, <2>4, <2>5, <2>8, WorkComposes
<1>8. ASSUME ~IsPresent(s, r), t \in FaultOutcomes(s, r) PROVE WorkFor(p, s, t)
  <2>1. PICK l \in LoadPage(s, p, v) :
          \E x \in (IF WritesShared(l, r) THEN HandleCoW(l, p, v) ELSE {l}) :
            \E y \in EnforcePFFResident(x) : t \in TryPrefetch(y, p)
    BY <1>1a, <1>8 DEF FaultOutcomes
  <2>2. PICK x \in (IF WritesShared(l, r) THEN HandleCoW(l, p, v) ELSE {l}) :
          \E y \in EnforcePFFResident(x) : t \in TryPrefetch(y, p)
    BY <2>1
  <2>3. PICK y \in EnforcePFFResident(x) : t \in TryPrefetch(y, p) BY <2>2
  <2>4. l \in State /\ l.pt[p][v].id # NoID /\ WorkFor(p, s, l) BY <1>6
  <2>5. x = l \/ x \in HandleCoW(l, p, v) \cup HandleCoWFails(l, p, v) BY <2>2
  <2>6. WorkFor(p, l, x) BY <1>1, <2>4, <2>5, HandleCoWWork, WorkStays
  <2>7. x \in State BY <2>6 DEF WorkFor
  <2>8. WorkFor(p, x, y) BY <1>1, <2>7, EnforcePFFResidentWork
  <2>9. y \in State BY <2>8 DEF WorkFor
  <2>10. WorkFor(p, y, t) BY <1>1, <2>3, <2>9, TryPrefetchWork
  <2>11. WorkFor(p, s, x) BY <1>1, <2>4, <2>6, WorkComposes
  <2>12. WorkFor(p, x, t) BY <1>1, <2>8, <2>10, WorkComposes
  <2> QED BY <1>1, <2>11, <2>12, WorkComposes
<1>9. ASSUME ~IsPresent(s, r), t \in ErrorOutcomes(s, r) PROVE WorkFor(p, s, t)
  <2>1. t = s \/ \E l \in LoadPage(s, p, v) : t \in HandleCoWFails(l, p, v)
    BY <1>1a, <1>3, <1>9, RestoreExact DEF ErrorOutcomes
  <2>2. CASE t = s BY <1>1, <1>3, <2>2, WorkStays
  <2>3. ASSUME NEW l \in LoadPage(s, p, v), t \in HandleCoWFails(l, p, v) PROVE WorkFor(p, s, t)
    <3>1. l \in State /\ l.pt[p][v].id # NoID /\ WorkFor(p, s, l) BY <1>6
    <3>2. WorkFor(p, l, t) BY <1>1, <2>3, <3>1, HandleCoWWork
    <3> QED BY <1>1, <3>1, <3>2, WorkComposes
  <2> QED BY <2>1, <2>2, <2>3
<1>10. WorkFor(p, s, t) BY <1>0, <1>7, <1>8, <1>9
<1> QED BY <1>1, <1>1a, <1>5, <1>10, WorkComposes

\* Every step leaves the dead without remains: RemoveProcess clears them, and a thread
\* that was between its two locked sections finds the process gone (AccessGone).
LEMMA NextClean ==
    ASSUME IInv, Clean(mm), [Next]_vars
    PROVE  Clean(mm')
<1>1. mm \in State /\ req \in [Threads -> Request \cup {Idle}] BY DEF IInv, TypeOK
<1>3. ASSUME NEW p \in Procs, CreateProcess(p) PROVE Clean(mm')
  <2> DEFINE T == [mm.pt EXCEPT ![p] = [v \in PageIDs |-> NoPage]]
             R == [mm.recent EXCEPT ![p] = <<>>]
             H == [mm.huge EXCEPT ![p] = [i \in HugeIdx |-> NoFrame]]
  <2>1. mm' = [mm EXCEPT !.live = @ \cup {p}, !.pt = T, !.recent = R, !.huge = H]
    BY <1>1, <1>3 DEF CreateProcess, State
  <2>2. \A q \in Procs : q # p => R[q] = mm.recent[q] BY <1>1 DEF State
  <2> HIDE DEF T, R, H
  <2>3. /\ mm'.live = mm.live \cup {p} /\ mm'.recent = R /\ mm'.tlb = mm.tlb
        /\ mm'.sharers = mm.sharers /\ mm'.clusters = mm.clusters
    BY <1>1, <2>1 DEF State
  <2> QED BY <2>2, <2>3 DEF Clean
<1>4. ASSUME NEW p \in Procs, RemoveProcess(p) PROVE Clean(mm')
  <2> DEFINE gone == MappedFrames(mm, p)
             O == [f \in Frames |-> IF f \in gone THEN NoOwner ELSE mm.owner[f]]
             T == [mm.pt EXCEPT ![p] = [v \in PageIDs |-> NoPage]]
             B == [mm.tlb EXCEPT ![p] = [v \in PageIDs |-> NoFrame]]
             S == [id \in PageIDs |-> mm.sharers[id] \ {p}]
             G == [mm.huge EXCEPT ![p] = [i \in HugeIdx |-> NoFrame]]
             R == [mm.recent EXCEPT ![p] = <<>>]
             C == {k \in mm.clusters : k[1] # p}
             H == IF MapsSharedFrame(mm, p) THEN mm.history \cup {"remove"} ELSE mm.history
  <2>1. mm' = [mm EXCEPT !.live = @ \ {p}, !.owner = O, !.dirty = @ \ gone, !.pt = T,
                         !.tlb = B, !.sharers = S, !.huge = G, !.recent = R,
                         !.clusters = C, !.history = H]
    BY <1>1, <1>4 DEF RemoveProcess, State
  <2>2. \A q \in Procs, v \in PageIDs :
          /\ B[q][v] = IF q = p THEN NoFrame ELSE mm.tlb[q][v]
          /\ q \in S[v] => q # p /\ q \in mm.sharers[v]
    BY <1>1, FieldTypes DEF TLBs
  <2>3. \A q \in Procs : R[q] = IF q = p THEN <<>> ELSE mm.recent[q] BY <1>1 DEF State
  <2>4. \A k \in C : k \in mm.clusters /\ k[1] # p OBVIOUS
  <2> HIDE DEF gone, O, T, B, S, G, R, C, H
  <2>5. /\ mm'.live = mm.live \ {p} /\ mm'.recent = R /\ mm'.tlb = B
        /\ mm'.sharers = S /\ mm'.clusters = C
    BY <1>1, <2>1 DEF State
  <2> SUFFICES ASSUME NEW q \in Procs \ mm'.live
               PROVE  /\ \A v \in PageIDs : mm'.tlb[q][v] = NoFrame /\ q \notin mm'.sharers[v]
                      /\ \A k \in mm'.clusters : k[1] # q
                      /\ mm'.recent[q] = <<>>
    BY DEF Clean
  <2>6. q = p \/ q \in Procs \ mm.live BY <2>5
  <2> QED BY <2>2, <2>3, <2>4, <2>5, <2>6 DEF Clean
<1>5. ASSUME NEW p \in Procs, NEW c \in Procs, ForkProcess(p, c) PROVE Clean(mm')
  <2> DEFINE table == mm.pt[p]
             T == [mm.pt EXCEPT ![c] = Clone(table), ![p] = MakeShared(table)]
             S == [id \in PageIDs |-> IF id \in PresentIDs(table) THEN mm.sharers[id] \cup {p, c}
                                                                  ELSE mm.sharers[id]]
             G == [mm.huge EXCEPT ![c] = [i \in HugeIdx |-> NoFrame]]
             R == [mm.recent EXCEPT ![c] = <<>>]
             H == mm.history \cup {"fork"} \cup (IF HoldsCopy(table) THEN {"refork"} ELSE {})
  <2>1. mm' = [mm EXCEPT !.live = @ \cup {c}, !.pt = T, !.sharers = S, !.huge = G,
                         !.recent = R, !.history = H]
    BY <1>1, <1>5 DEF ForkProcess, State
  <2>2. p \in mm.live BY <1>5 DEF ForkProcess
  <2>3. \A q \in Procs, v \in PageIDs : q \in S[v] => q \in {p, c} \/ q \in mm.sharers[v]
    BY <1>1, FieldTypes
  <2>4. \A q \in Procs : q # c => R[q] = mm.recent[q] BY <1>1 DEF State
  <2> HIDE DEF T, S, G, R, H
  <2>5. /\ mm'.live = mm.live \cup {c} /\ mm'.recent = R /\ mm'.tlb = mm.tlb
        /\ mm'.sharers = S /\ mm'.clusters = mm.clusters
    BY <1>1, <2>1 DEF State
  <2> QED BY <2>2, <2>3, <2>4, <2>5 DEF Clean
<1>6. ASSUME NEW t \in Threads, AccessHit(t) \/ AccessFault(t) \/ AccessError(t)
      PROVE  Clean(mm')
  <2> DEFINE r == req[t]
             s == Locate(mm, r)
  <2>1. r \in Request /\ r.proc \in mm.live
    BY <1>1, <1>6 DEF AccessHit, AccessFault, AccessError, Pending
  <2>2. \/ IsPresent(s, r) /\ mm' \in HitOutcomes(s, r)
        \/ ~IsPresent(s, r) /\ mm' \in FaultOutcomes(s, r) \cup ErrorOutcomes(s, r)
    BY <1>6 DEF AccessHit, AccessFault, AccessError
  <2> HIDE DEF r
  <2>3. WorkFor(r.proc, mm, mm') BY <1>1, <2>1, <2>2, AccessWork
  <2> QED BY <1>1, <2>1, <2>3, WorkKeepsClean
<1>7. ASSUME NEW p \in Procs, NEW i \in HugeIdx, MapHugePage(p, i) PROVE Clean(mm')
  <2> DEFINE id == HugeBase + i
  <2>1. PICK o \in ObtainFrame(mm, AllocateFrameForPage(mm, p), p, id) :
          Named(mm', o, p, i)
    BY <1>7 DEF MapHugePage, Named
  <2>2. AllocateFrameForPage(mm, p) \in SUBSET FreeFrames(mm) BY <1>1, AllocationIsFree
  <2>3. id \in PageIDs \cup HugeIDs BY FreshIDs
  <2>4. p \in mm.live BY <1>7 DEF MapHugePage
  <2> HIDE DEF id
  <2> DEFINE x == o.st
  <2>5. x \in State /\ WorkFor(p, mm, x) BY <1>1, <2>1, <2>2, <2>3, ObtainFrameWork DEF WorkFor
  <2>6. o.frame \in Frames BY <1>1, <2>1, <2>2, <2>3, ObtainFrameEffect DEF Obtained
  <2>7. /\ mm'.live = x.live /\ mm'.tlb = x.tlb /\ mm'.sharers = x.sharers
        /\ mm'.clusters = x.clusters /\ mm'.recent = x.recent
    BY <2>1, <2>5, <2>6, NamedEffect
  <2> HIDE DEF x
  <2>8. Clean(x) BY <1>1, <2>4, <2>5, WorkKeepsClean
  <2> QED BY <2>7, <2>8 DEF Clean
<1>8. ASSUME NEW a, NEW n, NEW P,
             \/ mm' = mm
             \/ mm' = [mm EXCEPT !.alg = a]
             \/ mm' = [mm EXCEPT !.on = n]
             \/ mm' = [mm EXCEPT !.pinned = P]
      PROVE  Clean(mm')
  <2>1. /\ mm'.live = mm.live /\ mm'.tlb = mm.tlb /\ mm'.sharers = mm.sharers
        /\ mm'.clusters = mm.clusters /\ mm'.recent = mm.recent
    BY <1>1, <1>8 DEF State
  <2> QED BY <2>1 DEF Clean
<1>9. CASE Reset
  <2>1. /\ mm'.tlb = [p \in Procs |-> [v \in PageIDs |-> NoFrame]]
        /\ mm'.sharers = [v \in PageIDs |-> {}]
        /\ mm'.clusters = {} /\ mm'.recent = [p \in Procs |-> <<>>]
    BY <1>9 DEF Reset, NewMemoryManager
  <2> QED BY <2>1 DEF Clean
<1>10. ASSUME NEW x \in Toggles, NEW b \in BOOLEAN, Enable(x, b) PROVE Clean(mm')
  <2> DEFINE n == IF b THEN mm.on \cup {x} ELSE mm.on \ {x}
  <2>1. mm' = [mm EXCEPT !.on = n] BY <1>1, <1>10 DEF Enable, State
  <2> HIDE DEF n
  <2> QED BY <1>8, <2>1
<1>11. ASSUME NEW f \in Frames, NEW b \in BOOLEAN, SetPinned(f, b) PROVE Clean(mm')
  <2> DEFINE P == IF b THEN mm.pinned \cup {f} ELSE mm.pinned \ {f}
  <2>1. mm' = [mm EXCEPT !.pinned = P] BY <1>1, <1>11 DEF SetPinned, State
  <2> HIDE DEF P
  <2> QED BY <1>8, <2>1
<1>12. ASSUME NEW a \in Algs, SetAlgorithm(a) PROVE Clean(mm')
  BY <1>8, <1>12 DEF SetAlgorithm
<1>13. ASSUME NEW t \in Threads, AccessGone(t) PROVE Clean(mm')
  BY <1>8, <1>13 DEF AccessGone
<1>14. ASSUME NEW t \in Threads, NEW p \in Procs, NEW v \in 0 .. MaxVirtual, NEW w \in BOOLEAN,
              AccessFast(t, p, v, w)
       PROVE  Clean(mm')
  BY <1>8, <1>14 DEF AccessFast
<1>15. CASE UNCHANGED vars BY <1>8, <1>15 DEF vars
<1> QED
  BY <1>3, <1>4, <1>5, <1>6, <1>7, <1>9, <1>10, <1>11, <1>12, <1>13, <1>14, <1>15 DEF Next

\* A process that is not registered has no TLB entry, shares no page, anchors no cluster
\* and has no access history, whatever was in flight when RemoveProcess took it away.
THEOREM NothingRemains == Spec => []NothingLeftOfTheDead
<1> DEFINE J == IInv /\ Clean(mm)
<1>1. Init => J
  <2>1. Init => Clean(mm) BY DEF Init, NewMemoryManager, Clean
  <2> QED BY <2>1, InitIInv
<1>2. J /\ [Next]_vars => J' BY NextIInv, NextClean DEF Clean
<1>3. J => NothingLeftOfTheDead BY DEF Clean, NothingLeftOfTheDead
<1> QED BY <1>1, <1>2, <1>3, PTL DEF Spec

-----------------------------------------------------------------------------
(* Without forks the page tables and the frame table are inverse *)

\* The frames record exactly what the page tables map.
Mutual(s) ==
    \A p \in Procs, v \in PageIDs, f \in Frames :
        s.owner[f] = OwnedBy(p, v) <=> s.pt[p][v].frame = f

\* No page is shared, none is a copy, and pages in memory belong to the living.
Plain(s) ==
    \A p \in Procs, v \in PageIDs :
        /\ ~s.pt[p][v].shared /\ s.pt[p][v].id \in {NoID, v}
        /\ s.pt[p][v].frame # NoFrame => p \in s.live /\ s.pt[p][v].id # NoID

Agree(s) == s.history = {} /\ Plain(s) /\ Mutual(s)

\* An operator that leaves the mappings alone.
LEMMA AgreeElsewhere ==
    ASSUME NEW s, NEW t, Agree(s), t.live = s.live, t.pt = s.pt, t.owner = s.owner,
           t.history = s.history
    PROVE  Agree(t)
  BY DEF Agree, Plain, Mutual

\* Two pages are recorded alike only if they are the same.
LEMMA OwnedByInjective ==
    \A p, q, v, w : OwnedBy(p, v) = OwnedBy(q, w) <=> p = q /\ v = w
  BY DEF OwnedBy

\* Evicting any frames keeps the tables inverse: no eviction is unsound.
LEMMA EvictPagesAgree ==
    ASSUME NEW s \in State, Agree(s), NEW F \in SUBSET Frames
    PROVE  Agree(EvictPages(s, F))
<1> DEFINE t == EvictPages(s, F)
           H == IF SoundEviction(s, F) THEN s.history ELSE s.history \cup {"evict"}
<1>1. /\ t \in State
      /\ \A q \in Procs, w \in PageIDs :
           /\ t.pt[q][w] = IF Holds(s, F, q, w)
                           THEN [s.pt[q][w] EXCEPT !.frame = NoFrame] ELSE s.pt[q][w]
           /\ t.tlb[q][w] = IF Holds(s, F, q, w) THEN NoFrame ELSE s.tlb[q][w]
      /\ \A g \in Frames : t.owner[g] = IF g \in F THEN NoOwner ELSE s.owner[g]
      /\ t.live = s.live
  BY EvictPagesEffect
<1>2. t.history = H BY DEF EvictPages, State
<1> HIDE DEF t
<1>3. \A q \in Procs, w \in PageIDs :
        Holds(s, F, q, w) <=> s.pt[q][w].frame \in F
  BY DEF Holds, Agree, Mutual
<1>4. SoundEviction(s, F)
  BY DEF SoundEviction, Agree, Mutual
<1>5. t.history = {} BY <1>2, <1>4 DEF Agree
<1>6. ASSUME NEW q \in Procs, NEW w \in PageIDs
      PROVE  /\ t.pt[q][w].frame = IF s.pt[q][w].frame \in F THEN NoFrame ELSE s.pt[q][w].frame
             /\ t.pt[q][w].id = s.pt[q][w].id
             /\ t.pt[q][w].shared = s.pt[q][w].shared
  <2>1. s.pt[q][w] \in Page BY EntryTypes
  <2>2. CASE Holds(s, F, q, w)
    <3>1. t.pt[q][w] = [s.pt[q][w] EXCEPT !.frame = NoFrame] BY <1>1, <2>2
    <3>2. s.pt[q][w].frame \in F BY <1>3, <2>2
    <3> QED BY <2>1, <3>1, <3>2 DEF Page
  <2>3. CASE ~Holds(s, F, q, w)
    <3>1. t.pt[q][w] = s.pt[q][w] BY <1>1, <2>3
    <3>2. s.pt[q][w].frame \notin F BY <1>3, <2>3
    <3> QED BY <3>1, <3>2
  <2> QED BY <2>2, <2>3
<1>7. Plain(t)
  <2> SUFFICES ASSUME NEW q \in Procs, NEW w \in PageIDs
               PROVE  /\ ~t.pt[q][w].shared /\ t.pt[q][w].id \in {NoID, w}
                      /\ t.pt[q][w].frame # NoFrame => q \in t.live /\ t.pt[q][w].id # NoID
    BY DEF Plain
  <2>1. /\ ~s.pt[q][w].shared /\ s.pt[q][w].id \in {NoID, w}
        /\ s.pt[q][w].frame # NoFrame => q \in s.live /\ s.pt[q][w].id # NoID
    BY DEF Agree, Plain
  <2> QED BY <1>1, <1>6, <2>1
<1>8. Mutual(t)
  <2> SUFFICES ASSUME NEW q \in Procs, NEW w \in PageIDs, NEW g \in Frames
               PROVE  t.owner[g] = OwnedBy(q, w) <=> t.pt[q][w].frame = g
    BY DEF Mutual
  <2>1. s.owner[g] = OwnedBy(q, w) <=> s.pt[q][w].frame = g BY DEF Agree, Mutual
  <2>2. NoFrame \notin Frames BY FreshIDs
  <2>3. OwnedBy(q, w) # NoOwner BY OwnedByIsOwner
  <2> QED BY <1>1, <1>6, <2>1, <2>2, <2>3
<1> QED BY <1>5, <1>7, <1>8 DEF Agree, t

\* ObtainFrame allocates a frame that is free in a state that still agrees; that
\* state has the entries of the first one, but for some that are evicted.
LEMMA ObtainFrameAgree ==
    ASSUME NEW s \in State, Agree(s), NEW p \in Procs, NEW id \in PageIDs \cup HugeIDs,
           NEW free \in SUBSET FreeFrames(s), NEW o \in ObtainFrame(s, free, p, id)
    PROVE  \E e \in State :
             /\ Agree(e) /\ e.live = s.live /\ s.zip \subseteq e.zip /\ e.alg = s.alg
             /\ o.frame \in Frames /\ e.owner[o.frame] = NoOwner
             /\ o.st = Allocate(e, o.frame, p, id)
             /\ \A q \in Procs, w \in PageIDs :
                  /\ e.pt[q][w].id = s.pt[q][w].id
                  /\ e.pt[q][w].frame \in {s.pt[q][w].frame, NoFrame}
<1>1. CASE free # {}
  <2>1. PICK f \in free : o = [frame |-> f, st |-> Allocate(s, f, p, id)]
    BY <1>1 DEF ObtainFrame
  <2>2. o.frame = f /\ o.st = Allocate(s, f, p, id) /\ f \in Frames /\ s.owner[f] = NoOwner
    BY <2>1 DEF FreeFrames
  <2> QED BY <2>2
<1>2. CASE free = {}
  <2>1. PICK c \in AfterScan(s) :
          \E f \in Evictable(c) :
            o = [frame |-> f, st |-> Allocate(EvictPages(c, {f}), f, p, id)]
    BY <1>2 DEF ObtainFrame
  <2>2. PICK f \in Evictable(c) :
          o = [frame |-> f, st |-> Allocate(EvictPages(c, {f}), f, p, id)]
    BY <2>1
  <2>3. /\ c \in State /\ c.pt = s.pt /\ c.owner = s.owner /\ c.live = s.live
        /\ c.history = s.history
    BY AfterScanEffect
  <2>4. c.zip = s.zip /\ c.alg = s.alg
    <3>1. c = s \/ \E D : c = [s EXCEPT !.dirty = @ \ D] BY DEF AfterScan
    <3> QED BY <3>1 DEF State
  <2>5. Agree(c) BY <2>3, AgreeElsewhere
  <2> DEFINE e == EvictPages(c, {f})
  <2>6. f \in Frames /\ {f} \in SUBSET Frames BY AllocationIsFree, <2>3
  <2>7. /\ e \in State /\ e.live = c.live
        /\ \A q \in Procs, w \in PageIDs :
             e.pt[q][w] \in {c.pt[q][w], [c.pt[q][w] EXCEPT !.frame = NoFrame]}
        /\ \A g \in Frames : e.owner[g] = IF g \in {f} THEN NoOwner ELSE c.owner[g]
    BY <2>3, <2>6, EvictPagesEffect
  <2>8. Agree(e) BY <2>3, <2>5, <2>6, EvictPagesAgree
  <2>9. c.zip \subseteq e.zip /\ e.alg = c.alg
    <3>1. e.zip = CompressPage(c, {f}) /\ e.alg = c.alg BY <2>3 DEF EvictPages, State
    <3> QED BY <3>1 DEF CompressPage
  <2>10. o.frame = f /\ o.st = Allocate(e, f, p, id) BY <2>2
  <2> HIDE DEF e
  <2>11. ASSUME NEW q \in Procs, NEW w \in PageIDs
        PROVE  /\ e.pt[q][w].frame \in {s.pt[q][w].frame, NoFrame}
               /\ e.pt[q][w].id = s.pt[q][w].id
    <3>1. PICK a : a = s.pt[q][w] OBVIOUS
    <3>2. a \in Page BY <3>1, EntryTypes
    <3>3. e.pt[q][w] \in {a, [a EXCEPT !.frame = NoFrame]} BY <2>3, <2>7, <3>1
    <3>4. e.pt[q][w].frame \in {a.frame, NoFrame} /\ e.pt[q][w].id = a.id
      BY <3>2, <3>3 DEF Page
    <3> QED BY <3>1, <3>4
  <2>12. e.owner[f] = NoOwner BY <2>6, <2>7
  <2>13. e \in State /\ Agree(e) /\ e.live = s.live /\ s.zip \subseteq e.zip /\ e.alg = s.alg
    BY <2>3, <2>4, <2>7, <2>8, <2>9
  <2>14. o.frame \in Frames /\ e.owner[o.frame] = NoOwner /\ o.st = Allocate(e, o.frame, p, id)
    BY <2>6, <2>10, <2>12
  <2> QED BY <2>11, <2>13, <2>14
<1> QED BY <1>1, <1>2

\* A page of a live process that is not in memory gets a free frame.
LEMMA PlaceAgree ==
    ASSUME NEW s \in State, Agree(s), NEW p \in s.live, NEW v \in PageIDs, NEW f \in Frames,
           s.pt[p][v].id = v, s.pt[p][v].frame = NoFrame, s.owner[f] = NoOwner,
           NEW t \in MapPage(Allocate(s, f, p, v), p, v, f)
    PROVE  Agree(t)
<1> DEFINE a == Allocate(s, f, p, v)
           e == [a.pt[p][v] EXCEPT !.frame = f]
           m == SetPage(a, p, v, e)
<1>0. p \in Procs BY FieldTypes
<1>1. /\ a \in State /\ a.pt = s.pt /\ a.live = s.live /\ a.history = s.history
      /\ \A g \in Frames : a.owner[g] = IF g = f THEN OwnedBy(p, v) ELSE s.owner[g]
  BY <1>0, AllocateEffect
<1>2. t \in TLBInsert(m, p, a.pt[p][v].id, f) BY DEF MapPage
<1> HIDE DEF a
<1>3. /\ e \in Page /\ e.id = v /\ e.frame = f /\ e.shared = s.pt[p][v].shared
      /\ a.pt[p][v].id = v
  BY <1>0, <1>1, EntryTypes DEF Page
<1> HIDE DEF e
<1>4. /\ m \in State
      /\ \A q \in Procs, w \in PageIDs : m.pt[q][w] = IF q = p /\ w = v THEN e ELSE a.pt[q][w]
      /\ m.live = a.live /\ m.owner = a.owner /\ m.history = a.history
  BY <1>0, <1>1, <1>3, SetPageEffect
<1> HIDE DEF m
<1>5. t.live = m.live /\ t.owner = m.owner /\ t.pt = m.pt /\ t.history = m.history
  BY <1>0, <1>2, <1>3, <1>4, TLBInsertEffect
<1>6. /\ t.live = s.live /\ t.history = s.history
      /\ \A g \in Frames : t.owner[g] = IF g = f THEN OwnedBy(p, v) ELSE s.owner[g]
      /\ \A q \in Procs, w \in PageIDs : t.pt[q][w] = IF q = p /\ w = v THEN e ELSE s.pt[q][w]
  BY <1>1, <1>4, <1>5
<1>7. NoFrame \notin Frames /\ NoID \notin PageIDs BY FreshIDs
<1>8. Plain(t)
  <2> SUFFICES ASSUME NEW q \in Procs, NEW w \in PageIDs
               PROVE  /\ ~t.pt[q][w].shared /\ t.pt[q][w].id \in {NoID, w}
                      /\ t.pt[q][w].frame # NoFrame => q \in t.live /\ t.pt[q][w].id # NoID
    BY DEF Plain
  <2>1. /\ ~s.pt[q][w].shared /\ s.pt[q][w].id \in {NoID, w}
        /\ s.pt[q][w].frame # NoFrame => q \in s.live /\ s.pt[q][w].id # NoID
    BY DEF Agree, Plain
  <2> QED BY <1>3, <1>6, <1>7, <2>1
<1>9. Mutual(t)
  <2> SUFFICES ASSUME NEW q \in Procs, NEW w \in PageIDs, NEW g \in Frames
               PROVE  t.owner[g] = OwnedBy(q, w) <=> t.pt[q][w].frame = g
    BY DEF Mutual
  <2>1. s.owner[g] = OwnedBy(q, w) <=> s.pt[q][w].frame = g BY DEF Agree, Mutual
  <2>2. OwnedBy(q, w) # NoOwner BY OwnedByIsOwner
  <2>3. OwnedBy(p, v) = OwnedBy(q, w) <=> p = q /\ v = w BY OwnedByInjective
  <2> QED BY <1>3, <1>6, <1>7, <2>1, <2>2, <2>3
<1> QED BY <1>6, <1>8, <1>9 DEF Agree

\* The states t that work for p may leave without a fork: the tables still agree, and a
\* page has left the compressed store only for a frame.
Loads(s, t) ==
    /\ t \in State /\ t.live = s.live /\ t.alg = s.alg
    /\ Agree(t)
    /\ \A id \in s.zip \ t.zip :
         \E f \in Frames : t.owner[f] # NoOwner /\ t.owner[f].page = id

\* As long as a round of prefetching lasts, frames in use keep their content.
Keeps(s, t) ==
    /\ t \in State /\ t.live = s.live /\ t.zip = s.zip /\ t.alg = s.alg
    /\ Agree(t)
    /\ \A f \in Frames : s.owner[f] # NoOwner => t.owner[f] = s.owner[f]

\* An insertion into the TLB leaves the compressed store and the policy alone ...
LEMMA TLBInsertZip ==
    ASSUME NEW s \in State, NEW p \in Procs, NEW v \in PageIDs, NEW f \in Frames,
           NEW t \in TLBInsert(s, p, v, f)
    PROVE  t.zip = s.zip /\ t.alg = s.alg
<1>1. PICK K : t = SetTLB(TLBDrop(s, K), p, v, f) BY DEF TLBInsert
<1> DEFINE d == TLBDrop(s, K)
           B == [q \in Procs |-> [w \in PageIDs |->
                    IF <<q, w>> \in K THEN NoFrame ELSE s.tlb[q][w]]]
           C == [d.tlb EXCEPT ![p][v] = f]
<1>2. d = [s EXCEPT !.tlb = B] BY DEF TLBDrop, State
<1> HIDE DEF B
<1>3. d.zip = s.zip /\ d.alg = s.alg BY <1>2 DEF State
<1>4. d \in State BY TLBDropEffect
<1> HIDE DEF d
<1>5. t = [d EXCEPT !.tlb = C] BY <1>1, <1>4 DEF SetTLB, State, d
<1> HIDE DEF C
<1>6. t.zip = d.zip /\ t.alg = d.alg BY <1>4, <1>5 DEF State
<1> QED BY <1>3, <1>6

\* ... and so does placing a page, which changes the owner of one frame.
LEMMA PlaceZip ==
    ASSUME NEW s \in State, NEW p \in Procs, NEW v \in PageIDs, NEW f \in Frames,
           s.pt[p][v].id = v, NEW t \in MapPage(Allocate(s, f, p, v), p, v, f)
    PROVE  /\ t \in State /\ t.live = s.live /\ t.zip = s.zip /\ t.alg = s.alg
           /\ \A g \in Frames : t.owner[g] = IF g = f THEN OwnedBy(p, v) ELSE s.owner[g]
<1> DEFINE a == Allocate(s, f, p, v)
           O == [s.owner EXCEPT ![f] = OwnedBy(p, v)]
           e == [a.pt[p][v] EXCEPT !.frame = f]
           T == [a.pt EXCEPT ![p][v] = e]
           m == SetPage(a, p, v, e)
<1>1. /\ a \in State /\ a.pt = s.pt /\ a.live = s.live
      /\ \A g \in Frames : a.owner[g] = IF g = f THEN OwnedBy(p, v) ELSE s.owner[g]
  BY AllocateEffect
<1>2. t \in TLBInsert(m, p, a.pt[p][v].id, f) BY DEF MapPage
<1>3. a = [s EXCEPT !.owner = O, !.dirty = @ \ {f}] BY DEF Allocate, State
<1> HIDE DEF a, O
<1>4. a.zip = s.zip /\ a.alg = s.alg BY <1>3 DEF State
<1>5. e \in Page /\ a.pt[p][v].id = v BY <1>1, EntryTypes DEF Page
<1>6. m = [a EXCEPT !.pt = T] BY <1>1 DEF SetPage, State
<1> HIDE DEF e, T
<1>7. m \in State /\ m.live = a.live /\ m.owner = a.owner BY <1>1, <1>5, SetPageEffect
<1> HIDE DEF m
<1>8. m.zip = a.zip /\ m.alg = a.alg BY <1>1, <1>6 DEF State
<1>9. t \in State /\ t.live = m.live /\ t.owner = m.owner
  BY <1>2, <1>5, <1>7, TLBInsertEffect
<1>10. t.zip = m.zip /\ t.alg = m.alg BY <1>2, <1>5, <1>7, TLBInsertZip
<1> QED BY <1>1, <1>4, <1>7, <1>8, <1>9, <1>10

\* The entry that GetOrCreatePage finds or makes is a plain one.
LEMMA GetOrCreatePageAgree ==
    ASSUME NEW s \in State, Agree(s), NEW p \in Procs, NEW v \in PageIDs
    PROVE  LET t == GetOrCreatePage(s, p, v)
           IN  /\ Keeps(s, t) /\ t.pt[p][v].id = v
               /\ t.pt[p][v].frame = s.pt[p][v].frame
<1> DEFINE e == [NoPage EXCEPT !.id = v]
           T == [s.pt EXCEPT ![p][v] = e]
           m == SetPage(s, p, v, e)
<1>1. e \in Page /\ e.id = v /\ e.frame = NoFrame /\ e.shared = FALSE
  BY DEF Page, NoPage, NoFrame, NoID
<1>2. CASE s.pt[p][v].id # NoID
  <2>1. GetOrCreatePage(s, p, v) = s BY <1>2 DEF GetOrCreatePage
  <2>2. s.pt[p][v].id = v BY <1>2 DEF Agree, Plain
  <2> QED BY <2>1, <2>2 DEF Keeps
<1>3. CASE s.pt[p][v].id = NoID
  <2>1. GetOrCreatePage(s, p, v) = m BY <1>3 DEF GetOrCreatePage
  <2>2. s.pt[p][v].frame = NoFrame BY <1>3 DEF Agree, Plain
  <2>3. m = [s EXCEPT !.pt = T] BY DEF SetPage, State
  <2> HIDE DEF e, T
  <2>4. /\ m \in State
        /\ \A q \in Procs, w \in PageIDs : m.pt[q][w] = IF q = p /\ w = v THEN e ELSE s.pt[q][w]
        /\ m.live = s.live /\ m.owner = s.owner /\ m.history = s.history
    BY <1>1, SetPageEffect
  <2> HIDE DEF m
  <2>5. m.zip = s.zip /\ m.alg = s.alg BY <2>3 DEF State
  <2>6. \A q \in Procs, w \in PageIDs : m.pt[q][w].frame = s.pt[q][w].frame
    BY <1>1, <2>2, <2>4
  <2>7. Plain(m)
    BY <1>1, <2>2, <2>4 DEF Agree, Plain
  <2>8. Mutual(m) BY <2>4, <2>6 DEF Agree, Mutual
  <2>9. Agree(m) BY <2>4, <2>7, <2>8 DEF Agree
  <2> QED BY <1>1, <2>1, <2>2, <2>4, <2>5, <2>9 DEF Keeps
<1> QED BY <1>2, <1>3

\* Loading a page that is not in memory.
LEMMA LoadPageAgree ==
    ASSUME NEW s \in State, Agree(s), NEW p \in s.live, NEW v \in PageIDs,
           s.pt[p][v].id = v, s.pt[p][v].frame = NoFrame, NEW t \in LoadPage(s, p, v)
    PROVE  Loads(s, t)
<1> DEFINE d == DecompressPage(s, v)
<1>0. p \in Procs BY FieldTypes
<1>1. PICK o \in ObtainFrame(d, AllocateFrameForPage(d, p), p, v) :
        t \in MapPage(o.st, p, v, o.frame)
  BY DEF LoadPage
<1>2. /\ d \in State /\ d.live = s.live /\ d.pt = s.pt /\ d.owner = s.owner
      /\ d.history = s.history /\ s.zip \ {v} \subseteq d.zip /\ d.alg = s.alg
  BY DEF DecompressPage, State
<1> HIDE DEF d
<1>3. Agree(d) BY <1>2, AgreeElsewhere
<1>4. AllocateFrameForPage(d, p) \in SUBSET FreeFrames(d) BY <1>0, <1>2, AllocationIsFree
<1> DEFINE f == o.frame
<1>5. PICK e \in State :
        /\ Agree(e) /\ e.live = d.live /\ d.zip \subseteq e.zip /\ e.alg = d.alg
        /\ f \in Frames /\ e.owner[f] = NoOwner
        /\ o.st = Allocate(e, f, p, v)
        /\ \A q \in Procs, w \in PageIDs :
             /\ e.pt[q][w].id = d.pt[q][w].id
             /\ e.pt[q][w].frame \in {d.pt[q][w].frame, NoFrame}
  BY <1>0, <1>1, <1>2, <1>3, <1>4, ObtainFrameAgree
<1>6. t \in MapPage(Allocate(e, f, p, v), p, v, f) BY <1>1, <1>5
<1> HIDE DEF f
<1>7. e.pt[p][v].id = v /\ e.pt[p][v].frame = NoFrame BY <1>0, <1>2, <1>5
<1>8. p \in e.live BY <1>2, <1>5
<1>9. Agree(t) BY <1>5, <1>6, <1>7, <1>8, PlaceAgree
<1>10. /\ t \in State /\ t.live = e.live /\ t.zip = e.zip /\ t.alg = e.alg
       /\ t.owner[f] = OwnedBy(p, v)
  BY <1>0, <1>5, <1>6, <1>7, PlaceZip
<1>11. t.owner[f].page = v /\ t.owner[f] # NoOwner
  <2>1. OwnedBy(p, v).page = v BY DEF OwnedBy
  <2> QED BY <1>0, <1>10, <2>1, OwnedByIsOwner
<1>12. s.zip \ t.zip \subseteq {v} BY <1>2, <1>5, <1>10
<1> QED BY <1>2, <1>5, <1>9, <1>10, <1>11, <1>12 DEF Loads

\* A round of prefetching takes a free frame and no other.
LEMMA PrefetchOneAgree ==
    ASSUME NEW s \in State, Agree(s), NEW p \in s.live, NEW t \in PrefetchOne(s, p)
    PROVE  Keeps(s, t)
<1>0. p \in Procs BY FieldTypes
<1>1. \/ t = s
      \/ \E v \in PageIDs : s.pt[p][v].frame = NoFrame /\
           LET c == GetOrCreatePage(s, p, v)
           IN  \/ t = c
               \/ \E f \in AllocateFrameForPage(c, p) :
                    t \in MapPage(Allocate(c, f, p, c.pt[p][v].id), p, v, f)
  BY <1>0, PrefetchPagesType DEF PrefetchOne, First
<1>2. CASE t = s BY <1>2 DEF Keeps
<1>3. ASSUME NEW v \in PageIDs, s.pt[p][v].frame = NoFrame, NEW c, c = GetOrCreatePage(s, p, v),
             \/ t = c
             \/ \E f \in AllocateFrameForPage(c, p) :
                   t \in MapPage(Allocate(c, f, p, c.pt[p][v].id), p, v, f)
      PROVE  Keeps(s, t)
  <2>1. Keeps(s, c) /\ c.pt[p][v].id = v /\ c.pt[p][v].frame = NoFrame
    BY <1>0, <1>3, GetOrCreatePageAgree
  <2>2. c \in State /\ Agree(c) /\ p \in c.live BY <2>1 DEF Keeps
  <2>3. CASE t = c BY <2>1, <2>3
  <2>4. ASSUME NEW f \in AllocateFrameForPage(c, p),
               t \in MapPage(Allocate(c, f, p, c.pt[p][v].id), p, v, f)
        PROVE  Keeps(s, t)
    <3>1. f \in Frames /\ c.owner[f] = NoOwner
      BY <1>0, <2>2, AllocationIsFree DEF FreeFrames
    <3>2. t \in MapPage(Allocate(c, f, p, v), p, v, f) BY <2>1, <2>4
    <3>3. Agree(t) BY <2>1, <2>2, <3>1, <3>2, PlaceAgree
    <3>4. /\ t \in State /\ t.live = c.live /\ t.zip = c.zip /\ t.alg = c.alg
          /\ \A g \in Frames : t.owner[g] = IF g = f THEN OwnedBy(p, v) ELSE c.owner[g]
      BY <1>0, <2>1, <2>2, <3>1, <3>2, PlaceZip
    <3> QED BY <2>1, <3>1, <3>3, <3>4 DEF Keeps
  <2> QED BY <1>3, <2>3, <2>4
<1> QED BY <1>1, <1>2, <1>3

\* Two rounds of prefetching take free frames and no others.
LEMMA TryPrefetchAgree ==
    ASSUME NEW s \in State, Agree(s), NEW p \in s.live, NEW t \in TryPrefetch(s, p)
    PROVE  Keeps(s, t)
<1>1. t = s \/ \E u \in PrefetchOne(s, p) : t \in PrefetchOne(u, p) BY DEF TryPrefetch
<1>2. CASE t = s BY <1>2 DEF Keeps
<1>3. ASSUME NEW u \in PrefetchOne(s, p), t \in PrefetchOne(u, p) PROVE Keeps(s, t)
  <2>1. Keeps(s, u) BY PrefetchOneAgree
  <2>2. u \in State /\ Agree(u) /\ p \in u.live BY <2>1 DEF Keeps
  <2>3. Keeps(u, t) BY <1>3, <2>2, PrefetchOneAgree
  <2> QED BY <2>1, <2>3 DEF Keeps
<1> QED BY <1>1, <1>2, <1>3

\* The second locked section of an access keeps the tables inverse, and takes a page
\* out of the compressed store only into a frame.
LEMMA AccessAgree ==
    ASSUME NEW m \in State, Agree(m), NEW r \in Request, r.proc \in m.live, NEW t,
           LET s == Locate(m, r)
           IN  \/ IsPresent(s, r) /\ t \in HitOutcomes(s, r)
               \/ ~IsPresent(s, r) /\ t \in FaultOutcomes(s, r) \cup ErrorOutcomes(s, r)
    PROVE  /\ Agree(t)
           /\ m.alg # "pff" =>
                \A id \in m.zip \ t.zip : \E f \in Frames : t.owner[f].page = id
<1> DEFINE p == r.proc
           v == r.page
           k == TrackAccess(m, p, v)
           s == GetOrCreatePage(k, p, v)
<1>0. \/ IsPresent(s, r) /\ t \in HitOutcomes(s, r)
      \/ ~IsPresent(s, r) /\ t \in FaultOutcomes(s, r) \cup ErrorOutcomes(s, r)
  BY DEF Locate
<1>1. p \in Procs /\ v \in 0 .. MaxVirtual /\ v \in PageIDs BY FreshIDs DEF Request
<1>1a. r.proc = p /\ r.page = v OBVIOUS
<1> HIDE DEF p, v
<1>2. /\ k \in State /\ k.live = m.live /\ k.pt = m.pt /\ k.owner = m.owner
      /\ k.history = m.history /\ k.zip = m.zip /\ k.alg = m.alg
  <2> DEFINE q == LastThree(Append(m.recent[p], v))
             R == [m.recent EXCEPT ![p] = q]
             C == IF DetectSequential(q) THEN m.clusters \cup {<<p, q[1]>>} ELSE m.clusters
  <2>1. k \in State BY <1>1, TrackAccessEffect
  <2>2. k = m \/ k = [m EXCEPT !.recent = R, !.clusters = C] BY DEF TrackAccess, State
  <2> HIDE DEF R, C, k
  <2> QED BY <2>1, <2>2 DEF State
<1>3. Agree(k) BY <1>2, AgreeElsewhere
<1> HIDE DEF k
<1>4. Keeps(k, s) /\ s.pt[p][v].id = v BY <1>1, <1>2, <1>3, GetOrCreatePageAgree
<1> HIDE DEF s
<1>5. /\ s \in State /\ Agree(s) /\ p \in s.live /\ s.zip = m.zip /\ s.alg = m.alg
      /\ s.pt[p][v].id = v
  BY <1>1a, <1>2, <1>4 DEF Keeps
<1>6. ASSUME NEW l \in State, Agree(l) PROVE ~WritesShared(l, r)
  BY <1>1, <1>1a, <1>6 DEF WritesShared, Agree, Plain
<1>7. ASSUME IsPresent(s, r), t \in HitOutcomes(s, r)
      PROVE  Agree(t) /\ t.zip = s.zip
  <2> DEFINE f == s.pt[p][v].frame
             a == OnPageAccess(s, f, r.write)
  <2>1. f \in Frames
    <3>1. f \in Frames \cup {NoFrame} BY <1>1, <1>5, EntryTypes
    <3> QED BY <1>1a, <1>7, <3>1 DEF IsPresent
  <2>2. PICK h \in TLBInsert(a, p, v, f) :
          t \in IF WritesShared(h, r) THEN HandleCoW(h, p, v) \cup HandleCoWFails(h, p, v) ELSE {h}
    BY <1>1a, <1>7 DEF HitOutcomes
  <2> HIDE DEF f
  <2>3. /\ a \in State /\ a.live = s.live /\ a.pt = s.pt /\ a.owner = s.owner
        /\ a.history = s.history /\ a.zip = s.zip
    BY <1>5, <2>1 DEF OnPageAccess, State
  <2> HIDE DEF a
  <2>4. /\ h \in State /\ h.live = a.live /\ h.pt = a.pt /\ h.owner = a.owner
        /\ h.history = a.history
    BY <1>1, <2>1, <2>3, TLBInsertEffect
  <2>5. h.zip = a.zip BY <1>1, <2>1, <2>3, TLBInsertZip
  <2>6. Agree(h)
    <3>1. Agree(a) BY <1>5, <2>3, AgreeElsewhere
    <3> QED BY <2>4, <3>1, AgreeElsewhere
  <2>7. t = h BY <1>6, <2>2, <2>4, <2>6
  <2> QED BY <2>3, <2>5, <2>6, <2>7
<1>8. ASSUME NEW l \in LoadPage(s, p, v), ~IsPresent(s, r)
      PROVE  Loads(s, l)
  <2>1. s.pt[p][v].frame = NoFrame BY <1>1a, <1>8 DEF IsPresent
  <2> QED BY <1>1, <1>5, <2>1, LoadPageAgree
<1>9. ASSUME ~IsPresent(s, r), t \in FaultOutcomes(s, r)
      PROVE  /\ Agree(t)
             /\ s.alg # "pff" =>
                  \A id \in s.zip \ t.zip : \E f \in Frames : t.owner[f].page = id
  <2>1. PICK l \in LoadPage(s, p, v) :
          \E x \in (IF WritesShared(l, r) THEN HandleCoW(l, p, v) ELSE {l}) :
            \E y \in EnforcePFFResident(x) : t \in TryPrefetch(y, p)
    BY <1>1a, <1>9 DEF FaultOutcomes
  <2>2. Loads(s, l) BY <1>8, <1>9
  <2>3. l \in State /\ Agree(l) /\ l.live = s.live /\ l.alg = s.alg BY <2>2 DEF Loads
  <2>3a. ~WritesShared(l, r) BY <1>6, <2>3
  <2>3b. PICK x \in (IF WritesShared(l, r) THEN HandleCoW(l, p, v) ELSE {l}) :
           \E y \in EnforcePFFResident(x) : t \in TryPrefetch(y, p)
    BY <2>1
  <2>3c. x = l BY <2>3a
  <2>4. PICK y \in EnforcePFFResident(l) : t \in TryPrefetch(y, p) BY <2>3b, <2>3c
  <2>5. y = l \/ (l.alg = "pff" /\ \E F \in SUBSET Evictable(l) : y = EvictPages(l, F))
    <3>1. CASE l.alg # "pff" BY <3>1 DEF EnforcePFFResident
    <3>2. CASE l.alg = "pff"
      <4>1. y \in {EvictPages(l, F) : F \in {E \in SUBSET Evictable(l) :
                      E = {} \/ Cardinality(E) < Cardinality(UsedFrames(l))}}
        BY <3>2 DEF EnforcePFFResident
      <4>2. \E F \in SUBSET Evictable(l) : y = EvictPages(l, F) BY <4>1
      <4> QED BY <3>2, <4>2
    <3> QED BY <3>1, <3>2
  <2>6. y \in State /\ Agree(y) /\ y.live = l.live
    <3>1. CASE y = l BY <2>3, <3>1
    <3>2. ASSUME NEW F \in SUBSET Evictable(l), y = EvictPages(l, F)
          PROVE  y \in State /\ Agree(y) /\ y.live = l.live
      <4> DEFINE e == EvictPages(l, F)
      <4>1. F \in SUBSET Frames BY <1>1, <2>3, AllocationIsFree
      <4>2. e \in State /\ e.live = l.live BY <2>3, <4>1, EvictPagesEffect
      <4>3. Agree(e) BY <2>3, <4>1, EvictPagesAgree
      <4> QED BY <3>2, <4>2, <4>3
    <3> QED BY <2>5, <3>1, <3>2
  <2>7. p \in y.live BY <1>5, <2>3, <2>6
  <2>8. Keeps(y, t) BY <2>4, <2>6, <2>7, TryPrefetchAgree
  <2>9. ASSUME s.alg # "pff", NEW id \in s.zip \ t.zip
        PROVE  \E f \in Frames : t.owner[f].page = id
    <3>1. y = l BY <2>3, <2>5, <2>9
    <3>2. l.zip = t.zip BY <2>8, <3>1 DEF Keeps
    <3>3. PICK f \in Frames : l.owner[f] # NoOwner /\ l.owner[f].page = id
      BY <2>2, <2>9, <3>2 DEF Loads
    <3>4. t.owner[f] = l.owner[f] BY <2>8, <3>1, <3>3 DEF Keeps
    <3> QED BY <3>3, <3>4
  <2> QED BY <2>8, <2>9 DEF Keeps
<1>10. ASSUME ~IsPresent(s, r), t \in ErrorOutcomes(s, r) PROVE t = s
  <2>1. \/ t = s
        \/ \E l \in LoadPage(s, p, v) : WritesShared(l, r)
    BY <1>1a, <1>5, <1>10, RestoreExact DEF ErrorOutcomes
  <2>2. ASSUME NEW l \in LoadPage(s, p, v), WritesShared(l, r) PROVE FALSE
    <3>1. Loads(s, l) BY <1>8, <1>10
    <3> QED BY <1>6, <2>2, <3>1 DEF Loads
  <2> QED BY <2>1, <2>2
<1> QED BY <1>0, <1>5, <1>7, <1>9, <1>10

\* Nobody has forked, or mapped a huge page under the number of a small one.
Unmarked(s) == s.history \cap {"fork", "alias"} = {}

\* Without such a step the tables agree.
Tables == Unmarked(mm) => Agree(mm)

\* A fork is on record from then on, and leaves the compressed store alone.
LEMMA ForkHistory ==
    ASSUME mm \in State, NEW p \in Procs, NEW c \in Procs, ForkProcess(p, c)
    PROVE  "fork" \in mm'.history /\ mm'.zip = mm.zip
<1> DEFINE table == mm.pt[p]
           T == [mm.pt EXCEPT ![c] = Clone(table), ![p] = MakeShared(table)]
           S == [id \in PageIDs |-> IF id \in PresentIDs(table) THEN mm.sharers[id] \cup {p, c}
                                                                ELSE mm.sharers[id]]
           G == [mm.huge EXCEPT ![c] = [i \in HugeIdx |-> NoFrame]]
           R == [mm.recent EXCEPT ![c] = <<>>]
           H == mm.history \cup {"fork"} \cup (IF HoldsCopy(table) THEN {"refork"} ELSE {})
<1>1. mm' = [mm EXCEPT !.live = @ \cup {c}, !.pt = T, !.sharers = S, !.huge = G,
                       !.recent = R, !.history = H]
  BY DEF ForkProcess, State
<1>2. "fork" \in H OBVIOUS
<1> HIDE DEF T, S, G, R, H
<1>3. mm'.history = H /\ mm'.zip = mm.zip BY <1>1 DEF State
<1> QED BY <1>2, <1>3

\* Only a reset forgets that there was one.
LEMMA MarksStay ==
    ASSUME IInv, [Next]_vars, ~Unmarked(mm), Unmarked(mm')
    PROVE  Reset
<1>0. ~(mm.history \subseteq mm'.history) BY DEF Unmarked
<1>1. mm \in State /\ req \in [Threads -> Request \cup {Idle}] BY DEF IInv, TypeOK
<1>2. ASSUME NEW p \in Procs, CreateProcess(p) PROVE FALSE
  <2>1. mm'.history = mm.history BY <1>1, <1>2, CreateProcessEffect
  <2> QED BY <1>0, <2>1
<1>3. ASSUME NEW p \in Procs, RemoveProcess(p) PROVE FALSE
  <2> DEFINE gone == MappedFrames(mm, p)
             O == [f \in Frames |-> IF f \in gone THEN NoOwner ELSE mm.owner[f]]
             T == [mm.pt EXCEPT ![p] = [v \in PageIDs |-> NoPage]]
             B == [mm.tlb EXCEPT ![p] = [v \in PageIDs |-> NoFrame]]
             S == [id \in PageIDs |-> mm.sharers[id] \ {p}]
             G == [mm.huge EXCEPT ![p] = [i \in HugeIdx |-> NoFrame]]
             R == [mm.recent EXCEPT ![p] = <<>>]
             C == {k \in mm.clusters : k[1] # p}
             H == IF MapsSharedFrame(mm, p) THEN mm.history \cup {"remove"} ELSE mm.history
  <2>1. mm' = [mm EXCEPT !.live = @ \ {p}, !.owner = O, !.dirty = @ \ gone, !.pt = T,
                         !.tlb = B, !.sharers = S, !.huge = G, !.recent = R,
                         !.clusters = C, !.history = H]
    BY <1>1, <1>3 DEF RemoveProcess, State
  <2>2. mm.history \subseteq H OBVIOUS
  <2> HIDE DEF gone, O, T, B, S, G, R, C, H
  <2>3. mm'.history = H BY <1>1, <2>1 DEF State
  <2> QED BY <1>0, <2>2, <2>3
<1>4. ASSUME NEW p \in Procs, NEW c \in Procs, ForkProcess(p, c) PROVE FALSE
  BY <1>1, <1>4, ForkHistory DEF Unmarked
<1>5. ASSUME NEW t \in Threads, AccessHit(t) \/ AccessFault(t) \/ AccessError(t) PROVE FALSE
  <2> DEFINE r == req[t]
             s == Locate(mm, r)
  <2>1. r \in Request /\ r.proc \in mm.live
    BY <1>1, <1>5 DEF AccessHit, AccessFault, AccessError, Pending
  <2>2. \/ IsPresent(s, r) /\ mm' \in HitOutcomes(s, r)
        \/ ~IsPresent(s, r) /\ mm' \in FaultOutcomes(s, r) \cup ErrorOutcomes(s, r)
    BY <1>5 DEF AccessHit, AccessFault, AccessError
  <2> HIDE DEF r
  <2>3. WorkFor(r.proc, mm, mm') BY <1>1, <2>1, <2>2, AccessWork
  <2> QED BY <1>0, <2>3 DEF WorkFor
<1>6. ASSUME NEW p \in Procs, NEW i \in HugeIdx, MapHugePage(p, i) PROVE FALSE
  <2> DEFINE id == HugeBase + i
  <2>1. PICK o \in ObtainFrame(mm, AllocateFrameForPage(mm, p), p, id) :
          Named(mm', o, p, i)
    BY <1>6 DEF MapHugePage, Named
  <2>2. AllocateFrameForPage(mm, p) \in SUBSET FreeFrames(mm) BY <1>1, AllocationIsFree
  <2>3. id \in PageIDs \cup HugeIDs BY FreshIDs
  <2> HIDE DEF id
  <2> DEFINE x == o.st
  <2>4. x \in State /\ mm.history \subseteq x.history
    BY <1>1, <2>1, <2>2, <2>3, ObtainFrameWork DEF WorkFor
  <2>5. o.frame \in Frames BY <1>1, <2>1, <2>2, <2>3, ObtainFrameEffect DEF Obtained
  <2>6. x.history \subseteq mm'.history BY <2>1, <2>4, <2>5, NamedEffect
  <2> QED BY <1>0, <2>4, <2>6
<1>7. ASSUME NEW a, NEW n, NEW P,
             \/ mm' = mm
             \/ mm' = [mm EXCEPT !.alg = a]
             \/ mm' = [mm EXCEPT !.on = n]
             \/ mm' = [mm EXCEPT !.pinned = P]
      PROVE  FALSE
  <2>1. mm'.history = mm.history BY <1>1, <1>7 DEF State
  <2> QED BY <1>0, <2>1
<1>8. ASSUME NEW x \in Toggles, NEW b \in BOOLEAN, Enable(x, b) PROVE FALSE
  <2> DEFINE n == IF b THEN mm.on \cup {x} ELSE mm.on \ {x}
  <2>1. mm' = [mm EXCEPT !.on = n] BY <1>1, <1>8 DEF Enable, State
  <2> HIDE DEF n
  <2> QED BY <1>7, <2>1
<1>9. ASSUME NEW f \in Frames, NEW b \in BOOLEAN, SetPinned(f, b) PROVE FALSE
  <2> DEFINE P == IF b THEN mm.pinned \cup {f} ELSE mm.pinned \ {f}
  <2>1. mm' = [mm EXCEPT !.pinned = P] BY <1>1, <1>9 DEF SetPinned, State
  <2> HIDE DEF P
  <2> QED BY <1>7, <2>1
<1>10. ASSUME NEW a \in Algs, SetAlgorithm(a) PROVE FALSE BY <1>7, <1>10 DEF SetAlgorithm
<1>11. ASSUME NEW t \in Threads, AccessGone(t) PROVE FALSE BY <1>7, <1>11 DEF AccessGone
<1>12. ASSUME NEW t \in Threads, NEW p \in Procs, NEW v \in 0 .. MaxVirtual, NEW w \in BOOLEAN,
              AccessFast(t, p, v, w)
       PROVE  FALSE
  BY <1>7, <1>12 DEF AccessFast
<1>13. ASSUME UNCHANGED vars PROVE FALSE BY <1>7, <1>13 DEF vars
<1> QED
  BY <1>2, <1>3, <1>4, <1>5, <1>6, <1>8, <1>9, <1>10, <1>11, <1>12, <1>13 DEF Next

\* The tables of a reset memory manager are empty.
LEMMA ResetAgree ==
    ASSUME Reset PROVE Agree(mm')
<1>1. /\ mm'.pt = [p \in Procs |-> [v \in PageIDs |-> NoPage]]
      /\ mm'.owner = [f \in Frames |-> NoOwner] /\ mm'.history = {}
  BY DEF Reset, NewMemoryManager
<1>2. NoPage.frame = NoFrame /\ NoPage.id = NoID /\ ~NoPage.shared BY DEF NoPage
<1>3. Plain(mm') BY <1>1, <1>2 DEF Plain
<1>4. Mutual(mm') BY <1>1, <1>2, FreshIDs, OwnedByIsOwner DEF Mutual
<1> QED BY <1>1, <1>3, <1>4 DEF Agree

\* What a step does while the tables agree.
LEMMA NextTables ==
    ASSUME IInv, Agree(mm), [Next]_vars
    PROVE  /\ Unmarked(mm') => Agree(mm')
           /\ \/ Reset \/ mm.alg = "pff"
              \/ \A id \in mm.zip \ mm'.zip : \E f \in Frames : mm'.owner[f].page = id
<1> DEFINE Kept == \A id \in mm.zip \ mm'.zip : \E f \in Frames : mm'.owner[f].page = id
<1>1. mm \in State /\ req \in [Threads -> Request \cup {Idle}] BY DEF IInv, TypeOK
<1>2. Agree(mm) OBVIOUS
<1>3. ASSUME NEW p \in Procs, CreateProcess(p) PROVE Agree(mm') /\ mm'.zip = mm.zip
  <2> DEFINE T == [mm.pt EXCEPT ![p] = [v \in PageIDs |-> NoPage]]
             R == [mm.recent EXCEPT ![p] = <<>>]
             H == [mm.huge EXCEPT ![p] = [i \in HugeIdx |-> NoFrame]]
  <2>1. mm' = [mm EXCEPT !.live = @ \cup {p}, !.pt = T, !.recent = R, !.huge = H]
    BY <1>1, <1>3 DEF CreateProcess, State
  <2>2. p \notin mm.live BY <1>3 DEF CreateProcess
  <2>3. \A q \in Procs, v \in PageIDs : T[q][v] = IF q = p THEN NoPage ELSE mm.pt[q][v]
    BY <1>1, FieldTypes DEF PageTables
  <2> HIDE DEF T, R, H
  <2>4. /\ mm'.live = mm.live \cup {p} /\ mm'.pt = T /\ mm'.owner = mm.owner
        /\ mm'.history = mm.history /\ mm'.zip = mm.zip
    BY <1>1, <2>1 DEF State
  <2>5. Agree(mm) BY <1>2, <2>4
  <2>6. NoPage.frame = NoFrame /\ NoPage.id = NoID /\ ~NoPage.shared BY DEF NoPage
  <2>7. \A q \in Procs, v \in PageIDs : T[q][v].frame = mm.pt[q][v].frame
    BY <2>2, <2>3, <2>5, <2>6 DEF Agree, Plain
  <2>8. Plain(mm') BY <2>3, <2>4, <2>5, <2>6 DEF Agree, Plain
  <2>9. Mutual(mm') BY <2>4, <2>5, <2>7 DEF Agree, Mutual
  <2> QED BY <2>4, <2>5, <2>8, <2>9 DEF Agree
<1>4. ASSUME NEW p \in Procs, RemoveProcess(p) PROVE Agree(mm') /\ mm'.zip = mm.zip
  <2> DEFINE gone == MappedFrames(mm, p)
             O == [f \in Frames |-> IF f \in gone THEN NoOwner ELSE mm.owner[f]]
             T == [mm.pt EXCEPT ![p] = [v \in PageIDs |-> NoPage]]
             B == [mm.tlb EXCEPT ![p] = [v \in PageIDs |-> NoFrame]]
             S == [id \in PageIDs |-> mm.sharers[id] \ {p}]
             G == [mm.huge EXCEPT ![p] = [i \in HugeIdx |-> NoFrame]]
             R == [mm.recent EXCEPT ![p] = <<>>]
             C == {k \in mm.clusters : k[1] # p}
             H == IF MapsSharedFrame(mm, p) THEN mm.history \cup {"remove"} ELSE mm.history
  <2>1. mm' = [mm EXCEPT !.live = @ \ {p}, !.owner = O, !.dirty = @ \ gone, !.pt = T,
                         !.tlb = B, !.sharers = S, !.huge = G, !.recent = R,
                         !.clusters = C, !.history = H]
    BY <1>1, <1>4 DEF RemoveProcess, State
  <2>2. \A q \in Procs, v \in PageIDs : T[q][v] = IF q = p THEN NoPage ELSE mm.pt[q][v]
    BY <1>1, FieldTypes DEF PageTables
  <2>3. \A f \in Frames : O[f] = IF f \in gone THEN NoOwner ELSE mm.owner[f] OBVIOUS
  <2>4. mm.history \subseteq H OBVIOUS
  <2>4a. ~MapsSharedFrame(mm, p) => H = mm.history OBVIOUS
  <2>4b. \A f \in Frames : f \in gone <=> \E v \in PageIDs : mm.pt[p][v].frame = f
    BY FreshIDs DEF MappedFrames
  <2> HIDE DEF gone, O, T, B, S, G, R, C, H
  <2>5. /\ mm'.live = mm.live \ {p} /\ mm'.pt = T /\ mm'.owner = O
        /\ mm'.history = H /\ mm'.zip = mm.zip
    BY <1>1, <2>1 DEF State
  <2>6. Agree(mm) BY <1>2, <2>4, <2>5
  <2>7. \A q \in Procs, v \in PageIDs, f \in Frames :
          mm.owner[f] = OwnedBy(q, v) <=> mm.pt[q][v].frame = f
    BY <2>6 DEF Agree, Mutual
  <2>8. ASSUME NEW q \in Procs, q # p, NEW w \in PageIDs, NEW v \in PageIDs,
               mm.pt[q][w].frame = mm.pt[p][v].frame, mm.pt[p][v].frame # NoFrame
        PROVE  FALSE
    <3>1. mm.pt[p][v].frame \in Frames BY <1>1, <2>8, EntryTypes
    <3>2. mm.owner[mm.pt[p][v].frame] = OwnedBy(q, w) /\ mm.owner[mm.pt[p][v].frame] = OwnedBy(p, v)
      BY <2>7, <2>8, <3>1
    <3>3. OwnedBy(q, w) = OwnedBy(p, v) <=> q = p /\ w = v BY OwnedByInjective
    <3> QED BY <2>8, <3>2, <3>3
  <2>9. ~MapsSharedFrame(mm, p)
    BY <2>8 DEF MapsSharedFrame, MappedFrames
  <2>10. mm'.history = {} BY <2>4a, <2>5, <2>6, <2>9 DEF Agree
  <2>11. NoPage.frame = NoFrame /\ NoPage.id = NoID /\ ~NoPage.shared BY DEF NoPage
  <2>12. Plain(mm') BY <2>2, <2>5, <2>6, <2>11 DEF Agree, Plain
  <2>13. Mutual(mm')
    <3> SUFFICES ASSUME NEW q \in Procs, NEW w \in PageIDs, NEW f \in Frames
                 PROVE  O[f] = OwnedBy(q, w) <=> T[q][w].frame = f
      BY <2>5 DEF Mutual
    <3>1. NoFrame \notin Frames /\ OwnedBy(q, w) # NoOwner BY FreshIDs, OwnedByIsOwner
    <3>2. mm.owner[f] = OwnedBy(q, w) <=> mm.pt[q][w].frame = f BY <2>7
    <3>3. CASE q = p
      BY <2>2, <2>3, <2>4b, <2>11, <3>1, <3>2, <3>3
    <3>4. CASE q # p
      <4>1. f \in gone => mm.pt[q][w].frame # f BY <2>4b, <2>8, <3>1, <3>4
      <4> QED BY <2>2, <2>3, <3>1, <3>2, <3>4, <4>1
    <3> QED BY <3>3, <3>4
  <2> QED BY <2>5, <2>10, <2>12, <2>13 DEF Agree
<1>5. ASSUME NEW p \in Procs, NEW c \in Procs, ForkProcess(p, c)
      PROVE  ~Unmarked(mm') /\ mm'.zip = mm.zip
  BY <1>1, <1>5, ForkHistory DEF Unmarked
<1>6. ASSUME NEW t \in Threads, AccessHit(t) \/ AccessFault(t) \/ AccessError(t)
      PROVE  Agree(mm') /\ (mm.alg = "pff" \/ Kept)
  <2> DEFINE r == req[t]
             s == Locate(mm, r)
  <2>1. r \in Request /\ r.proc \in mm.live
    BY <1>1, <1>6 DEF AccessHit, AccessFault, AccessError, Pending
  <2>2. \/ IsPresent(s, r) /\ mm' \in HitOutcomes(s, r)
        \/ ~IsPresent(s, r) /\ mm' \in FaultOutcomes(s, r) \cup ErrorOutcomes(s, r)
    BY <1>6 DEF AccessHit, AccessFault, AccessError
  <2> HIDE DEF r
  <2>3. WorkFor(r.proc, mm, mm') BY <1>1, <2>1, <2>2, AccessWork
  <2>4. Agree(mm) BY <1>2, <2>3 DEF WorkFor
  <2> QED BY <1>1, <2>1, <2>2, <2>4, AccessAgree
<1>7. ASSUME NEW p \in Procs, NEW i \in HugeIdx, MapHugePage(p, i)
      PROVE  (Unmarked(mm') => Agree(mm')) /\ mm.zip \subseteq mm'.zip
  <2> DEFINE id == HugeBase + i
  <2>1. PICK o \in ObtainFrame(mm, AllocateFrameForPage(mm, p), p, id) :
          Named(mm', o, p, i)
    BY <1>7 DEF MapHugePage, Named
  <2>2. AllocateFrameForPage(mm, p) \in SUBSET FreeFrames(mm) BY <1>1, AllocationIsFree
  <2>3. id \in PageIDs \cup HugeIDs BY FreshIDs
  <2> DEFINE x == o.st
             f == o.frame
  <2>4. x \in State /\ f \in Frames BY <1>1, <2>1, <2>2, <2>3, ObtainFrameEffect DEF Obtained
  <2>5. /\ mm'.live = x.live /\ mm'.pt = x.pt /\ mm'.owner = x.owner /\ mm'.zip = x.zip
        /\ (mm'.history = x.history /\ id \notin PageIDs) \/ "alias" \in mm'.history
    BY <2>1, <2>4, NamedEffect
  <2> HIDE DEF id
  <2>7. Agree(mm) BY <1>2
  <2>8. PICK e \in State :
          /\ Agree(e) /\ mm.zip \subseteq e.zip
          /\ f \in Frames /\ e.owner[f] = NoOwner /\ x = Allocate(e, f, p, id)
    BY <1>1, <2>1, <2>2, <2>3, <2>7, ObtainFrameAgree
  <2> HIDE DEF x, f
  <2>9. /\ x.pt = e.pt /\ x.live = e.live /\ x.history = e.history
        /\ \A g \in Frames : x.owner[g] = IF g = f THEN OwnedBy(p, id) ELSE e.owner[g]
    BY <2>3, <2>8, AllocateEffect
  <2>10. x.zip = e.zip
    <3> DEFINE O == [e.owner EXCEPT ![f] = OwnedBy(p, id)]
    <3>1. x = [e EXCEPT !.owner = O, !.dirty = @ \ {f}] BY <2>8 DEF Allocate, State
    <3> HIDE DEF O
    <3> QED BY <2>8, <3>1 DEF State
  <2>11. ASSUME id \notin PageIDs PROVE Mutual(x)
    <3> SUFFICES ASSUME NEW q \in Procs, NEW w \in PageIDs, NEW g \in Frames
                 PROVE  x.owner[g] = OwnedBy(q, w) <=> x.pt[q][w].frame = g
      BY DEF Mutual
    <3>1. OwnedBy(q, w) # NoOwner BY OwnedByIsOwner
    <3>2. OwnedBy(q, w) # OwnedBy(p, id) BY <2>11, OwnedByInjective
    <3>3. e.owner[g] = OwnedBy(q, w) <=> e.pt[q][w].frame = g BY <2>8 DEF Agree, Mutual
    <3> QED BY <2>8, <2>9, <3>1, <3>2, <3>3
  <2>12. ASSUME Unmarked(mm') PROVE Agree(mm')
    <3>1. mm'.history = x.history /\ id \notin PageIDs BY <2>5, <2>12 DEF Unmarked
    <3>2. Agree(x) BY <2>8, <2>9, <2>11, <3>1 DEF Agree, Plain
    <3> QED BY <2>5, <3>1, <3>2, AgreeElsewhere
  <2> QED BY <2>5, <2>8, <2>10, <2>12
<1>8. ASSUME NEW a, NEW n, NEW P,
             \/ mm' = mm
             \/ mm' = [mm EXCEPT !.alg = a]
             \/ mm' = [mm EXCEPT !.on = n]
             \/ mm' = [mm EXCEPT !.pinned = P]
      PROVE  Agree(mm') /\ mm'.zip = mm.zip
  <2>1. /\ mm'.live = mm.live /\ mm'.pt = mm.pt /\ mm'.owner = mm.owner
        /\ mm'.zip = mm.zip /\ mm'.history = mm.history
    BY <1>1, <1>8 DEF State
  <2>2. Agree(mm) BY <1>2, <2>1
  <2>3. Agree(mm') BY <2>1, <2>2, AgreeElsewhere
  <2> QED BY <2>1, <2>3
<1>9. ASSUME Reset PROVE Agree(mm') BY <1>9, ResetAgree
<1>10. ASSUME NEW x \in Toggles, NEW b \in BOOLEAN, Enable(x, b)
       PROVE  Agree(mm') /\ mm'.zip = mm.zip
  <2> DEFINE n == IF b THEN mm.on \cup {x} ELSE mm.on \ {x}
  <2>1. mm' = [mm EXCEPT !.on = n] BY <1>1, <1>10 DEF Enable, State
  <2> HIDE DEF n
  <2> QED BY <1>8, <2>1
<1>11. ASSUME NEW f \in Frames, NEW b \in BOOLEAN, SetPinned(f, b)
       PROVE  Agree(mm') /\ mm'.zip = mm.zip
  <2> DEFINE P == IF b THEN mm.pinned \cup {f} ELSE mm.pinned \ {f}
  <2>1. mm' = [mm EXCEPT !.pinned = P] BY <1>1, <1>11 DEF SetPinned, State
  <2> HIDE DEF P
  <2> QED BY <1>8, <2>1
<1>12. ASSUME NEW a \in Algs, SetAlgorithm(a) PROVE Agree(mm') /\ mm'.zip = mm.zip
  BY <1>8, <1>12 DEF SetAlgorithm
<1>13. ASSUME NEW t \in Threads, AccessGone(t) PROVE Agree(mm') /\ mm'.zip = mm.zip
  BY <1>8, <1>13 DEF AccessGone
<1>14. ASSUME NEW t \in Threads, NEW p \in Procs, NEW v \in 0 .. MaxVirtual, NEW w \in BOOLEAN,
              AccessFast(t, p, v, w)
       PROVE  Agree(mm') /\ mm'.zip = mm.zip
  BY <1>8, <1>14 DEF AccessFast
<1>15. ASSUME UNCHANGED vars PROVE Agree(mm') /\ mm'.zip = mm.zip BY <1>8, <1>15 DEF vars
<1>16. mm.zip \subseteq mm'.zip => Kept OBVIOUS
<1> HIDE DEF Kept
<1>17. (Unmarked(mm') => Agree(mm')) /\ (Reset \/ mm.alg = "pff" \/ Kept)
  BY <1>3, <1>4, <1>5, <1>6, <1>7, <1>9, <1>10, <1>11, <1>12, <1>13, <1>14, <1>15, <1>16 DEF Next
<1> QED BY <1>17 DEF Kept

\* The strengthening: without a fork no page is shared or a copy, and without an alias no
\* two frames record one page, so that every eviction and removal is sound and no write
\* copies.
THEOREM TablesInductive == Spec => [](IInv /\ Tables)
<1>1. Init => Tables
  <2> SUFFICES ASSUME Init PROVE Agree(mm) BY DEF Tables
  <2>1. PICK a : mm = NewMemoryManager(a) BY DEF Init
  <2>2. /\ mm.pt = [p \in Procs |-> [v \in PageIDs |-> NoPage]]
        /\ mm.owner = [f \in Frames |-> NoOwner] /\ mm.history = {}
    BY <2>1 DEF NewMemoryManager
  <2>3. NoPage.frame = NoFrame /\ NoPage.id = NoID /\ ~NoPage.shared BY DEF NoPage
  <2>4. Plain(mm) BY <2>2, <2>3 DEF Plain
  <2>5. Mutual(mm) BY <2>2, <2>3, FreshIDs, OwnedByIsOwner DEF Mutual
  <2> QED BY <2>2, <2>4, <2>5 DEF Agree
<1>2. IInv /\ Tables /\ [Next]_vars => Tables'
  <2> SUFFICES ASSUME IInv, Tables, [Next]_vars, Unmarked(mm') PROVE Agree(mm)'
    BY DEF Tables, Unmarked
  <2>1. CASE Unmarked(mm)
    <3>1. Agree(mm') BY <2>1, NextTables DEF Tables
    <3> QED BY <3>1 DEF Agree, Plain, Mutual
  <2>2. CASE ~Unmarked(mm)
    <3>1. Reset BY <2>2, MarksStay
    <3>2. Agree(mm') BY <3>1, ResetAgree
    <3> QED BY <3>2 DEF Agree, Plain, Mutual
  <2> QED BY <2>1, <2>2
<1> QED BY <1>1, <1>2, InitIInv, NextIInv, PTL DEF Spec

\* As long as nobody forks, or maps a huge page under the number of a small one, no
\* operation breaches the mappings, and a frame records a page exactly if that page's
\* entry names the frame.  No range of page numbers is assumed: callers may access the
\* numbers of copies and of huge pages.
THEOREM TablesAlwaysAgree == Spec => []TablesAgree
<1>1. Tables => TablesAgree BY DEF Tables, Unmarked, Agree, Mutual, TablesAgree, Maps
<1> QED BY <1>1, TablesInductive, PTL

\* A compressed page leaves the store only for a frame that records it or by a reset,
\* unless PFF trims the frames or a fork lets a copy on write evict them, and up to a
\* huge page under the number of a small one.
THEOREM CompressedStay == Spec => CompressedKept
<1> DEFINE A == \/ Reset \/ mm.alg = "pff" \/ mm.history \cap {"fork", "alias"} # {}
                \/ \A id \in mm.zip \ mm'.zip : \E f \in Frames : mm'.owner[f].page = id
<1>1. IInv /\ Tables /\ [Next]_vars => [A]_vars
  <2> SUFFICES ASSUME IInv, Tables, [Next]_vars, Unmarked(mm) PROVE A
    BY DEF Unmarked
  <2>1. Agree(mm) BY DEF Tables
  <2> QED BY <2>1, NextTables
<1> QED BY <1>1, TablesInductive, PTL DEF Spec, CompressedKept
=============================================================================
