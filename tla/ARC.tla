--------------------------------- MODULE ARC ---------------------------------
(***************************************************************************)
(* internal/algorithms/arc.go, driven by the memory manager under mm.mu.   *)
(* T1 and T2 are meant for resident pages, B1 and B2 for pages that were   *)
(* evicted; each list has its most recent entry first.  An entry stands    *)
(* for its page ID: its key is its identity, here its position, and the    *)
(* four sizes are the lengths of the lists.  Page IDs are those that the   *)
(* frames record: the pages of different processes have the same IDs.  The *)
(* policy may be installed over frames in use: see module Adaptive.        *)
(***************************************************************************)
EXTENDS Integers, Sequences, FiniteSets

CONSTANTS
    NumFrames,   \* also c, the capacity of the lists
    Pages,       \* page IDs
    Pinnable     \* the frames that callers pin

c == NumFrames
Frames == 0 .. NumFrames - 1
NoPage == -1

ASSUME ARCAssumption ==
    /\ NumFrames \in Nat \ {0}
    /\ Pages \subseteq Nat /\ Pinnable \subseteq Frames

VARIABLES
    page,            \* the page ID in each frame
    pinned,          \* the frames with Pinned
    t1, t2, b1, b2,  \* the lists
    p,               \* the target size of T1
    stray            \* history: frames were released, or pages of one ID loaded twice

lists == <<t1, t2, b1, b2, p>>
vars == <<page, pinned, lists, stray>>

In(q) == {q[i] : i \in DOMAIN q}
FirstOf(n, q) == SubSeq(q, 1, IF n < Len(q) THEN n ELSE Len(q))
From(n, q) == SubSeq(q, n, Len(q))
Smaller(m, n) == IF m < n THEN m ELSE n
Larger(m, n) == IF m < n THEN n ELSE m

\* The position of the first entry of a page, and a list without an entry.
FirstAt(q, pg) == CHOOSE i \in DOMAIN q : q[i] = pg /\ \A j \in 1 .. i - 1 : q[j] # pg
Without(q, i) == SubSeq(q, 1, i - 1) \o From(i + 1, q)
Forget(q, pg) == IF pg \in In(q) THEN Without(q, FirstAt(q, pg)) ELSE q

Init ==
    /\ page = [f \in Frames |-> NoPage] /\ pinned = {}
    /\ t1 = <<>> /\ t2 = <<>> /\ b1 = <<>> /\ b2 = <<>> /\ p = 0
    /\ stray = FALSE

Used == {f \in Frames : page[f] # NoPage}
Evictable == Used \ pinned
Lowest(S) == CHOOSE f \in S : \A g \in S : f <= g

-----------------------------------------------------------------------------
(* Values of the lists, and what the operations make of them *)

Lists == [t1 |-> t1, t2 |-> t2, b1 |-> b1, b2 |-> b2, p |-> p]
Become(L) == t1' = L.t1 /\ t2' = L.t2 /\ b1' = L.b1 /\ b2' = L.b2 /\ p' = L.p

\* An entry enters the front of a ghost list, whose last entry goes if it is too long.
Ghost(q, pg) == FirstOf(c, <<pg>> \o q)

\* adapt: T1 is cut to p entries and T2 to the rest of c, each into its ghosts.  The
\* code's second loop ends because the first has cut T1 to p, which is at most c.
Adapt(L) ==
    LET n == c - Len(FirstOf(L.p, L.t1))
    IN  [L EXCEPT !.t1 = FirstOf(L.p, @), !.b1 = FirstOf(c, From(L.p + 1, L.t1) \o @),
                  !.t2 = FirstOf(n, @),   !.b2 = FirstOf(c, From(n + 1, L.t2) \o @)]

\* How far a hit in a ghost list of length m moves p, the other one having length n.
Delta(m, n) == IF m >= n /\ n > 0 THEN m \div n ELSE 1

OnPageFault(L, pg) ==
    IF pg \in In(L.b1) THEN [L EXCEPT !.b1 = Forget(@, pg), !.t2 = <<pg>> \o @]
    ELSE IF pg \in In(L.b2) THEN [L EXCEPT !.b2 = Forget(@, pg), !.t2 = <<pg>> \o @]
    ELSE Adapt([L EXCEPT !.t1 = <<pg>> \o @])

\* Mutant: the target is not cut to c.
RaisedUncapped(L) == L.p + Delta(Len(L.b1), Len(L.b2))

\* The target after a hit in B1, and after one in B2.
Raised(L) == Smaller(L.p + Delta(Len(L.b1), Len(L.b2)), c)
Lowered(L) == Larger(L.p - Delta(Len(L.b2), Len(L.b1)), 0)

\* The page enters T2 after adapt has run on the rest.
Promote(L, pg) == LET M == Adapt(L) IN [M EXCEPT !.t2 = <<pg>> \o @]

OnPageAccess(L, pg) ==
    CASE pg \in In(L.t1) -> [L EXCEPT !.t1 = Forget(@, pg), !.t2 = <<pg>> \o @]
      [] pg \in In(L.t2) \ In(L.t1) -> [L EXCEPT !.t2 = <<pg>> \o Forget(@, pg)]
      [] pg \in In(L.b1) \ (In(L.t1) \cup In(L.t2)) ->
            Promote([L EXCEPT !.p = Raised(L), !.b1 = Forget(@, pg)], pg)
      [] pg \in In(L.b2) \ (In(L.t1) \cup In(L.t2) \cup In(L.b1)) ->
            Promote([L EXCEPT !.p = Lowered(L), !.b2 = Forget(@, pg)], pg)
      [] OTHER -> Adapt([L EXCEPT !.t1 = <<pg>> \o @])

-----------------------------------------------------------------------------
(* SelectVictim *)

\* The entries of a list that findVictim can take, and the one nearest to the back.
Takeable(q) == {i \in DOMAIN q : \E f \in Evictable : page[f] = q[i]}
LastTakeable(q) == CHOOSE i \in Takeable(q) : \A j \in Takeable(q) : j <= i
FrameOf(pg) == Lowest({f \in Evictable : page[f] = pg})

FindVictim ==
    CASE Takeable(t1) # {} -> FrameOf(t1[LastTakeable(t1)])
      [] Takeable(t1) = {} /\ Takeable(t2) # {} -> FrameOf(t2[LastTakeable(t2)])
      [] OTHER -> Lowest(Evictable)

\* Mutant: the victim's entry is copied to the ghosts and stays where it is.
AfterVictimCopied(pg) ==
    CASE Takeable(t1) # {} -> [Lists EXCEPT !.b1 = Ghost(@, pg)]
      [] Takeable(t1) = {} /\ Takeable(t2) # {} -> [Lists EXCEPT !.b2 = Ghost(@, pg)]
      [] OTHER -> [Lists EXCEPT !.t1 = Forget(@, pg), !.t2 = Forget(@, pg), !.b1 = Ghost(@, pg)]

\* moveToB1, moveToB2, or a new entry in B1 for a victim that had none.
AfterVictim(pg) ==
    CASE Takeable(t1) # {} ->
            [Lists EXCEPT !.t1 = Without(@, LastTakeable(t1)), !.b1 = Ghost(@, pg)]
      [] Takeable(t1) = {} /\ Takeable(t2) # {} ->
            [Lists EXCEPT !.t2 = Without(@, LastTakeable(t2)), !.b2 = Ghost(@, pg)]
      [] OTHER -> [Lists EXCEPT !.t1 = Forget(@, pg), !.t2 = Forget(@, pg), !.b1 = Ghost(@, pg)]

-----------------------------------------------------------------------------
(* The memory manager *)

Resident == {page[f] : f \in Used}

\* A fault while a frame is free.  A page of another process may have the same ID.  A
\* copy-on-write copy is loaded the same way.
Fault(pg) ==
    /\ Used # Frames
    /\ page' = [page EXCEPT ![Lowest(Frames \ Used)] = pg]
    /\ Become(OnPageFault(Lists, pg))
    /\ stray' = (stray \/ pg \in Resident)
    /\ UNCHANGED pinned

\* A fault that evicts first.
FaultEvict(pg) ==
    /\ Used = Frames /\ Evictable # {}
    /\ page' = [page EXCEPT ![FindVictim] = pg]
    /\ Become(OnPageFault(AfterVictim(page[FindVictim]), pg))
    /\ stray' = (stray \/ pg \in Resident)
    /\ UNCHANGED pinned

Hit(f) ==
    /\ f \in Used
    /\ Become(OnPageAccess(Lists, page[f]))
    /\ UNCHANGED <<page, pinned, stray>>

\* RemoveProcess releases frames without a word to the policy.
Release(f) ==
    /\ f \in Used
    /\ page' = [page EXCEPT ![f] = NoPage] /\ stray' = TRUE
    /\ UNCHANGED <<pinned, lists>>

\* MemoryManager.Reset clears the frames, but for their pins, and the lists.
Reset ==
    /\ page' = [f \in Frames |-> NoPage]
    /\ Become([t1 |-> <<>>, t2 |-> <<>>, b1 |-> <<>>, b2 |-> <<>>, p |-> 0])
    /\ stray' = FALSE
    /\ UNCHANGED pinned

\* External: Frame.Pin and Frame.Unpin have no caller in the repository but its tests.
SetPinned(f) ==
    /\ f \in Pinnable
    /\ pinned' = IF f \in pinned THEN pinned \ {f} ELSE pinned \cup {f}
    /\ UNCHANGED <<page, lists, stray>>

Next ==
    \/ \E pg \in Pages : Fault(pg) \/ FaultEvict(pg)
    \/ \E f \in Frames : Hit(f) \/ Release(f) \/ SetPinned(f)
    \/ Reset

Spec == Init /\ [][Next]_vars

-----------------------------------------------------------------------------
(* Properties *)

\* Every variable has its type, and no ghost list outgrows c.
TypeOK ==
    /\ page \in [Frames -> Pages \cup {NoPage}] /\ pinned \subseteq Frames
    /\ t1 \in Seq(Pages) /\ t2 \in Seq(Pages)
    /\ b1 \in Seq(Pages) /\ Len(b1) <= c
    /\ b2 \in Seq(Pages) /\ Len(b2) <= c
    /\ p \in 0 .. c /\ stray \in BOOLEAN

\* The second loop of adapt runs while T1 and T2 are longer than c together and takes
\* entries from T2 only: once T2 is empty it would run forever, under the lock of the
\* memory manager.  Its first loop cuts T1 to the target, so that the second one ends as
\* the target never exceeds c, however far the ghosts move it; and T1 is within the target
\* between operations too, whatever is released, pinned or loaded twice.
TargetKept == Len(t1) <= p /\ p <= c

\* Without releases and with one process, T1 and T2 hold pages that are resident, each
\* of them once, although the ghost lists may hold a page twice and a resident one.
\* An entry left behind by an eviction would attract searches that find no frame.
TrackedOnce ==
    LET q == t1 \o t2
    IN  ~stray =>
        /\ In(q) \subseteq Resident
        /\ \A i, j \in DOMAIN q : q[i] = q[j] => i = j

=============================================================================
