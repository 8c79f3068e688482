--------------------------------- MODULE CAR ---------------------------------
(***************************************************************************)
(* internal/algorithms/car.go, driven by the memory manager under mm.mu.   *)
(* T1 and T2 are rings of entries with a reference bit and a hand each, B1 *)
(* and B2 lists of page IDs; new entries go to the end.  An entry's key is *)
(* its identity, here its position, and t1Count and t2Count are always the *)
(* lengths of the rings.  Unlike ARC, a victim leaves no ghost: B1 and B2  *)
(* hold the pages that adapt has cut from the rings, resident or not.      *)
(***************************************************************************)
EXTENDS Integers, Sequences, FiniteSets

CONSTANTS
    NumFrames,   \* also c, the capacity of the rings
    Pages,       \* page IDs
    Pinnable     \* the frames that callers pin

VARIABLES
    page,     \* the page ID in each frame
    pinned,   \* the frames with Pinned
    car,      \* the fields of the policy
    stray     \* history: frames were released, or pages of one ID loaded twice

vars == <<page, pinned, car, stray>>

c == NumFrames
Frames == 0 .. NumFrames - 1
NoPage == -1
NoFrame == -1

\* NewCAR
NewCAR == [t1 |-> <<>>, t2 |-> <<>>, b1 |-> <<>>, b2 |-> <<>>,
           t1Hand |-> 0, t2Hand |-> 0, p |-> c \div 2]

Init ==
    /\ page = [f \in Frames |-> NoPage] /\ pinned = {}
    /\ car = NewCAR /\ stray = FALSE

Used == {f \in Frames : page[f] # NoPage}
Evictable == Used \ pinned
Resident == {page[f] : f \in Used}
Lowest(S) == CHOOSE f \in S : \A g \in S : f <= g

In(q) == {q[i] : i \in DOMAIN q}
PagesOf(q) == [i \in DOMAIN q |-> q[i].page]
Tracks(q, pg) == pg \in In(PagesOf(q))
Smaller(m, n) == IF m < n THEN m ELSE n
Larger(m, n) == IF m < n THEN n ELSE m
After(n, q) == SubSeq(q, n + 1, Len(q))
LastOf(n, q) == After(Len(q) - Smaller(n, Len(q)), q)
Without(q, i) == SubSeq(q, 1, i - 1) \o After(i, q)

-----------------------------------------------------------------------------
(* The rings and the ghosts *)

\* moveT1ToB1 and moveT2ToB2, n times: the oldest entries go, and a list of more than
\* 2c ghosts loses its oldest.
Ghosts(b, q, n) == LastOf(2 * c, b \o SubSeq(PagesOf(q), 1, n))

\* adapt: T1 is cut to p entries, then T2 until both have c, and then T1 if T2 is empty.
Adapt(L) ==
    LET n1 == Larger(Len(L.t1) - L.p, 0)
        n  == Larger(Len(L.t1) - n1 + Len(L.t2) - c, 0)
        n2 == Smaller(n, Len(L.t2))
        m1 == n1 + (n - n2)
    IN  [L EXCEPT !.t1 = After(m1, @), !.b1 = Ghosts(@, L.t1, m1),
                  !.t2 = After(n2, @), !.b2 = Ghosts(@, L.t2, n2)]

\* removeFromB1 and removeFromB2: the first entry of the page.
Forget(b, pg) ==
    Without(b, CHOOSE i \in DOMAIN b : b[i] = pg /\ \A j \in 1 .. i - 1 : b[j] # pg)

NewEntry(pg) == <<[page |-> pg, ref |-> TRUE]>>

\* How far a hit in a ghost list of length m moves p, the other one having length n.
Delta(m, n) == IF m >= n THEN Larger(1, m \div Larger(1, n)) ELSE 1

\* Mutant: a page that comes back stays among the ghosts.
OnPageFaultKeepGhost(L, pg) ==
    Adapt(IF pg \in In(L.b1) \cup In(L.b2) THEN [L EXCEPT !.t2 = @ \o NewEntry(pg)]
          ELSE [L EXCEPT !.t1 = @ \o NewEntry(pg)])

OnPageFault(L, pg) ==
    Adapt(CASE pg \in In(L.b1) -> [L EXCEPT !.b1 = Forget(@, pg), !.t2 = @ \o NewEntry(pg)]
            [] pg \in In(L.b2) \ In(L.b1) ->
                  [L EXCEPT !.b2 = Forget(@, pg), !.t2 = @ \o NewEntry(pg)]
            [] OTHER -> [L EXCEPT !.t1 = @ \o NewEntry(pg)])

\* The reference bit of the first entry of a page is set.
Touch(q, pg) ==
    LET first == CHOOSE i \in DOMAIN q : q[i].page = pg /\ \A j \in 1 .. i - 1 : q[j].page # pg
    IN  [q EXCEPT ![first].ref = TRUE]

\* The page enters T2 after adapt has run on the rest.
Promote(L, pg) == LET M == Adapt(L) IN [M EXCEPT !.t2 = @ \o NewEntry(pg)]

OnPageAccess(L, pg) ==
    LET ringed == Tracks(L.t1, pg) \/ Tracks(L.t2, pg)
    IN  CASE Tracks(L.t1, pg) -> [L EXCEPT !.t1 = Touch(@, pg)]
          [] ringed /\ ~Tracks(L.t1, pg) -> [L EXCEPT !.t2 = Touch(@, pg)]
          [] ~ringed /\ pg \in In(L.b1) ->
                Promote([L EXCEPT !.p = Smaller(@ + Delta(Len(L.b1), Len(L.b2)), c),
                                  !.b1 = Forget(@, pg)], pg)
          [] ~ringed /\ pg \in In(L.b2) \ In(L.b1) ->
                Promote([L EXCEPT !.p = Larger(@ - Delta(Len(L.b2), Len(L.b1)), 0),
                                  !.b2 = Forget(@, pg)], pg)
          [] OTHER -> Adapt([L EXCEPT !.t1 = @ \o NewEntry(pg)])

-----------------------------------------------------------------------------
(* SelectVictim *)

\* findFrameByPageID, over the used frames.  An entry is passed over if its frame is
\* gone or pinned, whatever other frame has the same page ID.
FrameOf(pg) == IF pg \in Resident THEN Lowest({f \in Used : page[f] = pg}) ELSE NoFrame
Candidate(e) == FrameOf(e.page) \in Evictable

\* One round of the loop over T1, in a search x that has found no victim so far: a
\* referenced entry moves to T2 and the hand stays.
T1Round(x) ==
    LET L == x.lists
        h == L.t1Hand % Len(L.t1)
        e == L.t1[h + 1]
    IN  CASE x.victim # NoFrame \/ L.t1 = <<>> -> x
          [] OTHER ->
             CASE ~Candidate(e) -> [x EXCEPT !.lists.t1Hand = h + 1]
               [] Candidate(e) /\ e.ref ->
                    [x EXCEPT !.lists.t1Hand = h, !.lists.t1 = Without(@, h + 1),
                              !.lists.t2 = Append(@, [e EXCEPT !.ref = FALSE])]
               [] OTHER ->
                    [victim |-> FrameOf(e.page),
                     lists |-> [L EXCEPT !.t1Hand = h + 1, !.t1 = Without(@, h + 1)]]

\* The same over T2, where a referenced entry loses its bit and stays.
T2Round(x) ==
    LET L == x.lists
        h == L.t2Hand % Len(L.t2)
        e == L.t2[h + 1]
    IN  CASE x.victim # NoFrame \/ L.t2 = <<>> -> x
          [] OTHER ->
             CASE ~Candidate(e) -> [x EXCEPT !.lists.t2Hand = h + 1]
               [] Candidate(e) /\ e.ref ->
                    [x EXCEPT !.lists.t2Hand = h + 1, !.lists.t2[h + 1].ref = FALSE]
               [] OTHER ->
                    [victim |-> FrameOf(e.page),
                     lists |-> [L EXCEPT !.t2Hand = h + 1, !.t2 = Without(@, h + 1)]]

\* Each loop runs for twice the length its ring had before.
T1Search(x) ==
    LET after[n \in 0 .. 2 * Len(x.lists.t1)] == IF n = 0 THEN x ELSE T1Round(after[n - 1])
    IN  after[2 * Len(x.lists.t1)]

\* Mutant: the hand of T2 goes round once.
T2SearchOnce(x) ==
    LET after[n \in 0 .. Len(x.lists.t2)] == IF n = 0 THEN x ELSE T2Round(after[n - 1])
    IN  after[Len(x.lists.t2)]

T2Search(x) ==
    LET after[n \in 0 .. 2 * Len(x.lists.t2)] == IF n = 0 THEN x ELSE T2Round(after[n - 1])
    IN  after[2 * Len(x.lists.t2)]

Ringed == T2Search(T1Search([victim |-> NoFrame, lists |-> car]))

\* The victim, and the lists as the search leaves them; without a candidate in the
\* rings, the first frame that can be evicted.
SelectVictim ==
    IF Ringed.victim = NoFrame /\ Evictable # {}
    THEN [Ringed EXCEPT !.victim = Lowest(Evictable)] ELSE Ringed

-----------------------------------------------------------------------------
(* The memory manager, as in module ARC *)

Fault(pg) ==
    /\ Used # Frames
    /\ page' = [page EXCEPT ![Lowest(Frames \ Used)] = pg]
    /\ car' = OnPageFault(car, pg)
    /\ stray' = (stray \/ pg \in Resident)
    /\ UNCHANGED pinned

FaultEvict(pg) ==
    /\ Used = Frames /\ Evictable # {}
    /\ page' = [page EXCEPT ![SelectVictim.victim] = pg]
    /\ car' = OnPageFault(SelectVictim.lists, pg)
    /\ stray' = (stray \/ pg \in Resident)
    /\ UNCHANGED pinned

\* A fault that finds every frame pinned has moved the hands.
FaultFails ==
    /\ Used = Frames /\ Evictable = {}
    /\ car' = SelectVictim.lists
    /\ UNCHANGED <<page, pinned, stray>>

Hit(f) ==
    /\ f \in Used
    /\ car' = OnPageAccess(car, page[f])
    /\ UNCHANGED <<page, pinned, stray>>

Release(f) ==
    /\ f \in Used
    /\ page' = [page EXCEPT ![f] = NoPage] /\ stray' = TRUE
    /\ UNCHANGED <<pinned, car>>

\* Reset starts the policy again, and clears the frames but for their pins.
Reset ==
    /\ page' = [f \in Frames |-> NoPage] /\ car' = NewCAR /\ stray' = FALSE
    /\ UNCHANGED pinned

SetPinned(f) ==
    /\ f \in Pinnable
    /\ pinned' = IF f \in pinned THEN pinned \ {f} ELSE pinned \cup {f}
    /\ UNCHANGED <<page, car, stray>>

Next ==
    \/ \E pg \in Pages : Fault(pg) \/ FaultEvict(pg)
    \/ \E f \in Frames : Hit(f) \/ Release(f) \/ SetPinned(f)
    \/ FaultFails \/ Reset

Spec == Init /\ [][Next]_vars

-----------------------------------------------------------------------------
(* Properties *)

\* Without releases and with one process, a page is in one of the four lists at most,
\* and once, and those in the rings are resident.  It takes evictions, ghosts and hits
\* of pages that were cut from the rings while resident to get there.
ListedOnce ==
    LET ring == PagesOf(car.t1) \o PagesOf(car.t2)
        all  == ring \o car.b1 \o car.b2
    IN  ~stray =>
        /\ In(ring) \subseteq Resident
        /\ \A i, j \in DOMAIN all : all[i] = all[j] => i = j

\* "cause valid T1 candidates to be skipped" (SelectVictim, on the bound of its loop):
\* wherever the hands are, a search takes a page from the rings as long as they hold a
\* page that can go, and the fallback only otherwise; and it takes an entry of T1 that
\* is not referenced before any entry of T2.
NoCandidateSkipped ==
    LET old == {i \in DOMAIN car.t1 : Candidate(car.t1[i]) /\ ~car.t1[i].ref}
        all == {e \in In(car.t1) \cup In(car.t2) : Candidate(e)}
    IN  Used = Frames =>
        /\ all # {} => Ringed.victim # NoFrame
        /\ old # {} => page[Ringed.victim] \in {car.t1[i].page : i \in old}

=============================================================================
