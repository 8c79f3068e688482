------------------------------ MODULE Policies ------------------------------
(***************************************************************************)
(* The replacement policies of internal/algorithms over what the frames    *)
(* record.  FIFO, LRU, LFU, CLOCK, NRU, WSClock, Random and PFF decide     *)
(* from it.  Optimal, OPT+, ARC and CAR decide from records of their own,  *)
(* which modules Optimal and Adaptive model: here they are what they do to *)
(* the frames, which the policy selected after them finds.                 *)
(* The memory manager drives them through OnPageAccess, OnPageFault,       *)
(* OnPageEviction and SelectVictim, always under mm.mu, and asks for a     *)
(* victim when every frame is in use, and under PFF also to trim the       *)
(* resident set after a fault.  Times are abstracted to the order of the   *)
(* frames by LoadedAt and by LastAccess.                                   *)
(***************************************************************************)
EXTENDS Integers, Sequences, FiniteSets

CONSTANTS
    NumFrames,
    Algs,          \* the policies that callers select
    Pinnable,      \* the frames that callers pin
    ClearPeriod,   \* clearPeriod of NRU (50)
    MinResident,   \* minResident of PFF (4)
    AdjustInterval, \* adjustInterval of PFF (10)
    MaxCount       \* bound: accesses of a frame between two loads

PolicyNames ==
    {"FIFO", "LRU", "LFU", "CLOCK", "NRU", "WSClock", "Random", "PFF",
     "Optimal", "OPT+", "ARC", "CAR"}
Frames == 0 .. NumFrames - 1
NoFrame == -1

ASSUME NumFramesAssumption == NumFrames \in Nat \ {0}
ASSUME AlgsAssumption == Algs \subseteq PolicyNames /\ Algs # {}
ASSUME PinnableAssumption == Pinnable \subseteq Frames
ASSUME CountsAssumption ==
    {ClearPeriod, MinResident, AdjustInterval, MaxCount} \subseteq Nat

VARIABLES
    alg,      \* the policy in use
    hand,     \* hand of CLOCK and of WSClock
    ticks,    \* accessCount of NRU, up to ClearPeriod
    pff,      \* targetResident and accessSinceAdjust of PFF
    loaded,   \* the frames in use, by LoadedAt
    touched,  \* the frames in use, by LastAccess
    ref,      \* the frames with ReferenceBit
    mod,      \* the frames with Modified
    pinned,   \* the frames with Pinned
    count,    \* AccessCount
    lastUse,  \* history: the frames in use, by the last load, read or write of their page
    blind     \* history: the frames whose LastAccess is older than the last use of their page

policy == <<alg, hand, ticks, pff>>
frames == <<loaded, touched, ref, mod, count, lastUse, blind>>
vars == <<policy, frames, pinned>>

\* NewPFF, as SetAlgorithm calls it.
NewPFF == [target |-> NumFrames \div 2, since |-> 0]

Init ==
    /\ alg \in Algs /\ hand = 0 /\ ticks = 0 /\ pff = NewPFF
    /\ loaded = <<>> /\ touched = <<>> /\ lastUse = <<>>
    /\ ref = {} /\ mod = {} /\ pinned = {}
    /\ count = [f \in Frames |-> 0] /\ blind = {}

Elements(q) == {q[i] : i \in DOMAIN q}

\* The frames of a sequence that are in S, in their order.
Keep(q, S) ==
    LET keep[i \in 0 .. Len(q)] ==
          IF i = 0 THEN <<>>
          ELSE IF q[i] \in S THEN Append(keep[i - 1], q[i]) ELSE keep[i - 1]
    IN  keep[Len(q)]
Without(q, f) == Keep(q, Frames \ {f})
ToEnd(q, f) == Append(Without(q, f), f)
Used == Elements(loaded)
Evictable == Used \ pinned

\* The first frame of a sequence that is in S: {} if there is none.
FirstIn(q, S) ==
    {q[i] : i \in {j \in DOMAIN q : q[j] \in S /\ \A k \in 1 .. j - 1 : q[k] \notin S}}
Lowest(S) == {f \in S : \A g \in S : f <= g}

-----------------------------------------------------------------------------
(* SelectVictim.  Each policy yields outcomes: a victim, and what the search  *)
(* leaves of the hand, the reference bits and the dirty bits.                 *)

Outcome(f, h, R, M) == [victim |-> f, hand |-> h, ref |-> R, mod |-> M]
Pick(S) == {Outcome(f, hand, ref, mod) : f \in S}

FIFOVictim == Pick(FirstIn(loaded, Evictable))

LRUVictim == Pick(FirstIn(touched, Evictable))

LFUVictim ==
    LET least == {f \in Evictable : \A g \in Evictable : count[f] <= count[g]}
    IN  Pick(FirstIn(touched, least))

RandomVictim == Pick(Evictable)

\* Optimal and OPT+: the first frame, in frame order, with the highest score.  The score
\* of a page follows from the accesses that are expected and from its dirty bit: as far
\* as the frames tell, it may be anything.
FarthestVictim(score) ==
    Pick(Lowest({f \in Evictable : \A g \in Evictable : score[g] <= score[f]}))
Scores == [Frames -> Frames]

\* ARC and CAR: the frame depends on their lists, any frame is taken if they have none.
ListedVictim == Pick(Evictable)

\* The periodic tick first clears the reference bits of all frames in use.
NRUVictim ==
    LET R        == IF ticks >= ClearPeriod THEN ref \ Used ELSE ref
        class(f) == (IF f \in R THEN 2 ELSE 0) + (IF f \in mod THEN 1 ELSE 0)
    IN  {Outcome(f, hand, R, mod) :
            f \in {g \in Evictable : \A k \in Evictable : class(g) <= class(k)}}

Turn(h) == (h + 1) % NumFrames

\* Where the search found nothing: the first frame of S in frame order.
FromStart(c, S) == {[c EXCEPT !.victim = f, !.hand = Turn(f)] : f \in Lowest(S)}

\* A step of CLOCK's hand: a frame with its reference bit set loses it, the first
\* one without is the victim.
ClockStep(c) ==
    LET f == c.hand
    IN  IF c.victim # NoFrame THEN c
        ELSE [c EXCEPT !.hand = Turn(f),
                       !.ref = IF f \in Evictable THEN @ \ {f} ELSE @,
                       !.victim = IF f \in Evictable \ c.ref THEN f ELSE NoFrame]

\* k steps of the hand.
ClockSweep(k) ==
    LET sweep[i \in 0 .. k] ==
          IF i = 0 THEN Outcome(NoFrame, hand, ref, mod) ELSE ClockStep(sweep[i - 1])
    IN  sweep[k]

\* Mutant: one turn of the hand instead of two.
ClockOneTurn ==
    LET last == ClockSweep(NumFrames)
    IN  IF last.victim # NoFrame THEN {last} ELSE FromStart(last, Evictable)

\* CLOCK: at most two turns of the hand.
ClockVictim ==
    LET last == ClockSweep(2 * NumFrames)
    IN  IF last.victim # NoFrame THEN {last} ELSE FromStart(last, Evictable)

\* The frames outside the working set: those last accessed before the window, so
\* some of the first ones of touched.
Ageings == {Elements(SubSeq(touched, 1, k)) : k \in 0 .. Len(touched)}

\* A step of WSClock's hand, with the frames in A outside the working set: a frame in
\* use loses its reference bit, or else, if it is in A, its dirty bit, or else is the
\* victim.
WSStep(A, c) ==
    LET f    == c.hand
        idle == f \in (Evictable \cap A) \ c.ref
    IN  IF c.victim # NoFrame THEN c
        ELSE [c EXCEPT !.hand = Turn(f),
                       !.ref = IF f \in Evictable THEN @ \ {f} ELSE @,
                       !.mod = IF idle THEN @ \ {f} ELSE @,
                       !.victim = IF idle /\ f \notin c.mod THEN f ELSE NoFrame]

\* WSClock's two turns.
WSSweep(A) ==
    LET sweep[i \in 0 .. 2 * NumFrames] ==
          IF i = 0 THEN Outcome(NoFrame, hand, ref, mod) ELSE WSStep(A, sweep[i - 1])
    IN  sweep[2 * NumFrames]

\* Mutant: no third attempt, for when every page is in the working set.
WSChooseAged(c, A) ==
    LET aged == (Evictable \cap A) \ c.mod
    IN  IF c.victim # NoFrame THEN {c} ELSE FromStart(c, aged)

\* Mutant: no second attempt, for pages that the sweep itself has cleaned.
WSChooseAny(c, A) ==
    IF c.victim # NoFrame THEN {c} ELSE FromStart(c, Evictable)

\* The frame that is chosen after a sweep c, with the frames in A outside the working
\* set by then: the sweep's own, a clean one in A, or any.
WSChoose(c, A) ==
    LET aged == (Evictable \cap A) \ c.mod
    IN  IF c.victim # NoFrame THEN {c}
        ELSE IF aged # {} THEN FromStart(c, aged)
        ELSE FromStart(c, Evictable)

\* Time passes during the search: more frames may be outside at its end.
WSClockVictim(A, later) == WSChoose(WSSweep(A), later)
Later(A) == {B \in Ageings : A \subseteq B}

\* The outcomes of a search, for each way in which time may pass meanwhile and for
\* each score that pages may have.
Searches ==
    CASE alg = "FIFO"    -> {FIFOVictim}
      [] alg = "LRU"     -> {LRUVictim}
      [] alg = "LFU"     -> {LFUVictim}
      [] alg = "CLOCK"   -> {ClockVictim}
      [] alg = "NRU"     -> {NRUVictim}
      [] alg = "Random"  -> {RandomVictim}
      [] alg = "PFF"     -> {LRUVictim}
      [] alg \in {"Optimal", "OPT+"} -> {FarthestVictim(score) : score \in Scores}
      [] alg \in {"ARC", "CAR"} -> {ListedVictim}
      [] alg = "WSClock" -> UNION {{WSClockVictim(A, B) : B \in Later(A)} : A \in Ageings}
SelectVictim == UNION Searches

-----------------------------------------------------------------------------
(* PFF's resident set *)

Smaller(m, n) == IF m < n THEN m ELSE n

\* adjustResidentSize, for a target t and n resident pages.  The rate is that of the
\* faults in the last five seconds: as time passes it may be anything.
AdjustResidentSize(t, n, rate) ==
    LET r == CASE rate = "high" /\ t < NumFrames -> t + 1
               [] rate = "low" /\ t > MinResident -> t - 1
               [] OTHER -> t
    IN  IF n > r + 1 THEN Smaller(n - 1, NumFrames) ELSE r

\* What a call of SelectVictim with n candidates makes of the fields.
Adjusted(c, n) ==
    IF c.since >= AdjustInterval
    THEN {[target |-> AdjustResidentSize(c.target, n, rate), since |-> 1] :
             rate \in {"low", "medium", "high"}}
    ELSE {[c EXCEPT !.since = @ + 1]}

\* ... and what k calls make of them, each of which evicts one of the n candidates.
AdjustedBy(c, n, k) ==
    LET calls[i \in 0 .. k] ==
          IF i = 0 THEN {c} ELSE UNION {Adjusted(d, n - i + 1) : d \in calls[i - 1]}
    IN  calls[k]

\* Mutant: the loop stops one page early.
ExcessLess(used, t) == IF t <= 0 \/ used <= t + 1 THEN 0 ELSE used - t - 1

\* enforcePFFResident: the pages in use beyond the target it is called with.
Excess(used, t) == IF t <= 0 \/ used <= t THEN 0 ELSE used - t

\* The frames that are evicted after a fault has loaded frame f, and the fields then.
\* The target is read once, before the loop; the calls of the loop may move it.
Trims(f, c) ==
    LET used == Used \cup {f}
        can  == Keep(ToEnd(touched, f), Frames \ pinned)
        k    == Smaller(Excess(Cardinality(used), c.target), Len(can))
    IN  {[gone |-> Elements(SubSeq(can, 1, k)), limit |-> c.target, pff |-> d] :
            d \in AdjustedBy(c, Len(can), k)}

\* A fault under PFF, into frame f, with the fields c that its own search has left.
PFFFaults ==
    IF Used # Frames
    THEN UNION {{[frame |-> f, trim |-> x] : x \in Trims(f, pff)} : f \in Lowest(Frames \ Used)}
    ELSE UNION {UNION {{[frame |-> o.victim, trim |-> x] : x \in Trims(o.victim, c)} :
                          c \in Adjusted(pff, Cardinality(Evictable))} : o \in SelectVictim}

-----------------------------------------------------------------------------

Tick == IF alg = "NRU" /\ ticks < ClearPeriod THEN ticks + 1 ELSE ticks

\* Whether OnPageAccess calls Frame.Access: FIFO does for writes only, Optimal and
\* OPT+ never do.
Recorded(w) == alg \notin {"Optimal", "OPT+"} /\ (w \/ alg # "FIFO")

\* Mutant: the recency of a read is not recorded.
OnPageAccessWrites(f, w) ==
    /\ touched' = IF Recorded(w) /\ w THEN ToEnd(touched, f) ELSE touched
    /\ count' = IF Recorded(w) THEN [count EXCEPT ![f] = @ + 1] ELSE count
    /\ ref' = IF Recorded(w) THEN ref \cup {f} ELSE ref
    /\ mod' = IF Recorded(w) /\ w THEN mod \cup {f} ELSE mod
    /\ ticks' = Tick

\* OnPageAccess: Frame.Access if the policy calls it, and NRU's count.
OnPageAccess(f, w) ==
    /\ touched' = IF Recorded(w) THEN ToEnd(touched, f) ELSE touched
    /\ count' = IF Recorded(w) THEN [count EXCEPT ![f] = @ + 1] ELSE count
    /\ ref' = IF Recorded(w) THEN ref \cup {f} ELSE ref
    /\ mod' = IF Recorded(w) /\ w THEN mod \cup {f} ELSE mod
    /\ ticks' = Tick

\* A read or a write of the page in frame f.
Access(f, w) ==
    /\ f \in Used /\ count[f] < MaxCount
    /\ OnPageAccess(f, w)
    /\ lastUse' = ToEnd(lastUse, f)
    /\ blind' = IF Recorded(w) THEN blind \ {f} ELSE blind \cup {f}
    /\ UNCHANGED <<alg, hand, pff, loaded, pinned>>

\* Frame.Allocate and OnPageFault on frame f, which is free or has just been
\* released; R and M are the bits that a search before it has left.
Load(f, R, M) ==
    /\ loaded' = ToEnd(loaded, f)
    /\ touched' = ToEnd(touched, f)
    /\ lastUse' = ToEnd(lastUse, f) /\ blind' = blind \ {f}
    /\ count' = [count EXCEPT ![f] = IF alg \in {"FIFO", "Optimal", "OPT+"} THEN 0 ELSE 1]
    /\ ref' = R \cup {f}
    /\ mod' = M \ {f}

\* A page fault while a frame is free.
Fault ==
    /\ alg # "PFF"
    /\ \E f \in Lowest(Frames \ Used) : Load(f, ref, mod)
    /\ ticks' = Tick
    /\ UNCHANGED <<alg, hand, pff, pinned>>

\* A page fault while none is: NRU's periodic tick restarts its count.
FaultEvict ==
    /\ Used = Frames /\ alg # "PFF"
    /\ \E o \in SelectVictim :
          Load(o.victim, o.ref, o.mod) /\ hand' = o.hand
    /\ ticks' = IF alg # "NRU" THEN ticks
                ELSE IF ticks >= ClearPeriod THEN (IF ClearPeriod > 0 THEN 1 ELSE 0)
                ELSE Tick
    /\ UNCHANGED <<alg, pff, pinned>>

\* A page fault under PFF: the page is loaded, and then the resident set is trimmed.
PFFFault ==
    /\ alg = "PFF"
    /\ \E o \in PFFFaults :
          LET stays(q) == Keep(ToEnd(q, o.frame), Frames \ o.trim.gone)
          IN  /\ loaded' = stays(loaded) /\ touched' = stays(touched)
              /\ lastUse' = stays(lastUse) /\ blind' = blind \ (o.trim.gone \cup {o.frame})
              /\ ref' = (ref \cup {o.frame}) \ o.trim.gone
              /\ mod' = mod \ (o.trim.gone \cup {o.frame})
              /\ count' = [f \in Frames |-> IF f \in o.trim.gone THEN 0
                                            ELSE IF f = o.frame THEN 1 ELSE count[f]]
              /\ pff' = o.trim.pff
    /\ UNCHANGED <<alg, hand, ticks, pinned>>

\* A page fault with every frame pinned is an error; a tick of NRU has happened, and
\* the hand of a clock is back where it was after two turns.
FaultFails ==
    /\ Used = Frames /\ SelectVictim = {}
    /\ IF alg = "NRU" /\ ticks >= ClearPeriod THEN ref' = {} /\ ticks' = 0
                                               ELSE UNCHANGED <<ref, ticks>>
    /\ UNCHANGED <<alg, hand, pff, loaded, touched, mod, count, lastUse, blind, pinned>>

\* RemoveProcess releases a frame of the process; the policy is not told.
Release(f) ==
    /\ f \in Used
    /\ loaded' = Without(loaded, f) /\ touched' = Without(touched, f)
    /\ lastUse' = Without(lastUse, f) /\ blind' = blind \ {f}
    /\ ref' = ref \ {f} /\ mod' = mod \ {f} /\ count' = [count EXCEPT ![f] = 0]
    /\ UNCHANGED <<policy, pinned>>

\* MemoryManager.SetAlgorithm: a new policy object over the frames as they are.
SetAlgorithm(a) ==
    /\ alg' = a /\ hand' = 0 /\ ticks' = 0 /\ pff' = NewPFF
    /\ UNCHANGED <<frames, pinned>>

\* MemoryManager.Reset: the frames are cleared and the policy is reset; PFF keeps its
\* target.
Reset ==
    /\ loaded' = <<>> /\ touched' = <<>> /\ lastUse' = <<>>
    /\ ref' = {} /\ mod' = {} /\ count' = [f \in Frames |-> 0]
    /\ hand' = 0 /\ ticks' = 0 /\ pff' = [pff EXCEPT !.since = 0] /\ blind' = {}
    /\ UNCHANGED <<alg, pinned>>

\* Frame.Pin, Frame.Unpin
SetPinned(f, pin) ==
    /\ pinned' = IF pin THEN pinned \cup {f} ELSE pinned \ {f}
    /\ UNCHANGED <<policy, frames>>

Next ==
    \/ \E f \in Frames : Release(f) \/ \E w \in BOOLEAN : Access(f, w)
    \/ Fault \/ FaultEvict \/ PFFFault \/ FaultFails
    \/ \E a \in Algs : SetAlgorithm(a)
    \/ Reset
    \/ \E f \in Pinnable, b \in BOOLEAN : SetPinned(f, b)

Spec == Init /\ [][Next]_vars

-----------------------------------------------------------------------------
(* Properties *)

IsOrder(q, S) == Elements(q) = S /\ Len(q) = Cardinality(S)

\* The orders by load, access and use range over the same frames, and only frames
\* in use carry bits and counts.
TypeOK ==
    /\ alg \in Algs /\ hand \in Frames /\ ticks \in 0 .. ClearPeriod
    /\ pff.since \in 0 .. AdjustInterval + 1
    /\ IsOrder(loaded, Used) /\ IsOrder(touched, Used) /\ IsOrder(lastUse, Used)
    /\ Used \subseteq Frames /\ ref \subseteq Used /\ mod \subseteq Used /\ blind \subseteq Used
    /\ pinned \subseteq Pinnable
    /\ count \in [Frames -> 0 .. MaxCount + 1]

\* What module Paging assumes of every policy: a search ends with a victim exactly
\* if there is an unpinned frame in use, and the victim is one of them, however the
\* bits, the hand and the ages are.
VictimFound ==
    \A S \in Searches :
        /\ \A o \in S : o.victim \in Evictable
        /\ S = {} <=> Evictable = {}

\* How far ahead of the hand a frame is.
Ahead(f) == (f - hand + NumFrames) % NumFrames

\* "Second-chance circular buffer with reference bits" (README): a page that was
\* referenced is spared while some page was not, the hand takes the first such page
\* ahead of it, and takes the chance of exactly the pages that it passes.  "worst
\* case: two full sweeps" (clock.go): the search never falls back on frame order.
SecondChance ==
    alg = "CLOCK" =>
      \A o \in SelectVictim :
        LET idle   == Evictable \ ref
            choice == IF idle = {} THEN Evictable ELSE idle
        IN  /\ o.victim \in choice
            /\ \A f \in choice : Ahead(o.victim) <= Ahead(f)
            /\ o.hand = Turn(o.victim)
            /\ o.ref = IF idle = {} THEN ref \ Evictable
                       ELSE ref \ {f \in Evictable : Ahead(f) < Ahead(o.victim)}

\* WSClock spares the working set: as long as some unpinned page is outside of it,
\* the victim is outside, even if all those pages are referenced or dirty and the
\* search has to come by several times to take their bits.
WorkingSetSpared ==
    alg = "WSClock" =>
      \A A \in Ageings : (Evictable \cap A # {}) =>
        \A B \in Later(A) : \A o \in WSClockVictim(A, B) : o.victim \in B

\* "Evicts the page unused longest" (README), whatever policies were in use before:
\* unless LRU's victim was itself read under FIFO or accessed under Optimal or OPT+ after
\* its last recorded use, its last load, read or write is the oldest of all the unpinned
\* pages, those with unrecorded uses included.
UnusedLongest ==
    alg = "LRU" =>
      \A o \in SelectVictim :
        o.victim \notin blind => {o.victim} = FirstIn(lastUse, Evictable)

\* A fault under PFF leaves no more pages than the target that the trimming was called
\* with allows, as far as pins let it, however often the loop itself moves the target;
\* and the page the fault was for is one of them unless every page that is left is
\* pinned, although trimming looks for victims among all of them.
TrimSparesNewest ==
    alg = "PFF" =>
      \A o \in PFFFaults :
        LET left == (Used \cup {o.frame}) \ o.trim.gone
        IN  /\ o.frame \in left \/ left \subseteq pinned
            /\ o.trim.limit > 0 =>
                  Cardinality(left) <= o.trim.limit \/ left \subseteq pinned

=============================================================================
