------------------------------- MODULE Optimal -------------------------------
(***************************************************************************)
(* The Optimal policy (optimal.go) serving a trace that RunScenario has    *)
(* computed beforehand, for one process whose pages the trace names.  The  *)
(* memory manager calls OnPageAccess for hits and OnPageFault for faults;  *)
(* only the first moves currentIndex.  OPT+ chooses the same victims while *)
(* no frame is dirty: it marks none itself, but its penalty counts for     *)
(* those that were written under the policy in use before it.              *)
(***************************************************************************)
EXTENDS Integers, Sequences, FiniteSets

CONSTANTS
    Pages,       \* the pages of the process
    NoPage,
    NumFrames,
    TraceLength  \* bound: accesses of a trace

Frames == 0 .. NumFrames - 1
\* The distance of a page that is not accessed again, more than any trace's length.
Never == TraceLength + 1

VARIABLES
    trace,   \* the future accesses, numbered from 1
    served,  \* accesses of the trace that have been served
    index,   \* currentIndex, which numbers accesses from 0
    memory   \* the page in each frame

vars == <<trace, served, index, memory>>

Init ==
    /\ trace \in [1 .. TraceLength -> Pages]
    /\ served = 0 /\ index = 0
    /\ memory = [f \in Frames |-> NoPage]

\* The next access of page v whose number, from 0, is above i: Never if none is.
Distance(v, i) ==
    LET next == {n \in 1 .. TraceLength : trace[n] = v /\ n - 1 > i}
    IN  IF next = {} THEN Never
        ELSE CHOOSE d \in 1 .. TraceLength :
               i + d + 1 \in next /\ \A n \in next : i + d + 1 <= n

\* SelectVictim: the first frame of those with the farthest page, by currentIndex.
SelectVictim ==
    LET far == {f \in Frames : \A g \in Frames :
                  Distance(memory[f], index) >= Distance(memory[g], index)}
    IN  CHOOSE f \in far : \A g \in far : f <= g

Page == trace[served + 1]
Serving == served < TraceLength
Resident(v) == \E f \in Frames : memory[f] = v
Full == \A f \in Frames : memory[f] # NoPage
MustEvict == Serving /\ ~Resident(Page) /\ Full

Hit ==
    /\ Serving /\ Resident(Page)
    /\ served' = served + 1 /\ index' = index + 1
    /\ UNCHANGED <<trace, memory>>

\* A fault is not counted: "currentIndex is advanced only in OnPageAccess to avoid
\* double-increment".
Load(f) ==
    /\ memory' = [memory EXCEPT ![f] = Page]
    /\ served' = served + 1
    /\ UNCHANGED <<trace, index>>

Fault ==
    /\ Serving /\ ~Resident(Page)
    /\ \E f \in Frames : memory[f] = NoPage /\ (\A g \in 0 .. f - 1 : memory[g] # NoPage) /\ Load(f)

FaultEvict == MustEvict /\ Load(SelectVictim)

Next == Hit \/ Fault \/ FaultEvict

Spec == Init /\ [][Next]_vars

-----------------------------------------------------------------------------

\* When the access that is being served faults: the true distance of a page.
TrueDistance(v) == Distance(v, served)

-----------------------------------------------------------------------------
(* What the repository says of the program and the program does not keep.     *)

\* "SelectVictim selects the page that will not be used for the longest time"
\* (optimal.go).  The index counts hits only, so it is behind by the number of
\* faults, and uses that are past count as the next ones.
Farthest ==
    MustEvict => \A f \in Frames :
        TrueDistance(memory[SelectVictim]) >= TrueDistance(memory[f])

=============================================================================
