------------------------------ MODULE Adaptive ------------------------------
(***************************************************************************)
(* The memory manager with one of its two adaptive policies, ARC and CAR.  *)
(* SetAlgorithm replaces the policy by a new one over the frames as they   *)
(* are, whose pages the new policy has never heard of, and the old one is  *)
(* forgotten: the lists of the policy that is not in use are empty.        *)
(***************************************************************************)
EXTENDS ARC

VARIABLES
    car,   \* the fields of CAR
    alg    \* mm.algorithm: "ARC" or "CAR"

CAR == INSTANCE CAR

all == <<vars, car, alg>>

\* The lists of a new ARC.
Empty == [t1 |-> <<>>, t2 |-> <<>>, b1 |-> <<>>, b2 |-> <<>>, p |-> 0]

AdaptiveInit == Init /\ CAR!Init /\ alg \in {"ARC", "CAR"}

ARCStep == alg = "ARC" /\ Next /\ UNCHANGED <<car, alg>>
CARStep == alg = "CAR" /\ CAR!Next /\ UNCHANGED <<lists, alg>>

\* SetAlgorithm, also to the algorithm in use.
SetAlgorithm(a) ==
    /\ alg' = a /\ Become(Empty) /\ car' = CAR!NewCAR
    /\ UNCHANGED <<page, pinned, stray>>

AdaptiveNext == ARCStep \/ CARStep \/ \E a \in {"ARC", "CAR"} : SetAlgorithm(a)

AdaptiveSpec == AdaptiveInit /\ [][AdaptiveNext]_all

-----------------------------------------------------------------------------

\* The properties of CAR hold whatever has happened to the frames under ARC: a page is
\* listed once, in the rings only while it is resident ...
ListedOnce == CAR!ListedOnce

\* ... and a search skips no page of the rings that can go (SelectVictim of car.go).
NoCandidateSkipped == CAR!NoCandidateSkipped

=============================================================================
