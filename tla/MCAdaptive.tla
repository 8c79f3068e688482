----------------------------- MODULE MCAdaptive -----------------------------
(* Instances of Adaptive for TLC.                                           *)
EXTENDS Adaptive

\* A bound of the model: once pages were released or loaded twice, CAR's ghost lists
\* would hold every sequence of four page IDs each.
FewGhosts == alg = "CAR" /\ stray => Len(car.b1) + Len(car.b2) <= 2

=============================================================================
