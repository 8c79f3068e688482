--------------------------- MODULE MCCopyOnWrite ---------------------------
(* Instances of CopyOnWrite for TLC. *)
EXTENDS CopyOnWrite, TLC

CONSTANTS p1, p2, p3, p4

FourProcs == {p1, p2, p3, p4}
TwoRoots == {p1, p2}

\* The roots are interchangeable, and so are those yet to be forked.
TwoFamilies == Permutations({p1, p2}) \cup Permutations({p3, p4})
=============================================================================
