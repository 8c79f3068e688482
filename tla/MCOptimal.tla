------------------------------ MODULE MCOptimal ------------------------------
(* Instances of Optimal for TLC. *)
EXTENDS Optimal
=============================================================================
