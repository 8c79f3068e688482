-------------------------- MODULE MCProcessManager --------------------------
(* Instances of ProcessManager for TLC. *)
EXTENDS ProcessManager

CONSTANTS t1, t2

TwoThreads == {t1, t2}
=============================================================================
