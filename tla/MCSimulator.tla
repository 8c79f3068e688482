----------------------------- MODULE MCSimulator -----------------------------
(* Instances of Simulator for TLC.                                           *)
EXTENDS Simulator

AllScenarios == Names \cup {Unknown}

=============================================================================
