----------------------------- MODULE MCPolicies -----------------------------
(* Instances of Policies for TLC. *)
EXTENDS Policies
=============================================================================
