----------------------------- MODULE MCPMWatch -----------------------------
(* PMWatch for TLC. *)
EXTENDS PMWatch
=============================================================================
