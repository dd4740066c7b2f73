---------------------------- MODULE MCRelations ----------------------------
(* Relations for TLC; the constants get their values in the configurations. *)
EXTENDS Relations, TLC

\* Neither agents nor call slots differ.  Only runs without liveness use it.
Symmetry == Permutations(Agents) \cup Permutations(Calls)
=============================================================================
