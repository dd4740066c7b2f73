---------------------------- MODULE MCItemOutbox ----------------------------
(* ItemOutbox for TLC. *)
EXTENDS ItemOutbox
=============================================================================
