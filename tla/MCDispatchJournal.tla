------------------------- MODULE MCDispatchJournal -------------------------
(* DispatchJournal for TLC. *)
EXTENDS DispatchJournal
=============================================================================
