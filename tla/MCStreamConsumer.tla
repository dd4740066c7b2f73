-------------------------- MODULE MCStreamConsumer --------------------------
(* StreamConsumer for TLC. *)
EXTENDS StreamConsumer
=============================================================================
