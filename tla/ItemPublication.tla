-------------------------- MODULE ItemPublication --------------------------
(***************************************************************************)
(* What the publish path promises, free of databases and of Redis: an item *)
(* whose publication was accepted is handed to the processing stream once, *)
(* and only accepted items are.  pkg/itemdispatch implements it with an    *)
(* outbox table, a Redis script and a recovery loop (module ItemOutbox).   *)
(***************************************************************************)
EXTENDS Naturals

CONSTANT Items

VARIABLES
  accepted,  \* items whose PublishItem transaction committed
  delivered  \* delivered[i]: how often i was handed to stream:item:publish

pubVars == <<accepted, delivered>>

PubInit ==
  /\ accepted = {}
  /\ delivered = [i \in Items |-> 0]

Accept(i) ==
  /\ i \notin accepted
  /\ accepted' = accepted \cup {i}
  /\ UNCHANGED delivered

Deliver(i) ==
  /\ i \in accepted /\ delivered[i] = 0
  /\ delivered' = [delivered EXCEPT ![i] = 1]
  /\ UNCHANGED accepted

PubNext == \E i \in Items : Accept(i) \/ Deliver(i)

PubSpec == PubInit /\ [][PubNext]_pubVars
=============================================================================
