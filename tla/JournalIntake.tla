--------------------------- MODULE JournalIntake ---------------------------
(***************************************************************************)
(* What the dispatch journal promises to the loops that fill it: it takes  *)
(* a batch as a whole or not at all, what it takes for the first time      *)
(* becomes a job, it never holds more than MaxPending unresolved jobs, and *)
(* neither a restart nor a save loses one of them.                         *)
(***************************************************************************)
EXTENDS Naturals, FiniteSets

CONSTANTS
  Jobs,       \* ids of the jobs
  MaxPending  \* journalMaxPending: unresolved jobs

VARIABLES
  accepted,    \* jobs that were ever taken into the journal
  unresolved,  \* those in the journal that are not completed
  held,        \* whether dispatchLoop has a job in hand
  running      \* whether the watch is running

intake == <<accepted, unresolved, held, running>>

IntakeInit == accepted = {} /\ unresolved = {} /\ held = FALSE /\ running = TRUE

Fits(S) == Cardinality(S) <= MaxPending

\* A batch is taken.  What was accepted before and has been completed is a job
\* again if its receipt has been dropped.
Accept(S) ==
  /\ running
  /\ accepted' = accepted \cup S
  /\ \E again \in SUBSET (S \cap accepted) :
       unresolved' = unresolved \cup (S \ accepted) \cup again
  /\ Fits(unresolved')
  /\ UNCHANGED <<held, running>>

Hold ==
  /\ running /\ ~held /\ unresolved # {}
  /\ held' = TRUE
  /\ UNCHANGED <<accepted, unresolved, running>>

\* One job may be completed.
Resolve ==
  /\ unresolved' \in {unresolved} \cup {unresolved \ {j} : j \in unresolved}
  /\ UNCHANGED <<accepted, running>>

\* The job in hand is done with.
Release == running /\ held /\ held' = FALSE /\ Resolve

\* The operator resolves a job while the watch is stopped.
Operator == ~running /\ Resolve /\ UNCHANGED held

Stop == running /\ running' = FALSE /\ held' = FALSE /\ UNCHANGED <<accepted, unresolved>>
Start == ~running /\ running' = TRUE /\ UNCHANGED <<accepted, unresolved, held>>

IntakeNext ==
  \/ \E S \in SUBSET Jobs : Accept(S)
  \/ Hold \/ Release \/ Operator \/ Stop \/ Start

IntakeSpec == IntakeInit /\ [][IntakeNext]_intake
=============================================================================
