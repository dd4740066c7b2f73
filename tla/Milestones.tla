----------------------------- MODULE Milestones -----------------------------
(***************************************************************************)
(* Milestone notifications of one author: ItemStatsConsumer counts, the    *)
(* check of pkg/milestone records an event for every threshold reached and *)
(* puts its notification into Redis, a recovery loop puts back what is     *)
(* still pending, and the gateway shows what Redis holds (rpc/notification)*)
(* and has it acknowledged: a feed response by a goroutine of its own, the *)
(* listing of the V2 API by a request of the client.                       *)
(*                                                                         *)
(* PostgreSQL (counts, feedback log, events) and Redis (the hash of the    *)
(* author) fail independently, and so do the processes between two calls.  *)
(* One live handler per message is what StreamConsumer promises; rules are *)
(* fixed and every counted item exists.                                    *)
(***************************************************************************)
EXTENDS Naturals, FiniteSets

CONSTANTS
  Counters,    \* an item's counters: one per item and metric
  RulesOf,     \* RulesOf[c]: thresholds of the rules enabled for c's metric
  Msgs,        \* messages of stream:item:stats
  Streams,     \* what the stream may hold: sets of messages
  CounterOf,   \* CounterOf[m]: the counter m adds to
  Feedback,    \* messages of type feedback; the others are of type consumed
  MaxRetries,  \* deliveries of a message before it is dropped
  Replicas,    \* pipeline processes, each running runMilestoneRecovery
  Batch,       \* events of one recovery page (100 in the code)
  MaxStamp,    \* bound on the order of events by (queued_at, event_id)
  Acks         \* calls of AckNotifications under way, at most at a time

Thresholds == UNION {RulesOf[c] : c \in Counters}
Events == {e \in Counters \X Thresholds : e[2] \in RulesOf[e[1]]}

ASSUME RulesAssumption == RulesOf \in [Counters -> SUBSET (Nat \ {0})]
ASSUME MsgsAssumption ==
  CounterOf \in [Msgs -> Counters] /\ Feedback \subseteq Msgs /\ Streams \subseteq SUBSET Msgs
ASSUME BoundsAssumption ==
  MaxRetries \in Nat /\ MaxStamp \in Nat /\ Batch \in Nat \ {0}
ASSUME ReplicasAssumption == IsFiniteSet(Replicas)

VARIABLES
  count,    \* count[c]: the counter in item_stats
  logged,   \* messages with a row in feedback_logs
  pc,       \* pc[m]: where the handler of m is; "stream" while it waits for one
  todo,     \* todo[m]: thresholds the check of m has still to go through
  tries,    \* tries[m]: deliveries of m that failed
  slipped,  \* counters with a failure since, that no check has read since
  event,    \* event[e]: the row of milestone_events
  stamp,    \* stamp[e]: its place in the order (queued_at, event_id)
  hash,     \* events in the Redis hash milestone:notify:<author>
  returns,  \* returns[e]: times e was put back into the hash after it was notified
  rows,     \* rows[p]: listed events that p's recovery pass has still to put
  after,    \* after[p]: the cursor of the pass; 0 at its start
  ack,      \* ack[a]: the events that call a acknowledges
  acking,   \* acking[a]: its next step
  shown     \* events that were put into a response, of the feed or of the V2 API

counting == <<count, logged, pc, todo, tries, slipped>>
passes == <<rows, after>>
acks == <<ack, acking, shown>>
vars == <<counting, event, stamp, hash, returns, passes, acks>>

TypeOK ==
  /\ count \in [Counters -> Nat]
  /\ logged \subseteq Feedback
  /\ pc \in [Msgs -> {"none", "stream", "check", "insert", "put", "done"}]
  /\ todo \in [Msgs -> SUBSET Thresholds]
  /\ tries \in [Msgs -> 0..MaxRetries]
  /\ slipped \subseteq Counters
  /\ event \in [Events -> {"absent", "pending", "notified"}]
  /\ stamp \in [Events -> 0..MaxStamp]
  /\ hash \subseteq Events
  /\ returns \in [Events -> Nat]
  /\ rows \in [Replicas -> SUBSET Events]
  /\ after \in [Replicas -> 0..MaxStamp]
  /\ ack \in [Acks -> SUBSET Events]
  /\ acking \in [Acks -> {"idle", "delete", "mark"}]
  /\ shown \subseteq Events

Init ==
  /\ count = [c \in Counters |-> 0] /\ logged = {} /\ slipped = {}
  /\ \E published \in Streams :
       pc = [m \in Msgs |-> IF m \in published THEN "stream" ELSE "none"]
  /\ todo = [m \in Msgs |-> {}]
  /\ tries = [m \in Msgs |-> 0]
  /\ event = [e \in Events |-> "absent"]
  /\ stamp = [e \in Events |-> 0]
  /\ returns = [e \in Events |-> 0]
  /\ hash = {} /\ shown = {}
  /\ rows = [p \in Replicas |-> {}]
  /\ after = [p \in Replicas |-> 0]
  /\ ack = [a \in Acks |-> {}]
  /\ acking = [a \in Acks |-> "idle"]

-----------------------------------------------------------------------------
(* ItemStatsConsumer: count, then check. *)

\* The feedback transaction (log row and counter), or the counter alone for a
\* consumed event, which has no log to tell a retry by.
Counted(m) ==
  /\ m \notin logged
  /\ logged' = IF m \in Feedback THEN logged \cup {m} ELSE logged
  /\ count' = [count EXCEPT ![CounterOf[m]] = @ + 1]

Persist(m) ==
  /\ pc[m] = "stream" /\ tries[m] < MaxRetries
  /\ Counted(m)
  /\ pc' = [pc EXCEPT ![m] = "check"]
  /\ UNCHANGED <<todo, tries, slipped, event, stamp, hash, returns, passes, acks>>

\* The log row exists: the retry of a feedback message counts and checks nothing.
Deduplicated(m) ==
  /\ pc[m] = "stream" /\ tries[m] < MaxRetries
  /\ m \in logged
  /\ pc' = [pc EXCEPT ![m] = "done"]
  /\ UNCHANGED <<count, logged, todo, tries, slipped, event, stamp, hash, returns, passes, acks>>

\* checkMilestone reads the counter and Check the rules that it has reached.
BeginCheck(m) ==
  /\ pc[m] = "check"
  /\ pc' = [pc EXCEPT ![m] = "insert"]
  /\ todo' = [todo EXCEPT ![m] = {r \in RulesOf[CounterOf[m]] : r <= count[CounterOf[m]]}]
  /\ slipped' = slipped \ {CounterOf[m]}
  /\ UNCHANGED <<count, logged, tries, event, stamp, hash, returns, passes, acks>>

\* Rules come in the order of their thresholds.
NextRule(m, r) == r \in todo[m] /\ \A q \in todo[m] : r <= q

\* InsertEventIfAbsent inserts.  Time and id were taken before, so an event may
\* come before one that is in the table already.
InsertEvent(m, r) ==
  /\ pc[m] = "insert" /\ NextRule(m, r)
  /\ event[<<CounterOf[m], r>>] = "absent"
  /\ \E s \in 1..MaxStamp :
       /\ \A e \in Events : stamp[e] # s
       /\ stamp' = [stamp EXCEPT ![<<CounterOf[m], r>>] = s]
  /\ event' = [event EXCEPT ![<<CounterOf[m], r>>] = "pending"]
  /\ pc' = [pc EXCEPT ![m] = "put"]
  /\ UNCHANGED <<count, logged, todo, tries, slipped, hash, returns, passes, acks>>

\* Seeded fault: the check ends at the first event that exists.
EventExistsReturns(m, r) ==
  /\ pc[m] = "insert" /\ NextRule(m, r)
  /\ event[<<CounterOf[m], r>>] # "absent"
  /\ todo' = [todo EXCEPT ![m] = {}]
  /\ UNCHANGED <<count, logged, pc, tries, slipped, event, stamp, hash, returns, passes, acks>>

\* ON CONFLICT (item_id, rule_id) DO NOTHING: on to the next rule.
EventExists(m, r) ==
  /\ pc[m] = "insert" /\ NextRule(m, r)
  /\ event[<<CounterOf[m], r>>] # "absent"
  /\ todo' = [todo EXCEPT ![m] = @ \ {r}]
  /\ UNCHANGED <<count, logged, pc, tries, slipped, event, stamp, hash, returns, passes, acks>>

\* HSET of the field of e, whether it is there or not.
PutNotification(e) ==
  /\ hash' = hash \cup {e}
  /\ returns' = IF event[e] = "notified" /\ e \notin hash
                  THEN [returns EXCEPT ![e] = @ + 1] ELSE returns

Put(m, r) ==
  /\ pc[m] = "put" /\ NextRule(m, r)
  /\ PutNotification(<<CounterOf[m], r>>)
  /\ todo' = [todo EXCEPT ![m] = @ \ {r}]
  /\ pc' = [pc EXCEPT ![m] = "insert"]
  /\ UNCHANGED <<count, logged, tries, slipped, event, stamp, passes, acks>>

\* Check returns nil and the message is acknowledged.
EndCheck(m) ==
  /\ pc[m] = "insert" /\ todo[m] = {}
  /\ pc' = [pc EXCEPT ![m] = "done"]
  /\ UNCHANGED <<count, logged, todo, tries, slipped, event, stamp, hash, returns, passes, acks>>

\* A call fails or the process dies: the message stays pending and is delivered
\* again.  What was counted and not checked to the end has slipped.
HandlerFails(m) ==
  /\ pc[m] \in {"stream", "check", "insert", "put"} /\ tries[m] < MaxRetries
  /\ tries' = [tries EXCEPT ![m] = @ + 1]
  /\ slipped' = IF pc[m] = "stream" THEN slipped ELSE slipped \cup {CounterOf[m]}
  /\ pc' = [pc EXCEPT ![m] = "stream"]
  /\ todo' = [todo EXCEPT ![m] = {}]
  /\ UNCHANGED <<count, logged, event, stamp, hash, returns, passes, acks>>

\* The count was committed and its answer lost.
CountAnswerLost(m) ==
  /\ pc[m] = "stream" /\ tries[m] < MaxRetries
  /\ Counted(m)
  /\ tries' = [tries EXCEPT ![m] = @ + 1]
  /\ slipped' = slipped \cup {CounterOf[m]}
  /\ UNCHANGED <<pc, todo, event, stamp, hash, returns, passes, acks>>

\* The retries are used up: the consumer drops the message.
Drop(m) ==
  /\ pc[m] = "stream" /\ tries[m] = MaxRetries
  /\ pc' = [pc EXCEPT ![m] = "done"]
  /\ UNCHANGED <<count, logged, todo, tries, slipped, event, stamp, hash, returns, passes, acks>>

-----------------------------------------------------------------------------
(* RecoverPendingNotifications, every 15 seconds. *)

\* Seeded fault: events are listed whatever their status.
PageOfAll(p) ==
  {e \in Events :
     /\ event[e] # "absent" /\ stamp[e] > after[p]
     /\ Cardinality({d \in Events : event[d] # "absent" /\ stamp[d] > after[p]
                                                        /\ stamp[d] < stamp[e]}) < Batch}

\* ListPendingEventsAfter: the next Batch pending events in the order of stamps.
Page(p) ==
  {e \in Events :
     /\ event[e] = "pending" /\ stamp[e] > after[p]
     /\ Cardinality({d \in Events : event[d] = "pending" /\ stamp[d] > after[p]
                                                         /\ stamp[d] < stamp[e]}) < Batch}

\* Seeded fault: the cursor outlives the pass.
ListPageKeepsCursor(p) ==
  /\ rows[p] = {}
  /\ rows' = [rows EXCEPT ![p] = Page(p)]
  /\ \/ /\ Page(p) = {}
        /\ UNCHANGED after
     \/ \E last \in Page(p) :
          /\ \A e \in Page(p) : stamp[e] <= stamp[last]
          /\ after' = [after EXCEPT ![p] = stamp[last]]
  /\ UNCHANGED <<counting, event, stamp, hash, returns, acks>>

\* A page shorter than Batch is the last one: the next pass starts over.
ListPage(p) ==
  /\ rows[p] = {}
  /\ rows' = [rows EXCEPT ![p] = Page(p)]
  /\ \/ /\ Cardinality(Page(p)) < Batch
        /\ after' = [after EXCEPT ![p] = 0]
     \/ /\ Cardinality(Page(p)) = Batch
        /\ \E last \in Page(p) :
             /\ \A e \in Page(p) : stamp[e] <= stamp[last]
             /\ after' = [after EXCEPT ![p] = stamp[last]]
  /\ UNCHANGED <<counting, event, stamp, hash, returns, acks>>

PutRow(p, e) ==
  /\ e \in rows[p] /\ \A d \in rows[p] : stamp[e] <= stamp[d]
  /\ PutNotification(e)
  /\ rows' = [rows EXCEPT ![p] = @ \ {e}]
  /\ UNCHANGED <<counting, event, stamp, after, acks>>

\* A call fails or the process dies: the next pass starts over.
PassFails(p) ==
  /\ rows[p] # {} \/ after[p] # 0
  /\ rows' = [rows EXCEPT ![p] = {}]
  /\ after' = [after EXCEPT ![p] = 0]
  /\ UNCHANGED <<counting, event, stamp, hash, returns, acks>>

\* The hash expires after seven days without a Put, or Redis loses it.
HashLost ==
  /\ hash # {}
  /\ hash' = {}
  /\ UNCHANGED <<counting, event, stamp, returns, passes, acks>>

-----------------------------------------------------------------------------
(* The gateway: show, then acknowledge. *)

\* A feed refresh: ListPending reads the hash, the response is written with what
\* it held, and a goroutine is left to acknowledge it.
Refresh(a) ==
  /\ acking[a] = "idle" /\ hash # {}
  /\ ack' = [ack EXCEPT ![a] = hash]
  /\ acking' = [acking EXCEPT ![a] = "delete"]
  /\ shown' = shown \cup hash
  /\ UNCHANGED <<counting, event, stamp, hash, returns, passes>>

\* GET /api/v2/notifications/pending: a page of what Redis holds, which nobody
\* acknowledges by itself.
ListPendingV2(page) ==
  /\ page # {} /\ page \subseteq hash
  /\ shown' = shown \cup page
  /\ UNCHANGED <<counting, event, stamp, hash, returns, passes, ack, acking>>

\* POST /api/v2/notifications/ack: the client names the events, ones that a
\* response has told it of; what became of them since is not checked.
AckV2(a, ids) ==
  /\ acking[a] = "idle" /\ ids # {} /\ ids \subseteq shown
  /\ ack' = [ack EXCEPT ![a] = ids]
  /\ acking' = [acking EXCEPT ![a] = "delete"]
  /\ UNCHANGED <<counting, event, stamp, hash, returns, passes, shown>>

\* AckNotifications deletes from Redis; an error is logged and it goes on.
AckDelete(a) ==
  /\ acking[a] = "delete"
  /\ hash' = hash \ ack[a]
  /\ acking' = [acking EXCEPT ![a] = "mark"]
  /\ UNCHANGED <<counting, event, stamp, returns, passes, ack, shown>>

AckDeleteFails(a) ==
  /\ acking[a] = "delete"
  /\ acking' = [acking EXCEPT ![a] = "mark"]
  /\ UNCHANGED <<counting, event, stamp, hash, returns, passes, ack, shown>>

\* Seeded fault: every pending event of the author is marked.
AckMarkAll(a) ==
  /\ acking[a] = "mark"
  /\ event' = [e \in Events |-> IF event[e] = "pending" THEN "notified" ELSE event[e]]
  /\ ack' = [ack EXCEPT ![a] = {}]
  /\ acking' = [acking EXCEPT ![a] = "idle"]
  /\ UNCHANGED <<counting, stamp, hash, returns, passes, shown>>

\* MarkMilestoneEventsNotified: the author's pending events among the shown ones.
AckMark(a) ==
  /\ acking[a] = "mark"
  /\ event' = [e \in Events |->
                 IF e \in ack[a] /\ event[e] = "pending" THEN "notified" ELSE event[e]]
  /\ ack' = [ack EXCEPT ![a] = {}]
  /\ acking' = [acking EXCEPT ![a] = "idle"]
  /\ UNCHANGED <<counting, stamp, hash, returns, passes, shown>>

\* The RPC fails, the update fails, or a process dies: nothing tries again by
\* itself.
AckLost(a) ==
  /\ acking[a] # "idle"
  /\ ack' = [ack EXCEPT ![a] = {}]
  /\ acking' = [acking EXCEPT ![a] = "idle"]
  /\ UNCHANGED <<counting, event, stamp, hash, returns, passes, shown>>

-----------------------------------------------------------------------------

HandlerStep(m) ==
  \/ Persist(m)
  \/ Deduplicated(m)
  \/ BeginCheck(m)
  \/ EndCheck(m)
  \/ HandlerFails(m)
  \/ CountAnswerLost(m)
  \/ Drop(m)
  \/ \E r \in Thresholds : InsertEvent(m, r) \/ EventExists(m, r) \/ Put(m, r)

RecoveryStep(p) ==
  \/ ListPage(p)
  \/ PassFails(p)
  \/ \E e \in Events : PutRow(p, e)

ShowStep(a) ==
  \/ Refresh(a)
  \/ \E S \in SUBSET Events : ListPendingV2(S) \/ AckV2(a, S)

AckStep(a) == AckDelete(a) \/ AckDeleteFails(a) \/ AckMark(a) \/ AckLost(a)

Next ==
  \/ \E m \in Msgs : HandlerStep(m)
  \/ \E p \in Replicas : RecoveryStep(p)
  \/ \E a \in Acks : ShowStep(a) \/ AckStep(a)
  \/ HashLost

Spec == Init /\ [][Next]_vars

-----------------------------------------------------------------------------
(* Properties *)

InFlight(m) == pc[m] \in {"check", "insert", "put"}

\* Every threshold that a counter has reached has its event once the handlers of
\* its messages are through, whichever of them counted first.  A check lost to a
\* failure after its count is made up for by the next check of the counter, and
\* by nothing else: the retry of a feedback message does not check.
ReachedIsTriggered ==
  \A c \in Counters, r \in Thresholds :
    /\ r \in RulesOf[c] /\ r <= count[c] /\ c \notin slipped
    /\ \A m \in Msgs : CounterOf[m] = c => ~InFlight(m)
    => event[<<c, r>>] # "absent"

\* What is marked notified was put into a response: a feed response is written
\* before its acknowledgement starts, and only what it carries is acknowledged;
\* a client learns the ids that it names from a response.
NotifiedWasShown ==
  \A e \in Events : event[e] = "notified" => e \in shown

\* The parts of the inductive invariant.  A threshold reached has its event, or
\* has slipped, or a check is going to come to it.
Covered(c, r) ==
  \/ event[<<c, r>>] # "absent"
  \/ c \in slipped
  \/ \E m \in Msgs :
       CounterOf[m] = c /\ (pc[m] = "check" \/ (InFlight(m) /\ r \in todo[m]))

TriggerInv ==
  \A c \in Counters, r \in Thresholds :
    r \in RulesOf[c] /\ r <= count[c] => Covered(c, r)

\* Redis, the pages and the responses hold recorded events only, and what is being
\* acknowledged was in a response.
RecordedInv ==
  /\ \A m \in Msgs : todo[m] \subseteq RulesOf[CounterOf[m]]
  /\ \A m \in Msgs, r \in Thresholds :
       pc[m] = "put" /\ NextRule(m, r) => event[<<CounterOf[m], r>>] # "absent"
  /\ \A e \in Events :
       \/ e \in hash
       \/ \E p \in Replicas : e \in rows[p]
       \/ e \in shown
       => event[e] # "absent"
  /\ \A a \in Acks : ack[a] \subseteq shown

\* Who may put e into Redis without looking at its status again: the passes that
\* have listed it, and the handler that inserted it.
Listers(e) == {p \in Replicas : e \in rows[p]}
Putters(e) == {m \in Msgs : CounterOf[m] = e[1] /\ pc[m] = "put" /\ NextRule(m, e[2])}

\* A notified event comes back into Redis once at most for each replica, whose
\* pass may have listed it before, and once for the handler that inserted it:
\* repeated passes, lost hashes and acknowledgements that fail add nothing.
ReturnsBounded ==
  \A e \in Events : returns[e] <= Cardinality(Replicas) + 1

ReturnsOf(e) ==
  /\ event[e] # "notified" => returns[e] = 0
  /\ \A m, n \in Putters(e) : m = n
  /\ event[e] = "notified" =>
       returns[e] + Cardinality(Listers(e)) + Cardinality(Putters(e))
         <= Cardinality(Replicas) + 1

ReturnsInv == \A e \in Events : ReturnsOf(e)

\* The inductive invariant of the milestones: what counters, events, Redis and
\* responses keep between them, whatever fails.
MilestoneInv ==
  TypeOK /\ TriggerInv /\ RecordedInv /\ NotifiedWasShown /\ ReturnsInv

\* The recovery loop ticks for ever and its calls are bounded, an author that is
\* there asks for its notifications again and again, by its feed or by listing
\* all of them, and a call repeated for ever does not always fail.
Fairness ==
  /\ SF_vars(\E p \in Replicas : ListPage(p))
  /\ \A e \in Events : SF_vars(\E p \in Replicas : PutRow(p, e))
  /\ SF_vars(ListPendingV2(hash) \/ \E a \in Acks : Refresh(a))
  /\ \A a \in Acks : WF_vars(AckStep(a))
  /\ SF_vars(\E a \in Acks : AckDelete(a))
  /\ SF_vars(\E a \in Acks : AckMark(a))

FairSpec == Spec /\ Fairness

\* Every recorded event is shown to its author, although Redis may fail when the
\* event is recorded or lose the hash afterwards ("Redis write failure won't
\* cause permanent notification loss").
EventuallyShown ==
  \A e \in Events : event[e] = "pending" ~> e \in shown

\* What the test requirements ask ("After notification status updated to
\* `notified`, won't be scanned into Redis again", feedback_milestone_flow_design.md):
\* no recovery pass puts back an event that is marked notified and out of Redis.
NotifiedNotRescanned ==
  [][\A p \in Replicas, e \in Events :
       event[e] = "notified" /\ e \notin hash => ~PutRow(p, e)]_vars
=============================================================================
