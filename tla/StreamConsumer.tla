--------------------------- MODULE StreamConsumer ---------------------------
(***************************************************************************)
(* pipeline/consumer: the runner of every Redis Stream consumer, in its    *)
(* retry-aware mode, with the pending-entry leases of stream_lease.go and  *)
(* the commands of pkg/mq.                                                 *)
(*                                                                         *)
(* A replica has one dispatcher and a pool of workers.  The dispatcher     *)
(* alternates between reclaiming pending messages that have been idle for  *)
(* RetryMinIdle (XPENDING, then XCLAIM) and reading fresh ones; it takes a *)
(* lease on every message and hands it to a worker.  A lease's goroutine   *)
(* resets the idle time while this replica still owns the pending entry    *)
(* and cancels the handler when it does not.                               *)
(*                                                                         *)
(* A process lifetime has a consumer name of its own: the entries of a     *)
(* replica that crashed belong to Gone.                                    *)
(***************************************************************************)
EXTENDS Naturals, FiniteSets

CONSTANTS
  Replicas,    \* processes running Run on this stream and group
  Msgs,        \* message ids, in stream order
  MaxRetries,  \* the retry budget; positive in this mode
  Batch,       \* messages asked for by one read
  Workers,     \* handlers a replica runs at once
  QueueSize,   \* capacity of msgChan
  DeadLetter,  \* whether a DeadLetterStream is configured
  MaxFaults,   \* bound on the commands that fail and the crashes
  Gone         \* the owner of entries whose replica is no more

ASSUME MsgsAssumption == Msgs \subseteq Nat
ASSUME ParametersAssumption ==
  /\ MaxRetries \in Nat \ {0} /\ Batch \in Nat \ {0} /\ Workers \in Nat \ {0}
  /\ QueueSize \in Nat /\ MaxFaults \in Nat
  /\ DeadLetter \in BOOLEAN
  /\ Gone \notin Replicas
  /\ IsFiniteSet(Replicas)

VARIABLES
  entry,     \* entry[m]: unread, in the pending list, or acknowledged
  owner,     \* owner[m]: the consumer the pending entry belongs to
  idle,      \* messages whose pending entry has been idle for RetryMinIdle
  count,     \* count[m]: deliveries of the pending entry, up to MaxRetries
  dead,      \* messages copied to the dead-letter stream
  disp,      \* disp[r]: where the dispatcher of r is
  fresh,     \* replicas that read fresh messages next (preferFresh)
  listed,    \* listed[r]: idle entries found by XPENDING and not active here
  spent,     \* spent[r]: those of them whose retry count was used up
  batch,     \* batch[r]: messages the dispatcher has still to go through
  task,      \* task[r][m]: what r is doing with m; "none" is not active
  live,      \* live[r]: messages whose lease context is not cancelled
  verdicts,  \* verdicts[m]: final results that handlers have returned for m
  attempts,  \* attempts[m]: how often a handler was started for m
  late,      \* messages that grew idle although their owner had a lease
  faults     \* failures so far

log == <<entry, owner, idle, count, dead>>
dispatcher == <<disp, fresh, listed, spent, batch>>
history == <<verdicts, attempts, late>>
vars == <<log, dispatcher, task, live, history, faults>>

DispState == {"poll", "claim", "triage", "read", "lease", "send"}
TaskState == {"none", "leased", "queued", "running", "success", "failure"}

\* See AttemptsBounded.
AttemptLimit == MaxRetries + Cardinality(Replicas) - 1

TypeOK ==
  /\ entry \in [Msgs -> {"unread", "pending", "acked"}]
  /\ owner \in [Msgs -> Replicas \cup {Gone}]
  /\ idle \subseteq Msgs
  /\ count \in [Msgs -> 0..MaxRetries]
  /\ dead \subseteq Msgs
  /\ disp \in [Replicas -> DispState]
  /\ fresh \subseteq Replicas
  /\ listed \in [Replicas -> SUBSET Msgs]
  /\ spent \in [Replicas -> SUBSET Msgs]
  /\ batch \in [Replicas -> SUBSET Msgs]
  /\ task \in [Replicas -> [Msgs -> TaskState]]
  /\ live \in [Replicas -> SUBSET Msgs]
  /\ verdicts \in [Msgs -> SUBSET {"success", "failure"}]
  /\ attempts \in [Msgs -> Nat]
  /\ late \subseteq Msgs
  /\ faults \in 0..MaxFaults

Init ==
  /\ entry = [m \in Msgs |-> "unread"]
  /\ owner = [m \in Msgs |-> Gone]
  /\ idle = {}
  /\ count = [m \in Msgs |-> 0]
  /\ dead = {}
  /\ disp = [r \in Replicas |-> "poll"]
  /\ fresh = {}
  /\ listed = [r \in Replicas |-> {}]
  /\ spent = [r \in Replicas |-> {}]
  /\ batch = [r \in Replicas |-> {}]
  /\ task = [r \in Replicas |-> [m \in Msgs |-> "none"]]
  /\ live = [r \in Replicas |-> {}]
  /\ verdicts = [m \in Msgs |-> {}]
  /\ attempts = [m \in Msgs |-> 0]
  /\ late = {}
  /\ faults = 0

Active(r) == {m \in Msgs : task[r][m] # "none"}
Owns(r, m) == entry[m] = "pending" /\ owner[m] = r

\* The Batch oldest messages of a set; the oldest of all.
Oldest(S) == {m \in S : Cardinality({n \in S : n < m}) < Batch}
First(S, m) == m \in S /\ \A n \in S : m <= n

Goto(r, step) == disp' = [disp EXCEPT ![r] = step]
Fault == faults < MaxFaults /\ faults' = faults + 1

-----------------------------------------------------------------------------
(* The dispatcher: nextBatchWithRetry *)

\* Either the fresh messages' turn, or XPENDING with the active set as of now.
Poll(r) ==
  LET found == Oldest({m \in Msgs : entry[m] = "pending" /\ m \in idle}) \ Active(r)
  IN
  /\ disp[r] = "poll"
  /\ \/ /\ r \in fresh \/ found = {}
        /\ fresh' = fresh \ {r}
        /\ Goto(r, "read") /\ UNCHANGED <<listed, spent>>
     \/ /\ r \notin fresh /\ found # {}
        /\ listed' = [listed EXCEPT ![r] = found]
        /\ spent' = [spent EXCEPT ![r] = {m \in found : count[m] >= MaxRetries}]
        /\ Goto(r, "claim") /\ UNCHANGED fresh
  /\ UNCHANGED <<log, batch, task, live, history, faults>>

\* Seeded fault: the claim is made with JUSTID, which does not count.
ClaimUncounted(r) ==
  LET claimed == {m \in listed[r] : entry[m] = "pending" /\ m \in idle} IN
  /\ disp[r] = "claim"
  /\ owner' = [m \in Msgs |-> IF m \in claimed THEN r ELSE owner[m]]
  /\ idle' = idle \ claimed
  /\ listed' = [listed EXCEPT ![r] = {}]
  /\ batch' = [batch EXCEPT ![r] = claimed]
  /\ Goto(r, "triage")
  /\ UNCHANGED <<entry, count, dead, fresh, spent, task, live, history, faults>>

\* XCLAIM takes the listed entries that are still pending and idle.
Claim(r) ==
  LET claimed == {m \in listed[r] : entry[m] = "pending" /\ m \in idle} IN
  /\ disp[r] = "claim"
  /\ owner' = [m \in Msgs |-> IF m \in claimed THEN r ELSE owner[m]]
  /\ count' = [m \in Msgs |->
                 IF m \in claimed /\ count[m] < MaxRetries THEN count[m] + 1 ELSE count[m]]
  /\ idle' = idle \ claimed
  /\ listed' = [listed EXCEPT ![r] = {}]
  /\ \/ /\ batch' = [batch EXCEPT ![r] = claimed]
        /\ Goto(r, "triage") /\ UNCHANGED <<spent, faults>>
     \/ /\ Fault  \* the answer is lost
        /\ spent' = [spent EXCEPT ![r] = {}]
        /\ Goto(r, "poll") /\ UNCHANGED batch
  /\ UNCHANGED <<entry, dead, fresh, task, live, history>>

\* AckOwned, and DeadLetterAndAckOwned: nothing happens unless r is the owner.
AckOwned(r, m) ==
  /\ entry' = IF Owns(r, m) THEN [entry EXCEPT ![m] = "acked"] ELSE entry
  /\ UNCHANGED dead
DeadLetterAndAckOwned(r, m) ==
  /\ entry' = IF Owns(r, m) THEN [entry EXCEPT ![m] = "acked"] ELSE entry
  /\ dead' = IF Owns(r, m) THEN dead \cup {m} ELSE dead

\* Seeded fault: the message is counted as dropped and stays pending.
ExhaustUnacked(r, m) ==
  /\ disp[r] = "triage" /\ First(batch[r] \cap spent[r], m)
  /\ batch' = [batch EXCEPT ![r] = @ \ {m}]
  /\ UNCHANGED <<log, disp, fresh, listed, spent, task, live, history, faults>>

\* A claimed message whose budget was used up is dropped.
Exhaust(r, m) ==
  /\ disp[r] = "triage" /\ First(batch[r] \cap spent[r], m)
  /\ IF DeadLetter THEN DeadLetterAndAckOwned(r, m) ELSE AckOwned(r, m)
  /\ batch' = [batch EXCEPT ![r] = @ \ {m}]
  /\ UNCHANGED <<owner, idle, count, disp, fresh, listed, spent, task, live, history, faults>>

\* The script fails, before or after its effect: the whole batch is let go.
ExhaustFails(r, m) ==
  /\ disp[r] = "triage" /\ First(batch[r] \cap spent[r], m)
  /\ Fault
  /\ \/ UNCHANGED <<entry, dead>>
     \/ IF DeadLetter THEN DeadLetterAndAckOwned(r, m) ELSE AckOwned(r, m)
  /\ batch' = [batch EXCEPT ![r] = {}]
  /\ spent' = [spent EXCEPT ![r] = {}]
  /\ Goto(r, "poll")
  /\ UNCHANGED <<owner, idle, count, fresh, listed, task, live, history>>

\* What is left is dispatched, and fresh messages are next; or it is their turn.
EndTriage(r) ==
  /\ disp[r] = "triage" /\ batch[r] \cap spent[r] = {}
  /\ spent' = [spent EXCEPT ![r] = {}]
  /\ \/ batch[r] # {} /\ fresh' = fresh \cup {r} /\ Goto(r, "lease")
     \/ batch[r] = {} /\ fresh' = fresh \ {r} /\ Goto(r, "read")
  /\ UNCHANGED <<log, listed, batch, task, live, history, faults>>

\* XREADGROUP delivers the oldest unread messages.
ReadFresh(r) ==
  LET new == Oldest({m \in Msgs : entry[m] = "unread"}) IN
  /\ disp[r] = "read"
  /\ entry' = [m \in Msgs |-> IF m \in new THEN "pending" ELSE entry[m]]
  /\ owner' = [m \in Msgs |-> IF m \in new THEN r ELSE owner[m]]
  /\ count' = [m \in Msgs |-> IF m \in new THEN 1 ELSE count[m]]
  /\ idle' = idle \ new
  /\ \/ batch' = [batch EXCEPT ![r] = new] /\ Goto(r, "lease") /\ UNCHANGED faults
     \/ Fault /\ Goto(r, "poll") /\ UNCHANGED batch  \* the answer is lost
  /\ UNCHANGED <<dead, fresh, listed, spent, task, live, history>>

\* XCLAIM, XPENDING or XREADGROUP fails before it took effect.
CommandFails(r) ==
  /\ disp[r] \in {"claim", "read"}
  /\ Fault
  /\ listed' = [listed EXCEPT ![r] = {}]
  /\ spent' = [spent EXCEPT ![r] = {}]
  /\ Goto(r, "poll")
  /\ UNCHANGED <<log, fresh, batch, task, live, history>>

-----------------------------------------------------------------------------
(* The dispatcher: leases and hand-over *)

\* Seeded fault: the first refresh does not check the owner and takes the entry.
StartLeaseUnfenced(r, m) ==
  /\ disp[r] = "lease" /\ First(batch[r], m)
  /\ batch' = [batch EXCEPT ![r] = @ \ {m}]
  /\ \/ /\ m \notin Active(r) /\ entry[m] = "pending"
        /\ owner' = [owner EXCEPT ![m] = r]
        /\ idle' = idle \ {m}
        /\ task' = [task EXCEPT ![r][m] = "leased"]
        /\ live' = [live EXCEPT ![r] = @ \cup {m}]
     \/ /\ m \in Active(r) \/ entry[m] # "pending"
        /\ UNCHANGED <<owner, idle, task, live>>
  /\ UNCHANGED <<entry, count, dead, disp, fresh, listed, spent, history, faults>>

\* startLease: a message that is active here, or owned by another by now, is
\* passed over.
StartLease(r, m) ==
  /\ disp[r] = "lease" /\ First(batch[r], m)
  /\ batch' = [batch EXCEPT ![r] = @ \ {m}]
  /\ \/ /\ m \notin Active(r) /\ Owns(r, m)
        /\ idle' = idle \ {m}
        /\ task' = [task EXCEPT ![r][m] = "leased"]
        /\ live' = [live EXCEPT ![r] = @ \cup {m}]
     \/ /\ m \in Active(r) \/ ~Owns(r, m)
        /\ UNCHANGED <<idle, task, live>>
  /\ UNCHANGED <<entry, owner, count, dead, disp, fresh, listed, spent, history, faults>>

\* The refresh fails, before or after its effect.
StartLeaseFails(r, m) ==
  /\ disp[r] = "lease" /\ First(batch[r], m) /\ m \notin Active(r)
  /\ Fault
  /\ batch' = [batch EXCEPT ![r] = @ \ {m}]
  /\ idle' \in {idle, IF Owns(r, m) THEN idle \ {m} ELSE idle}
  /\ UNCHANGED <<entry, owner, count, dead, disp, fresh, listed, spent, task, live, history>>

EndLease(r) ==
  /\ disp[r] = "lease" /\ batch[r] = {}
  /\ Goto(r, "send")
  /\ UNCHANGED <<log, fresh, listed, spent, batch, task, live, history, faults>>

Leased(r) == {m \in Msgs : task[r][m] = "leased"}
InHand(r) == {m \in Msgs : task[r][m] \in {"running", "success", "failure"}}
Queued(r) == {m \in Msgs : task[r][m] = "queued"}

\* msgChan <- task: room in the channel, or a worker waiting for a task.
Send(r, m) ==
  /\ disp[r] = "send" /\ First(Leased(r), m)
  /\ Cardinality(InHand(r) \cup Queued(r)) < QueueSize + Workers
  /\ task' = [task EXCEPT ![r][m] = "queued"]
  /\ UNCHANGED <<log, dispatcher, live, history, faults>>

EndSend(r) ==
  /\ disp[r] = "send" /\ Leased(r) = {}
  /\ Goto(r, "poll")
  /\ UNCHANGED <<log, fresh, listed, spent, batch, task, live, history, faults>>

-----------------------------------------------------------------------------
(* The workers *)

\* lease.close(): the context is cancelled and the message no longer active.
Close(r, m) ==
  /\ task' = [task EXCEPT ![r][m] = "none"]
  /\ live' = [live EXCEPT ![r] = @ \ {m}]

StartHandler(r, m) ==
  /\ task[r][m] = "queued" /\ Cardinality(InHand(r)) < Workers
  /\ \/ /\ m \in live[r]
        /\ task' = [task EXCEPT ![r][m] = "running"]
        /\ attempts' = [attempts EXCEPT ![m] = @ + 1]
        /\ UNCHANGED live
     \/ m \notin live[r] /\ Close(r, m) /\ UNCHANGED attempts
  /\ UNCHANGED <<log, dispatcher, verdicts, late, faults>>

\* Seeded fault: HandleRetry is acknowledged like a success.
EndHandlerAcksRetry(r, m, result) ==
  /\ task[r][m] = "running"
  /\ verdicts' = [verdicts EXCEPT ![m] = @ \cup ({result} \ {"retry"})]
  /\ task' = [task EXCEPT ![r][m] = IF result = "failure" THEN "failure" ELSE "success"]
  /\ UNCHANGED <<log, dispatcher, live, attempts, late, faults>>

\* The handler returns.  A cancelled context or HandleRetry ends the task
\* without an acknowledgement.
EndHandler(r, m, result) ==
  /\ task[r][m] = "running"
  /\ verdicts' = [verdicts EXCEPT ![m] = @ \cup ({result} \ {"retry"})]
  /\ \/ /\ m \in live[r] /\ result # "retry"
        /\ task' = [task EXCEPT ![r][m] = result] /\ UNCHANGED live
     \/ (m \notin live[r] \/ result = "retry") /\ Close(r, m)
  /\ UNCHANGED <<log, dispatcher, attempts, late, faults>>

Settle(r, m) ==
  /\ task[r][m] \in {"success", "failure"}
  /\ IF task[r][m] = "failure" /\ DeadLetter
     THEN DeadLetterAndAckOwned(r, m)
     ELSE AckOwned(r, m)
  /\ Close(r, m)
  /\ UNCHANGED <<owner, idle, count, dispatcher, history, faults>>

SettleFails(r, m) ==
  /\ task[r][m] \in {"success", "failure"}
  /\ Fault /\ Close(r, m)
  /\ UNCHANGED <<log, dispatcher, history>>

-----------------------------------------------------------------------------
(* The lease goroutine, time, and crashes *)

Refresh(r, m) ==
  /\ m \in live[r]
  /\ \/ Owns(r, m) /\ m \in idle /\ idle' = idle \ {m} /\ UNCHANGED live
     \/ ~Owns(r, m) /\ live' = [live EXCEPT ![r] = @ \ {m}] /\ UNCHANGED idle
  /\ UNCHANGED <<entry, owner, count, dead, dispatcher, task, history, faults>>

RefreshFails(r, m) ==
  /\ m \in live[r]
  /\ Fault
  /\ live' = [live EXCEPT ![r] = @ \ {m}]
  /\ UNCHANGED <<log, dispatcher, task, history>>

\* RetryMinIdle passes without a delivery or a refresh.  An entry whose owner
\* has a lease on it is refreshed three times in that span: it is late.
Age(m) ==
  /\ entry[m] = "pending" /\ m \notin idle
  /\ idle' = idle \cup {m}
  /\ late' = IF \E r \in Replicas : owner[m] = r /\ m \in live[r] THEN late \cup {m} ELSE late
  /\ UNCHANGED <<entry, owner, count, dead, dispatcher, task, live, verdicts, attempts, faults>>

\* The process dies and is restarted under a new consumer name.
Crash(r) ==
  /\ Fault
  /\ owner' = [m \in Msgs |-> IF owner[m] = r THEN Gone ELSE owner[m]]
  /\ Goto(r, "poll")
  /\ fresh' = fresh \ {r}
  /\ listed' = [listed EXCEPT ![r] = {}]
  /\ spent' = [spent EXCEPT ![r] = {}]
  /\ batch' = [batch EXCEPT ![r] = {}]
  /\ task' = [task EXCEPT ![r] = [m \in Msgs |-> "none"]]
  /\ live' = [live EXCEPT ![r] = {}]
  /\ UNCHANGED <<entry, idle, count, dead, history>>

-----------------------------------------------------------------------------

DispatcherStep(r) ==
  \/ Poll(r) \/ Claim(r) \/ EndTriage(r) \/ ReadFresh(r) \/ CommandFails(r)
  \/ EndLease(r) \/ EndSend(r)
  \/ \E m \in Msgs : \/ Exhaust(r, m) \/ ExhaustFails(r, m)
                      \/ StartLease(r, m) \/ StartLeaseFails(r, m) \/ Send(r, m)

WorkerStep(r, m) ==
  \/ StartHandler(r, m)
  \/ \E result \in {"success", "failure", "retry"} : EndHandler(r, m, result)
  \/ Settle(r, m) \/ SettleFails(r, m)

LeaseStep(r, m) == Refresh(r, m) \/ RefreshFails(r, m)

Next ==
  \/ \E r \in Replicas :
       \/ DispatcherStep(r) \/ Crash(r)
       \/ \E m \in Msgs : WorkerStep(r, m) \/ LeaseStep(r, m)
  \/ \E m \in Msgs : Age(m)

Spec == Init /\ [][Next]_vars

\* Dispatchers, workers and refreshes keep running (every command has a
\* deadline and handlers end), time passes, and a script that a dispatcher
\* issues right after its claim is not overtaken by RetryMinIdle for ever.
Fairness ==
  /\ \A r \in Replicas : WF_vars(DispatcherStep(r))
  /\ \A r \in Replicas, m \in Msgs : WF_vars(WorkerStep(r, m)) /\ WF_vars(LeaseStep(r, m))
  /\ \A m \in Msgs : WF_vars(Age(m))
  /\ \A m \in Msgs : SF_vars(\E r \in Replicas : Exhaust(r, m) /\ Owns(r, m))

FairSpec == Spec /\ Fairness

-----------------------------------------------------------------------------
(* Properties *)

\* No message is acknowledged unless a handler succeeded with it, or it went to
\* the dead letters, or (without that stream) it failed or used up its budget;
\* whatever crashes, answers get lost and replicas take over.
AckedIsSettled ==
  \A m \in Msgs : entry[m] = "acked" =>
    \/ "success" \in verdicts[m]
    \/ DeadLetter /\ m \in dead
    \/ ~DeadLetter /\ ("failure" \in verdicts[m] \/ count[m] = MaxRetries)

\* No two replicas handle a message under leases that both believe in, unless
\* a refresh was late once ("Other instances are protected by their PEL heartbeat").
OneLiveHandler ==
  \A q, r \in Replicas, m \in Msgs \ late :
    m \in live[q] /\ m \in live[r] => q = r

\* The retry budget bounds the handler runs: the listing and the claim are two
\* commands, so each other replica may add one run on a count it read before.
AttemptsBounded == \A m \in Msgs : attempts[m] <= AttemptLimit

\* The parts of the inductive invariant.  A lease that was never late implies
\* ownership of an entry that is not idle; the dispatcher never has in hand a
\* message that is active here; a message it drops had used up its budget.
LeaseOwnsEntry ==
  \A r \in Replicas, m \in Msgs \ late : m \in live[r] => Owns(r, m) /\ m \notin idle

DispatcherInv ==
  \A r \in Replicas, m \in Msgs :
    /\ m \in live[r] => task[r][m] # "none"
    /\ task[r][m] # "none" => entry[m] # "unread"
    /\ m \in batch[r] => task[r][m] = "none" /\ disp[r] \in {"triage", "lease"}
    /\ m \in listed[r] => task[r][m] = "none" /\ disp[r] = "claim"
    /\ m \in spent[r] => entry[m] # "unread" /\ count[m] = MaxRetries

VerdictInv ==
  \A r \in Replicas, m \in Msgs :
    task[r][m] \in {"success", "failure"} => task[r][m] \in verdicts[m]

\* The inductive invariant of the entries and their leases.
GroupInv == TypeOK /\ LeaseOwnsEntry /\ DispatcherInv /\ VerdictInv /\ AckedIsSettled

\* Replicas that may start a handler for m with what they have in hand, and
\* replicas whose listing of m found budget left.
Likely(m) ==
  {r \in Replicas : m \in batch[r] \ spent[r] \/ task[r][m] \in {"leased", "queued"}}
Listing(m) == {r \in Replicas : m \in listed[r] \ spent[r]}

\* Every run was counted by the delivery that led to it; once the count is used
\* up only the listings made before can lead to another one.
BudgetInv ==
  /\ \A r \in Replicas : spent[r] # {} => disp[r] \in {"claim", "triage"}
  /\ \A m \in Msgs :
       /\ entry[m] = "unread" => attempts[m] = 0 /\ Likely(m) = {} /\ Listing(m) = {}
       /\ count[m] < MaxRetries => attempts[m] + Cardinality(Likely(m)) <= count[m]
       /\ count[m] = MaxRetries =>
            attempts[m] + Cardinality(Likely(m)) + Cardinality(Listing(m)) <= AttemptLimit

\* The inductive invariant of the consumer group.
StreamInv == GroupInv /\ BudgetInv

\* Every message is settled in the end: retries, crashes and lost answers leave
\* none in the pending list for ever.
EventuallySettled == \A m \in Msgs : <>(entry[m] = "acked")
=============================================================================
