-------------------------- MODULE DispatchJournal --------------------------
(***************************************************************************)
(* cli/internal/dispatch: the journal of the work that `watch --dispatch`  *)
(* hands to the agent, and dispatchLoop of cli/cmd, which takes one job at *)
(* a time, runs the agent and sends its reply.                             *)
(*                                                                         *)
(* A job is a private message or a hint of an optional kind.  The state is *)
(* what is on disk: every operation works on a copy, writes the file and   *)
(* only then replaces the state in memory, under one lock.  The watch has  *)
(* the journal to itself; the operator's retry and reconcile commands need *)
(* its lock and so find it stopped.                                        *)
(***************************************************************************)
EXTENDS Naturals, Sequences, FiniteSets

CONSTANTS
  Messages,      \* ids of pm_push jobs
  Hints,         \* ids of the hints of one optional kind
  MaxPending,    \* journalMaxPending: unresolved jobs
  MaxCompleted,  \* journalMaxCompleted: receipts kept for deduplication
  MaxCommands,   \* bound on the operator's commands
  MaxAgain       \* bound on deliveries of a message whose receipt is gone

Jobs == Messages \cup Hints

ASSUME JobsAssumption == Messages \cap Hints = {}
ASSUME JournalAssumption ==
  /\ MaxPending \in Nat \ {0} /\ MaxCompleted \in Nat
  /\ MaxCommands \in Nat /\ MaxAgain \in Nat

VARIABLES
  jobs,      \* the jobs in the order of the file
  status,    \* status[j]; "none" is not in the journal
  up,        \* whether the watch is running
  wake,      \* whether the wake channel holds a signal
  disp,      \* where dispatchLoop is
  cur,       \* the jobs that dispatchJob has claimed: one or none
  raised,    \* hints that have been raised
  posts,     \* posts[j]: replies to j that the server has accepted
  runs,      \* runs[j]: how often j was claimed
  retries,   \* retries[j]: how often the operator asked for j again
  trims,     \* trims[j]: how often the receipt of j was dropped
  commands   \* operator's commands so far

file == <<jobs, status>>
loop == <<up, wake, disp, cur>>
account == <<posts, runs, retries, trims>>
journal == <<file, loop, raised, account, commands>>

Completed == {"replied", "no_reply", "completed"}
Waiting == {"needs_user", "failed", "unknown"}
Status == {"none", "pending", "running", "sending"} \cup Completed \cup Waiting
DispState == {"next", "wait", "prepare", "agent", "reply", "sending", "accepted"}

JournalTypeOK ==
  /\ status \in [Jobs -> Status]
  /\ up \in BOOLEAN /\ wake \in BOOLEAN
  /\ disp \in DispState
  /\ cur \subseteq Jobs
  /\ raised \subseteq Hints
  /\ posts \in [Jobs -> Nat] /\ runs \in [Jobs -> Nat]
  /\ retries \in [Jobs -> Nat] /\ trims \in [Jobs -> Nat]
  /\ commands \in 0..MaxCommands

JournalInit ==
  /\ jobs = <<>>
  /\ status = [j \in Jobs |-> "none"]
  /\ up = TRUE /\ wake = FALSE /\ disp = "next" /\ cur = {}
  /\ raised = {}
  /\ posts = [j \in Jobs |-> 0] /\ runs = [j \in Jobs |-> 0]
  /\ retries = [j \in Jobs |-> 0] /\ trims = [j \in Jobs |-> 0]
  /\ commands = 0

-----------------------------------------------------------------------------
(* save *)

Unresolved(st) == {j \in Jobs : st[j] # "none" /\ st[j] \notin Completed}
HasPending(st) == \E j \in Jobs : st[j] = "pending"
HasCapacity == Cardinality(Unresolved(status)) < MaxPending

Position(js, j) == CHOOSE i \in DOMAIN js : js[i] = j

\* trimCompleted: the receipts that the MaxCompleted latest ones push out.
Trimmed(js, st) ==
  LET receipts == {j \in Jobs : st[j] \in Completed}
  IN {j \in receipts :
        Cardinality({k \in receipts : Position(js, k) >= Position(js, j)}) > MaxCompleted}

\* Seeded fault: whatever does not fit is written without an error.
SaveTruncated(js, st) ==
  LET out == Trimmed(js, st)
      over == IF Cardinality(Unresolved(st)) <= MaxPending THEN {}
              ELSE {j \in Unresolved(st) : status[j] = "none"}
  IN
  /\ jobs' = SelectSeq(js, LAMBDA j : j \notin out \cup over)
  /\ status' = [j \in Jobs |-> IF j \in out \cup over THEN "none" ELSE st[j]]
  /\ trims' = [j \in Jobs |-> IF j \in out \cup over THEN trims[j] + 1 ELSE trims[j]]

\* Without the receipts that are trimmed; too many unresolved jobs are refused.
Save(js, st) ==
  LET out == Trimmed(js, st) IN
  /\ Cardinality(Unresolved(st)) <= MaxPending
  /\ jobs' = SelectSeq(js, LAMBDA j : j \notin out)
  /\ status' = [j \in Jobs |-> IF j \in out THEN "none" ELSE st[j]]
  /\ trims' = [j \in Jobs |-> IF j \in out THEN trims[j] + 1 ELSE trims[j]]

Without(js, j) == SelectSeq(js, LAMBDA k : k # j)

\* A completed job moves to the end: the window is in the order of completion.
SaveJob(js, st, j) ==
  Save(IF st[j] \in Completed THEN Append(Without(js, j), j) ELSE js, st)

-----------------------------------------------------------------------------
(* Intake *)

\* The jobs of S that the journal does not know, in the order of their ids.
New(S) == {j \in S : status[j] = "none"}
Sorted(S) == CHOOSE s \in [1..Cardinality(S) -> S] :
               \A a, b \in DOMAIN s : a < b => s[a] < s[b]

\* Seeded fault: the journal is written and nobody is told.
AddMessagesQuietly(S) ==
  /\ up /\ New(S) # {}
  /\ Save(jobs \o Sorted(New(S)),
          [j \in Jobs |-> IF j \in New(S) THEN "pending" ELSE status[j]])
  /\ UNCHANGED <<loop, raised, posts, runs, retries, commands>>

AddMessages(S) ==
  /\ up
  /\ \/ New(S) = {} /\ UNCHANGED journal
     \/ /\ New(S) # {}
        /\ Save(jobs \o Sorted(New(S)),
                [j \in Jobs |-> IF j \in New(S) THEN "pending" ELSE status[j]])
        /\ wake' = TRUE
        /\ UNCHANGED <<up, disp, cur, raised, posts, runs, retries, commands>>

Overflows(S) == Cardinality(Unresolved(status) \cup New(S)) > MaxPending

\* A hint is merged into one that is still unresolved.
AddHint(h) ==
  /\ up /\ h \in Hints \ raised
  /\ raised' = raised \cup {h}
  /\ \/ Unresolved(status) \cap Hints # {} /\ UNCHANGED <<file, wake, trims>>
     \/ /\ Unresolved(status) \cap Hints = {}
        /\ Save(Append(jobs, h), [status EXCEPT ![h] = "pending"])
        /\ wake' = TRUE
  /\ UNCHANGED <<up, disp, cur, posts, runs, retries, commands>>

Halt == up' = FALSE /\ wake' = FALSE /\ disp' = "next" /\ cur' = {}

\* A full journal refuses the hint, and that stops the watch.
AddHintFails(h) ==
  /\ up /\ h \in Hints \ raised
  /\ Unresolved(status) \cap Hints = {} /\ ~HasCapacity
  /\ raised' = raised \cup {h}
  /\ Halt
  /\ UNCHANGED <<file, account, commands>>

-----------------------------------------------------------------------------
(* dispatchLoop and dispatchJob *)

Before(j, k) == Position(jobs, j) < Position(jobs, k)

\* The oldest pending message, or the oldest hint when no message is pending.
Claimable(j) ==
  /\ status[j] = "pending"
  /\ \A k \in Jobs \ {j} : status[k] = "pending" =>
       IF j \in Messages THEN k \in Hints \/ Before(j, k) ELSE k \in Hints /\ Before(j, k)

NoneInHand == \A j \in Jobs : status[j] \notin {"running", "sending"}

\* Next: nothing while a job is in hand.
NextJob ==
  /\ up /\ disp = "next"
  /\ \/ /\ NoneInHand
        /\ \E j \in Jobs :
             /\ Claimable(j)
             /\ Save(jobs, [status EXCEPT ![j] = "running"])
             /\ cur' = {j} /\ runs' = [runs EXCEPT ![j] = @ + 1]
        /\ disp' = "prepare"
     \/ /\ ~NoneInHand \/ ~HasPending(status)
        /\ disp' = "wait"
        /\ UNCHANGED <<file, cur, runs, trims>>
  /\ UNCHANGED <<up, wake, raised, posts, retries, commands>>

Wake ==
  /\ up /\ disp = "wait" /\ wake
  /\ wake' = FALSE /\ disp' = "next"
  /\ UNCHANGED <<file, up, cur, raised, account, commands>>

ValidTransition(from, to) ==
  \/ from = "running" /\ to \in {"sending"} \cup Completed \cup Waiting
  \/ from = "sending" /\ to \in {"replied", "completed"} \cup Waiting

\* Update with a new status for the job in hand; dispatchLoop goes to step.
Update(j, to, step) ==
  /\ ValidTransition(status[j], to)
  /\ j \in Messages => to # "completed"
  /\ LET st == [status EXCEPT ![j] = to] IN
     /\ SaveJob(jobs, st, j)
     /\ wake' = (wake \/ HasPending(st))
  /\ disp' = step
  /\ cur' = IF step = "next" THEN {} ELSE cur
  /\ UNCHANGED <<up, raised, runs, retries, commands>>

Finish(j, to) == Update(j, to, "next") /\ UNCHANGED posts

Proceed(step) ==
  /\ disp' = step
  /\ UNCHANGED <<file, up, wake, cur, raised, account, commands>>

\* Identity, permission and prompt; a hint may not be due.
Prepare(j) ==
  /\ up /\ disp = "prepare" /\ j \in cur
  /\ \/ Proceed("agent")
     \/ \E to \in {"failed", "needs_user"} : Finish(j, to)
     \/ j \in Hints /\ Finish(j, "completed")

\* The agent ends: without a result, with a verdict, or with a reply to send.
EndAgent(j) ==
  /\ up /\ disp = "agent" /\ j \in cur
  /\ \/ \E to \in {"unknown", "needs_user"} : Finish(j, to)
     \/ j \in Hints /\ Finish(j, "completed")
     \/ j \in Messages /\ \E to \in {"failed", "no_reply"} : Finish(j, to)
     \/ j \in Messages /\ Proceed("reply")

\* sendDispatchReply: the intent is on disk before the request goes out.
BeginReply(j) ==
  /\ up /\ disp = "reply" /\ j \in cur
  /\ \/ Finish(j, "failed")
     \/ Update(j, "sending", "sending") /\ UNCHANGED posts

\* Automatic replies are off by now; or the server does not take the request.
RefuseReply(j) ==
  /\ up /\ disp = "sending" /\ j \in cur
  /\ \E to \in {"needs_user", "unknown"} : Finish(j, to)

PostReply(j) ==
  /\ up /\ disp = "sending" /\ j \in cur
  /\ posts' = [posts EXCEPT ![j] = @ + 1]
  /\ disp' = "accepted"
  /\ UNCHANGED <<file, up, wake, cur, raised, runs, retries, trims, commands>>

\* The receipt comes, or does not.
EndReply(j) ==
  /\ up /\ disp = "accepted" /\ j \in cur
  /\ \E to \in {"replied", "unknown"} : Finish(j, to)

-----------------------------------------------------------------------------
(* Restarts and the operator *)

\* Seeded fault: a job that was in hand is put back.
RecoveredAgain(st) ==
  [j \in Jobs |-> IF st[j] \in {"running", "sending"} THEN "pending" ELSE st[j]]

\* Seeded fault: a job that was in hand stays as it is.
RecoveredAsIs(st) == st

\* What OpenJournal makes of jobs that were in hand.
Recovered(st) ==
  [j \in Jobs |-> IF st[j] \in {"running", "sending"} THEN "unknown" ELSE st[j]]

\* The watch stops or dies; the file stays.
StopWatch ==
  /\ up
  /\ Halt
  /\ UNCHANGED <<file, raised, account, commands>>

StartWatch ==
  /\ ~up
  /\ up' = TRUE
  /\ Save(jobs, Recovered(status))
  /\ wake' = HasPending(Recovered(status))
  /\ UNCHANGED <<disp, cur, raised, posts, runs, retries, commands>>

Command == ~up /\ commands < MaxCommands /\ commands' = commands + 1

\* watch retry
Retry(j) ==
  LET st == Recovered(status) IN
  /\ Command
  /\ st[j] \in {"failed", "needs_user"}
  /\ Save(jobs, [st EXCEPT ![j] = "pending"])
  /\ retries' = [retries EXCEPT ![j] = @ + 1]
  /\ UNCHANGED <<loop, raised, posts, runs>>

\* watch reconcile: an outcome that fits the kind of the job.
Reconcile(j, outcome) ==
  LET st == Recovered(status) IN
  /\ Command
  /\ st[j] \in Waiting
  /\ outcome \in IF j \in Messages THEN {"no_reply", "replied"} ELSE {"completed", "failed"}
  /\ SaveJob(jobs, [st EXCEPT ![j] = outcome], j)
  /\ UNCHANGED <<loop, raised, posts, runs, retries>>

-----------------------------------------------------------------------------

Dispatch ==
  \/ NextJob \/ Wake
  \/ \E j \in cur : \/ Prepare(j) \/ EndAgent(j) \/ BeginReply(j)
                    \/ RefuseReply(j) \/ PostReply(j) \/ EndReply(j)

Operate ==
  \E j \in Jobs : Retry(j) \/ \E o \in Completed \cup {"failed"} : Reconcile(j, o)

JournalNext ==
  \/ \E S \in SUBSET {m \in Messages : trims[m] <= MaxAgain} : AddMessages(S)
  \/ \E h \in Hints : AddHint(h) \/ AddHintFails(h)
  \/ Dispatch \/ Operate \/ StopWatch \/ StartWatch

JournalSpec == JournalInit /\ [][JournalNext]_journal

\* dispatchLoop goes on by itself; an agent run and a request have timeouts.
FairJournalSpec == JournalSpec /\ WF_journal(Dispatch)

-----------------------------------------------------------------------------
(* Properties *)

\* The job that dispatchJob works on, and no other, is in hand.
InHand ==
  IF disp \in {"next", "wait"}
  THEN cur = {} /\ (up => NoneInHand)
  ELSE up /\ \E j \in Jobs :
    /\ cur = {j}
    /\ status[j] = IF disp \in {"sending", "accepted"} THEN "sending" ELSE "running"
    /\ disp \in {"reply", "sending", "accepted"} => j \in Messages
    /\ \A k \in Jobs \ {j} : status[k] \notin {"running", "sending"}

\* Whether a reply to j may have been accepted since its receipt was last
\* dropped; whether j was claimed since then or since its last retry.
MayBePosted(j) ==
  \/ status[j] \in {"replied", "no_reply", "unknown"}
  \/ status[j] = "sending" /\ ~(disp = "sending" /\ j \in cur)
WasClaimed(j) == status[j] \notin {"none", "pending"}

Accounted ==
  \A j \in Jobs :
    /\ posts[j] <= IF MayBePosted(j) THEN 1 + trims[j] ELSE trims[j]
    /\ j \in Hints => posts[j] = 0
    /\ j \in Hints \ raised => status[j] = "none"
    /\ runs[j] <= IF WasClaimed(j) THEN 1 + retries[j] + trims[j] ELSE retries[j] + trims[j]

Signalled == up /\ disp = "wait" /\ HasPending(status) => wake

\* The inductive invariant: dispatchLoop and the file agree on the job in hand,
\* replies and runs are accounted for, and a waiting loop has been signalled.
JournalInv == JournalTypeOK /\ InHand /\ Accounted /\ Signalled

\* A message gets one reply at most while the journal has its receipt, whatever
\* crashes, retries by the operator and deliveries of the message there are:
\* jobs that may have been sent stay unknown (OpenJournal, sendDispatchReply).
RepliedOnce == \A j \in Jobs : posts[j] <= 1 + trims[j]

\* Without the operator the agent runs once for a job, restarts included.
RunOnce == \A j \in Jobs : runs[j] <= 1 + retries[j] + trims[j]

\* No wake-up is lost: while dispatchLoop waits, a pending job has left its
\* signal in the wake channel, and no job is left in hand that would make Next
\* return nothing for ever.
Woken == up /\ disp = "wait" => NoneInHand /\ (HasPending(status) => wake)

\* A pending job comes to a result or is left to the operator, in a watch that
\* is not stopped for ever: nothing keeps dispatchLoop from claiming it.
EventuallyDone ==
  <>[]up => \A j \in Jobs :
    (status[j] = "pending") ~> (status[j] \in Completed \cup Waiting \cup {"none"})

\* The journal keeps the promise that the loops of the watch rely on.
Promise == INSTANCE JournalIntake WITH
  accepted <- {j \in Jobs : status[j] # "none" \/ trims[j] > 0},
  unresolved <- Unresolved(status),
  held <- disp \notin {"next", "wait"},
  running <- up
PromiseKept == Promise!IntakeSpec

=============================================================================
