# EigenFlux in TLA+

A verification project for the EigenFlux server (`rpc/`, `pipeline/`, `pkg/`, `api/`, `ws/`)
and its command line client (`cli/`). The modules model the parts whose correctness depends
on the order in which several processes, stores and failures take their steps.

## 1. The system

Agents talk to an HTTP gateway (`api/`), which calls Kitex services (`rpc/auth`, `rpc/profile`,
`rpc/item`, `rpc/feed`, `rpc/sort`, `rpc/pm`, `rpc/notification`). The services keep their truth in
PostgreSQL and caches, counters, streams and pub/sub hints in Redis. The pipeline process
(`pipeline/`) reads Redis Streams with consumer groups, calls language models and writes
Elasticsearch. A websocket server (`ws/`) fetches messages for connected agents and pushes them. The
client's `watch --dispatch` (`cli/cmd`) takes them, from the socket and from a poll once a minute, into
a journal (`cli/internal/dispatch`), runs the local agent for each and sends its reply.

| Component | State | Operations | What is hard | What makes it correct |
|---|---|---|---|---|
| Item publish outbox (`pkg/itemdispatch`) | `item_publish_outbox` rows, marker keys, `stream:item:publish` | PublishItem's transaction, Dispatch, Recover, Run | two stores that fail independently, rival replicas, scripts that run late | an accepted item enters the stream exactly once; rows and markers are retired |
| Relations (`rpc/pm`) | `friend_requests`, `user_relations`, cached friend and block sets | SendFriendRequest, HandleFriendRequest, Unfriend, BlockUser, UnblockUser | checks outside transactions, a transaction without the pair lock, cache fills that race with invalidations | symmetric friendships, no mutual pending requests, blocks that hold, caches that heal |
| Stream consumer (`pipeline/consumer`, `pkg/mq`) | consumer-group pending list, leases, dead letters | Run, nextBatchWithRetry, startLease, deadLetterAndAck | reclaiming by idle time, lost leases, crashes, stale retry counts | one live handler per message, nothing acknowledged unsettled, every message settled |
| Private messages (`rpc/pm`) | conversations, messages, ice-break marks, send guard, empty-inbox cache | SendPM, FetchPM, CloseConv | Redis marks set before and rolled back after a transaction; rows marked read before they are handed over | each request sent once, unanswered messages bounded by the ice-break window, an exchange lifts it, no message hidden |
| Push (`ws/`) | one connection and cursor per agent, a subscription | Run, pushInitial, fetchAndPush | hints missed before the subscription, frames lost with the socket | every unread message is carried |
| Watch (`cli/cmd`) | cursors, admissions of the handoff | pmLoop, pollPM, deliverPM, dispatchLoop, adoption of an update | two paths into one journal, a full journal, an update during a pull | every message journaled, an update interrupts nothing |
| Id generation (`pkg/idgen`) | etcd lease on a worker id, millisecond and sequence | NextID, claimWorkerID, Close | lease expiry while ids are handed out | ids are unique |
| Dispatch journal (`cli/internal/dispatch`) | a file of jobs, a wake channel | AddMessages, AddHint, Next, Update, Retry, Reconcile, reopening | crash between save and effect, limits, dropped signals | nothing lost, one reply, nothing run twice silently, no lost wake-up |
| Milestones and their notifications (`pkg/milestone`, `pipeline/consumer`, `rpc/notification`) | `item_stats`, `feedback_logs`, `milestone_events`, a Redis hash per author | counting, Check, RecoverPendingNotifications, ListPending, AckNotifications, by the feed and by the V2 API | a count and its check are not one transaction; recovery races with acknowledgements that are only logged when they fail | every threshold reached is recorded, every event shown, a notified event comes back a bounded number of times |
| Other notifications, welcome messages | Redis keys and streams | write, fetch, acknowledge | marks taken before the effect | each is delivered once |
| Feed, sort, profile, console, CLI commands | mostly queries | | | |

`PROJECT.json` lists every component, modelled or not, and every hazard at its line.

## 2. Plan

Done, in this order, each with its invariants proved:

1. `ItemPublication` (abstract), `ItemOutbox`.
2. `Relations`.
3. `StreamConsumer`.
4. `PMSend`: SendPM with ice break and send guard.
5. `JournalIntake` (abstract), `DispatchJournal`: the client's journal and its dispatch loop.
6. `PMInbox`, and `PMWatch`, which composes it with `JournalIntake`: a message on its way from the
   commit of SendPM to the journal of the agent that gets it.
7. `Milestones`: from the counted feedback to the acknowledged notification.

What is left, in the order of its weight: the commission lanes of the journal; CloseConv and the cached
conversation info; the other notifications and the welcome gate; the composition of the outbox with the
stream consumer; worker ids (`pkg/idgen`).

## 3. Modules and the code

### ItemPublication, ItemOutbox

`ItemPublication` is the promise: accepted items are delivered to the stream once, and only those.
`ItemOutbox` is the code. `row[i]` is the outbox row (`absent`, `queued` = `dispatched_at IS NULL`,
`acked`, `retired` = deleted), `lock` the row lock of the open transaction, `marker` the Redis keys
`item:publish:dispatch:<id>`, `stream` the stream, `late` scripts on their way whose callers gave up.
The history variable `lapsed` keeps the items for which a caller ever gave up: `Deliveries`, which the
refinement maps to the promise's `delivered`, leaves out what their late scripts repeat, and nothing else.
Each replica runs `Recover` passes: `ListUndispatched` (first query), per row `LockRow`/`SkipRow`
(`FOR UPDATE SKIP LOCKED`), `Eval` (the script), `Acknowledge` (update and commit), then
`ListAcknowledged`, `DeleteMarker`, `DeleteRow`, `EndPass`. `Fail` is an error before an effect or a
crash at any point; `EvalAnswerLost` and `CommitAnswerLost` are effects whose answer is lost;
`EvalTimesOut` followed by `LateScript` is an effect after its caller's time-out. The publication
without durable dispatch (a caller that did not ask for it) is not modelled: the gateway always asks.

### Relations

A call is an RPC in progress with a program counter. The three cached checks of SendFriendRequest run
one command at a time (`CheckExists`, `LoadSet`, `ReplaceSet`, `IsMember`; `CheckFails` is the fallback
to the database, whose own error the code drops). Transactions that hold `LockRelationPair` are single
steps. `Unfriend`, which does not, is three steps: `UnfriendDelete`, `UnfriendUpdate`,
`UnfriendCommit`; `Unfriending` and `RowLocked` state which rows of an open Unfriend make other
statements wait. `TxFails` is an error or a deadlock victim. After the commit come the cache commands
in the code's order. A Redis set with no members does not exist, so `{}` is a missing key; `blockTTL`
records which block sets have an expiry, because `SADD` gives none, and `friendTTL` the same of friend
sets, which only `ReplaceSet` writes and always with one. Left out: greeting, remark, reason,
notifications, activity and card events, the rate limit (a call that arrives has passed it), and
request ids (a reset request gets a new id; a handler that names the old one finds none and returns).
`overlapped` is a history variable: whether a call ever began while another was under way. As long as
none has, accepted requests are friendships, whatever fails. `OneAtATime`, which says that nothing has failed
either, is the condition under which tables and caches agree; with overlaps they need not, as the
three violation runs show. A failure is enough to part a block set from its rows for good: once a `SADD` was lost, or
a set is missing while its owner has block rows, the next `SADD` creates a partial set without expiry, and the
existence check takes it for a loaded one. While nothing fails a block set is never loaded with members, only built by
`SADD`, and is exact between calls. `lapsed` is a history variable too: whether a friend set expired between
the EXISTS and the SISMEMBER of a check. Such a check finds no friend although the rows are there, goes on,
and the request it creates is pending between friends; as long as none has, calls do not
overlap and nothing fails, friends have an accepted request and none that is pending (`FriendsWereAccepted`).

### StreamConsumer

`entry`, `owner`, `idle`, `count` are the pending list of the consumer group; `count` is the delivery
count, capped at `MaxRetries`, the only comparison the code makes. A replica's dispatcher goes through
`Poll` (XPENDING with the active set as of then), `Claim` (XCLAIM), `Exhaust`, `EndTriage`, `ReadFresh`
(XREADGROUP), `StartLease`, `Send`; its workers through `StartHandler`, `EndHandler`, `Settle`; the
lease goroutine through `Refresh`. `Age` lets `RetryMinIdle` pass; the history variable `late`
has the messages to which that happened although their owner was refreshing the lease (every `minIdle/3`). A crashed process comes back under a new
consumer name (`Gone` owns what it left). Handlers return success, failure or retry
nondeterministically. Left out: the simple mode (no consumer sets `MaxRetries` to zero), payload
truncation, metrics, trimming, and orderly shutdown (a crash loses at least as much).

### PMSend

The sends between the owner of one item and one visitor. `guard` is the key
`pm:send:dedupe:v1:<fingerprint>` of each request: free, the token of a call, or the recorded result.
A call passes `Acquire`, the checks (`Reject`, `SilentlyBlocked`), `FindConversation` or
`NoConversation` (GetOrCreateConvID, which answers "none" when its query fails), then either
`CommitConversation` and `MarkOpening` (handleNewConversation) or `SkipIceBreak`/`Strangers`,
`CheckAndSetIceBreak` and `CommitReply` (handleReply), and ends in `Complete` or `Release`. `lock` and
`broken` are `pm:lock:<conv>` and the bit in `pm:ice:h:<bucket>`; the expiry of a bucket is the
expiry of its bits one by one. `RollbackIceBreak` follows a transaction that fails or seems to.
Failures: `TxFails`, `CommitAnswerLost` (rows stored, error returned), `IceBreakFails` (with and without
its effect), `DuplicateConversation` (UNIQUE(participant_a, participant_b, origin_id) of the migration
000003: two openers that both found no conversation create one, and the call of the other ends in
an error, its guard free for the retry), `MarkFails`, `RollbackFails` and `Crash` at any step, which also stands for a failing
command of the guard. Block and friend checks may answer anything: their caches may be stale
(`Relations`). History variables carry the promises: `lapses` counts the times a request's guard was
given up although the request may be stored (expiry, lost commit answer), `resets` the times the ice
break lost its count (expiry, rollback, missed mark), `opening` and `spoken` the messages stored under
the rule, `tried` who has called the script. Messages between friends, also the conversation that
handleFriendPM creates, are outside the rule (`StoreFree`). Left out: CloseConv and the cached
conversation info (a closed conversation is one reason to `Reject`), ids, names; what follows the commit
for the receiver is `PMInbox`.

### JournalIntake, DispatchJournal

`JournalIntake` is the promise of the journal to the loops that fill it: a batch is taken whole or
refused, the unresolved jobs are bounded, no restart and no save loses one. `DispatchJournal` is the
code. `jobs` and `status` are the file: every operation of `Journal` works on a clone under the mutex,
writes the file and then replaces the state in memory, so it is one step, and a failing write is a step
that does not happen (the error stops the watch: `StopWatch`, `AddHintFails`). `Save` has
`trimCompleted` and the limit. dispatchLoop goes `NextJob`, `Prepare` (identity, prompt, permission),
`EndAgent` (the agent's result), `BeginReply` (the intent is saved as `sending`), `PostReply` (the server
takes it) or `RefuseReply`, `EndReply` (the receipt); `Wake` is its wait on the channel. `StopWatch` is a
stop or a crash at any step, `StartWatch` is OpenJournal, `Retry` and `Reconcile` are the operator's
commands, which need the lock of the watch and reopen the journal themselves. History variables: `posts`
and `runs` count what the outside saw, `retries` and `trims` what may excuse a second one. A hint stands
for the kinds that are merged while one is unresolved (profile review, maintenance). Left out:
`control_pending` (one job per command id, taken like messages), commission jobs, which `next("")` skips
and which have lanes and retries of their own, sessions, and the limit of the file in bytes.

### PMInbox, PMWatch

`PMInbox` is one agent's inbox: `row[m]` is a `private_messages` row from its commit on, `post[m]` what
SendPM does next (`Invalidate` the cached empty answer, `Publish` the hint), `fetch[f]` a call of FetchPM
by the push goroutine or by a poll: `StartFetch` (the cached answer), `Query`, `Fill` (the empty answer is
written ten seconds long), `Mark` and the answer. `MarkFails` is the ignored error of the update. The
push goroutine connects (`Connect` is serveToken and pushInitial), is subscribed at a moment of
its own (`Subscribe`), and fetches per hint. A call whose client has gone goes on as an orphan.
Rows are committed in any order of ids: an id is taken before the transaction.

`PMWatch` composes it with `JournalIntake` into the watch: `Dial`, `DeliverFrame` (deliverPM, then the
cursor), `PollPage` (admission, room, request), `DeliverAnswer`, `EndPass`, `Claim` and `Finish` of
dispatchLoop, and `HandoffBegin`, `HandoffEnd`, `RequestUpdate`, `Adopt` of `watchHandoff`. A cached empty
answer and an answer without messages leave no trace. `Overflow` is a delivery that the journal refuses:
the poll asks for room first, the socket does not. `DispatchJournal` is shown to implement
`JournalIntake`, so the safety of the watch holds with the real journal under it. Left out: friend
requests, notifications and history in the frames, eviction of a connection by another of the same
agent, the moderation poll, credentials (an identity that changed stops the watch, as `Crash` does).

### Milestones

The milestone notifications of one author. `count`, `logged` and `event` are the counters of
`item_stats`, the `feedback_logs` rows and the `milestone_events` rows in PostgreSQL, `hash` the Redis hash
`milestone:notify:<author>`. A message of `stream:item:stats` goes through `Persist` (log row and counter in
one transaction; a consumed event has no log row and is counted again by a retry), `BeginCheck` (counter,
rules, item), then per rule `InsertEvent` or `EventExists` (ON CONFLICT DO NOTHING) and `Put`, and
`EndCheck`; `HandlerFails`, `CountAnswerLost` and `Drop` are its failures, with `StreamConsumer`'s promise of one
handler per message. `slipped` is a history variable: counters of which a check was lost after the
count, until another check reads the counter. `ListPage` and `PutRow` are RecoverPendingNotifications with
its cursor; `stamp` is the order by `queued_at` and `event_id`, taken before the insert, so that an event may
appear behind the cursor. `PutNotification` is the HSET of both; the history variable `returns` counts
the times it put back an event that was notified and out of the hash. There are two ways to an
acknowledgement. `Refresh` is a feed refresh (ListPending, response), which leaves a goroutine to
acknowledge all it carried. `ListPendingV2` is the listing of `/api/v2/notifications/pending`, a page that nobody
acknowledges by itself, and `AckV2` the request of `/api/v2/notifications/ack`, in which the client names
events. It names ones that a response has told it of, at any time and as often as it likes; a client that makes
up ids is not modelled. Both go on with AckNotifications: `AckDelete` and `AckMark`, of which each may fail and
is not repeated. Left out: changes of rules and their cache, templates, items without a row (their messages are acknowledged), the other sources of
notifications, and what happens to a response on its way to the client.

Operators marked *seeded fault* take part in no specification: each is a plausible mistake in one
definition, kept to show that the properties notice it.

## 4. Runs

| Run | Instance | Shows |
|---|---|---|
| `outbox` | 2 items, 2 replicas, batch 1, one late script per item | the outbox implements `ItemPublication`; its inductive invariant; deduplication until the acknowledgement, and afterwards only a late script adds an item again; delivery and retirement |
| `relations_concurrent` | 2 agents, 2 overlapping calls, 6 calls, 1 fault, agents and calls symmetric | the inductive invariant; while calls do not overlap, accepted requests are friendships and friends have an accepted request; while nothing fails either, tables and caches agree and a block holds |
| `relations_block_race` (violation) | 2 agents, 2 calls | a request created although the block is committed |
| `relations_block_cache` (violation) | 2 agents, 2 calls | a lifted block cached for ever |
| `relations_unfriend_race` (violation) | 2 agents, 2 overlapping calls, 5 calls | an accepted request without a friendship |
| `stream_consumer` | 2 replicas, 1 message, dead letters, 2 faults, leases late at any time | the inductive invariant; one live handler unless late; acknowledged means settled; handler runs bounded; every message settled |
| `pm_send` | 4 requests (2 open, 1 to a friend, 1 reply), 2 overlapping calls, window 2, 1 expiry, 1 fault | the inductive invariant; one sender per request; sent once but for lapses; the window; an exchange breaks the ice |
| `journal_dispatch` | 2 messages, 1 hint, 2 unresolved jobs, 1 receipt, 1 command, stops at any step | the inductive invariant; one reply and one run per job but for retries and dropped receipts; no lost wake-up; `JournalIntake` implemented; pending jobs come to an end |
| `pm_watch` | 2 messages, the later id delivered before, room for 1 job, 1 fault, 1 update | the inductive invariant; the socket hands over in order; what is read is carried; an update interrupts nothing; every unread message is taken |
| `milestones` | two feedback messages on a counter with one threshold, or one consumed message on a counter with two; 2 deliveries, pages of 1, 1 replica, 1 acknowledgement at a time | the inductive invariant; thresholds reached are recorded unless a check slipped; every event is shown; a notified event comes back into Redis twice at most |
| `milestones_rescan` (violation) | 1 consumed message on a counter with two thresholds, or two feedback messages; 1 replica, 1 acknowledgement | a recovery pass puts a notified event back into Redis |
| `pm_watch_missed` (violation) | 1 message, 1 fault | a frame lost with its socket is never made up for |

Why the bounds are enough: two replicas or two calls are the smallest number that can race, and the
races above need no third; a batch smaller than the number of items makes listings partial; a retry budget of 2 has a first delivery, a retry and an
exhausted delivery; every failure action of a model fires within its fault bound. In `relations_concurrent` the same run has
the behaviours without overlaps, of six calls (enough for a friendship, a block, its end and a second request), and those with them. In `journal_dispatch` two messages
and a hint overflow a journal of two jobs, and one receipt is pushed out by the next. In `pm_watch` the
smaller id comes after a cursor has passed it, and one job fills the journal. In `milestones` two handlers find
one threshold reached, and one handler goes through two rules, finding the first recorded by a failed
delivery; a page of one has the cursor at work with one or two events. Its safety is proved without these bounds. In `pm_send` a window of 2 is filled
by the visitor's two requests and exceeded by a retry after an expiry, and of two openers one creates the
conversation and the other finds it or fails; the code's own window is 3. Safety is proved without bounds (below).

`CHECK_DEADLOCK FALSE` where the system may rest: no call arrives, or every message is acknowledged.
`AttemptsBounded` is tight: with two replicas one run more than `MaxRetries` does happen.

### Fairness

* Outbox: every call has a context deadline and the ticker starts a pass after each pass, so a replica
  does not rest (weak fairness of its steps, failing ones included). PostgreSQL and Redis are shared by
  all replicas: a call they repeat for ever does not fail for ever (strong fairness per call).
* Relations: the passing run checks safety and needs none. The violation run about block sets assumes that a
  call in progress proceeds and that Redis expires keys that have an expiry. Nobody is obliged to call.
* Stream: dispatchers, workers, refreshes and time go on; handlers return. Strong fairness on `Exhaust`
  by the owner: the script comes right after the claim, and is not overtaken by `RetryMinIdle` for ever.
* Journal: dispatchLoop goes on by itself; an agent run and a request have time-outs. Nothing obliges
  the watch to be started, so `EventuallyDone` is about a watch that stays up.
* Watch: the service finishes its calls, the cached answer expires, the loops dial, poll, deliver and
  dispatch again and again, a drained watch is replaced, a stopped one is started (by its service manager).
  No fairness for arrivals, claims, updates or faults.
* `Milestones`: the recovery loop ticks for ever, its list and its put of each event do not always fail
  (strong fairness); the author keeps asking, by its feed or by listing all that is there; an acknowledgement goes on to its end (weak) and
  neither its deletion nor its update always fails. Nothing is assumed of
  the handlers and of the acknowledgements that a client asks for.

## 5. Proofs

Checked by TLAPS for every value of the constants, from the assumptions named in the modules.

* `ItemOutboxProofs`. `OutboxInv` is inductive. `NothingLost` alone is not: a replica about to
  acknowledge must know that the marker is set (`PassInv`), a marker must stand for a stream entry, and
  an unacknowledged entry must keep its marker (`MarkerInv`), which in turn needs cleaning passes to hold
  no queued row (`PassInv`) and a dispatching pass to own its row (`DispatchOwnsRow`, `LockInv`).
  `OutboxImplementsPublication`: every step is a step of `ItemPublication` or a stutter; an item with no
  lapsed script is in the stream once at most (`OnceInv`). `AcknowledgedNotReplayed`: a pass runs the
  script for a row it owns, which is not acknowledged.
* `RelationsProofs`. `RelationsInv` has three layers. `TablesInv` holds under any overlap and failure:
  symmetry of friendships survives `UnfriendCommit` because the rows it locked cannot have changed
  (`UnfriendOwnsRows`). `RequestsFollow` holds while no call has overlapped another: an accepted request has
  its friendship, and at its commit an open Unfriend closes all the accepted requests of the pair; hence
  `AcceptedRequestsAreFriends`. `Coherent` holds while nothing has failed either. Tables and caches disagree
  in the middle of every call, so it says by how much: a friend set is missing, right or about to be
  dropped (`FriendSetsFollow`), a block set lacks what is about to be added and has what is about to be
  removed (`BlockSetsFollow`), and a call past its checks knows that there is no block (`CallKnows`). That is
  `BlocksAreEnforced` and, between calls, `CachesAgreeWithTables`; and since
  HandleFriendRequest checks the block rows in its transaction, and a SendFriendRequest that accepts knows of no
  block, `BlocksEndFriendships`. `FriendsNotAskedAgain`: friendship rows come from accepting a request, Unfriend and
  BlockUser close it, and SendFriendRequest does not reopen an accepted one of a friend, because its check of
  the friend set knows (`FriendCheckKnows`); that takes a friend set that is never a partial one
  (`FriendsFollow`, `FriendSetsExpire`) and did not expire in the middle of the check. `SingleCall` carries it: of calls that never overlapped one is under way at most.
* `StreamConsumerProofs`. `StreamInv` is `GroupInv` and `BudgetInv`. In `GroupInv` a live lease implies ownership of an entry that is
  not idle (unless it was late), so no claim can take it, hence `OneHandlerAtATime`; a settled
  result was returned by a handler and a dropped message had used up its budget, hence
  `NothingAckedUnsettled`. `RunsAreBounded` needs `BudgetInv`, because a replica decides by the count it listed,
  and claims afterwards: as long as the count is below the budget, the runs so far and those in hand
  (`Likely`) are covered by deliveries; once it has reached the budget, the listings made before it did
  (`Listing`) may each lead to one more run, of which there is one per replica at most. The bound counts
  replicas, so `ParametersAssumption` has them finite.
* `PMSendProofs`. `PMInv` is inductive. `SentOnce` needs `CreditInv`: a taken guard is worth one
  message, pending, stored or left behind, so that freeing the guard (`Release`) is paid for by a call
  that no longer stores; this needs `GuardInv`, that a call whose token has not expired holds the guard,
  which is `OneSender` as well. `WindowBound` needs `CountInv`: a message granted by the script and not
  stored yet is counted already, and `MarkInv`, that lock and broken bit tell who has been seen;
  `MarkInv` also gives `BrokenOnceBothSpoke`. `CallInv` says what a call has found out at each step, and
  that one call at most has a given conversation's opening message to mark. The proofs are for any
  window, requests, conversations and overlapping calls.

* `DispatchJournalProofs`. `JournalInv` is inductive: replies and runs are bounded by what the status of
  a job still allows (`Accounted`: a job that is `pending` cannot have been posted since its receipt was
  dropped, so it may be posted once), which needs that file and loop agree on the job in hand
  (`InHand`). `NoLostWakeup` is `Signalled` and `InHand`. `JournalKeepsPromise`: every step is a step of
  `JournalIntake` or a stutter; what it takes of `Save` is that a trimmed job was completed.
* `PMWatchProofs`. Rows are marked read by `Mark` only, whose rows go into a frame, an answer or the record
  of what was lost, and each of them ends in the journal or in that record (`ReadIsCarried`).
  `AdoptionInterruptsNothing` follows from `Admissions`: the count is that of the job in hand and the pull
  under way. `WatchInvariant` adds the cursors, which need both other parts of `WatchInv`: a page that is not
  empty has a newest message (`PagesInv`: its rows have fewer than `limit` rows before them, and of such counts one is the largest),
  and what is on its way over the socket lies between the two cursors, in order (`SocketInOrder`).
  Hence `SocketNeverGoesBack`. The watch is built on the operators of `JournalIntake`;
  `JournalKeepsPromise` says that the real journal is one.
* `MilestonesProofs`. `MilestoneInv` is inductive. `ReachedIsTriggered` speaks of counters at rest; its
  strengthening `TriggerInv` says what holds under way: each threshold reached has its event, or has
  slipped, or is before a check that has still to read or to go through it. That a check may leave a rule
  behind after `Put` needs `RecordedInv`, that the event was inserted. `NotifiedWasShown` needs that
  acknowledgements hold shown events only (`RecordedInv`). `NotifiedReturnsBounded`: a notified event is put back
  once per replica and once more at most. `ReturnsInv` counts what is left besides what happened: the passes
  that listed the event while it was pending (`Listers`, one per replica) and the one handler that inserted it
  (`Putters`); no later listing has it, so each return uses one of them up.

Only model-checked is liveness, since fairness is outside the prover's reach: `EventuallyDelivered`,
`EventuallyRetired`, `EventuallySettled`, `EventuallyDone`, `EventuallyTaken`, `EventuallyShown`. Every invariant and every action property of a passing run is a
theorem.

## 6. Findings

`PROJECT.json` quotes the lines. The block check of SendFriendRequest is outside its transaction; the
cached block set may live without expiry; Unfriend does not take the pair lock; messages are marked read before they are pushed, so the poll does not make up for a lost frame.
A recovery pass lists an event as pending and puts it into Redis afterwards, without looking at its status
again: an acknowledgement between the two is undone in Redis and the author is shown the notification once
more, although `docs/feedback_milestone_flow_design.md` says that a notified event "won't be scanned into Redis
again" (:386) and that repeated scans "won't produce duplicate notifications" (:249). `ReturnsBounded` says how
often that can happen.

The opening message of a conversation is counted after it is stored, and the script's answer is ignored
(`rpc/pm/handler.go:302`): sends that find the conversation in between may take the whole window, and the
initiator stores one message more than the three that `rpc/pm/icebreak/icebreak.go:77` and
`skills/ef-communication/references/message.md:40` state. `WindowBound` has this one message as its exception
(`Unmarked`, then `resets`), and `pm_send` reaches it, so it has no violation run of its own.

One behaviour of the milestones is not a finding, since no text promises otherwise, and is what
`ReachedIsTriggered` leaves open: a feedback message whose check fails after its count is not checked again by its
retry (`slipped`), so a threshold reached by the last feedback of an item may stay unrecorded.

## 7. Not modelled

Of the lines of the repository most are generated: Thrift models and clients, gateway handlers, the
console's API. They carry no logic of their own. Also left out are query-only services (feed, sort,
console), calls to language models, front ends, and the installers of the client.

Parts with a protocol of their own that the plan has not reached are named at its end (section 2) and in
`PROJECT.json`: commission jobs, the notifications other than milestones, rule changes of milestones, the
welcome gate, CloseConv (and the conversation info it leaves in the cache), sessions. Inside modelled parts
these are left out: `MAXLEN` trimming of a stream, the dropped error of `IsBlockedCached`, and the order of
the goroutines that write and delete the notification of a friend request. Worker
ids (`pkg/idgen`) are different: that two processes never hand out ids under one worker id depends on the
local clock and the clock of the etcd lease running alike, which the code takes for granted and a model
could only assume.
