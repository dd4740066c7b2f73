------------------------------ MODULE Relations ------------------------------
(***************************************************************************)
(* rpc/pm relations: friend requests, friendships, blocks, and the Redis   *)
(* sets that cache friendships and blocks.                                 *)
(*                                                                         *)
(* A call is one RPC in progress.  SendFriendRequest consults the cached   *)
(* sets, one Redis or database command at a time, then runs a transaction, *)
(* then invalidates cached sets.  The transactions of SendFriendRequest,   *)
(* HandleFriendRequest and BlockUser hold an advisory lock on the pair and *)
(* are single steps; Unfriend takes no such lock, so its two statements    *)
(* and its commit are three steps, and the rows it locked make others wait.*)
(*                                                                         *)
(* A Redis set without members does not exist: {} stands for a missing key.*)
(***************************************************************************)
EXTENDS Naturals, FiniteSets

CONSTANTS
  Agents,    \* users
  Calls,     \* slots for calls in progress: how many may overlap
  MaxCalls,  \* bound on the calls made in a behaviour
  MaxFaults  \* bound on the Redis commands and reads that fail in a behaviour

ASSUME BoundsAssumption == MaxCalls \in Nat /\ MaxFaults \in Nat

VARIABLES
  friend,     \* pairs with a user_relations row of type friend
  block,      \* <<a, b>>: a has blocked b
  req,        \* req[<<a, b>>]: status of the friend_requests row from a to b
  friendSet,  \* friendSet[a]: cached set friend:{a}
  friendTTL,  \* agents whose friend set has an expiry
  blockSet,   \* blockSet[a]: cached set block:{a}
  blockTTL,   \* agents whose block set has an expiry
  pc,         \* pc[c]: the next step of call c
  job,        \* job[c]: operation, its two agents, and which check is next
  snap,       \* snap[c]: members read from the database to fill a set
  held,       \* held[c]: request rows that an open Unfriend has updated
  calls,      \* calls made so far
  overlapped, \* history: a call has begun while another was in progress
  lapsed,     \* history: a friend set has expired under a call about to read it
  faults      \* commands and reads that failed so far

database == <<friend, block, req>>
friendCache == <<friendSet, friendTTL>>
blockCache == <<blockSet, blockTTL>>
caches == <<friendCache, blockCache>>
vars == <<database, caches, pc, job, snap, held, calls, overlapped, lapsed, faults>>

Pairs == {p \in Agents \X Agents : p[1] # p[2]}
Rev(p) == <<p[2], p[1]>>
Both(p) == {p, Rev(p)}

Status == {"none", "pending", "accepted", "rejected", "cancelled", "unfriended"}
Ops == {"apply", "accept", "reject", "cancel", "unfriend", "block", "unblock"}
Steps == {"idle", "exists", "load", "fill", "member", "tx", "update", "commit",
          "sadd", "srem", "drop1", "drop2"}

Job == [op : Ops, pair : Pairs, check : 1..3]
NoJob == [op |-> "none"]

TypeOK ==
  /\ friend \subseteq Pairs /\ block \subseteq Pairs
  /\ req \in [Pairs -> Status]
  /\ friendSet \in [Agents -> SUBSET Agents]
  /\ blockSet \in [Agents -> SUBSET Agents]
  /\ friendTTL \subseteq Agents /\ blockTTL \subseteq Agents
  /\ pc \in [Calls -> Steps]
  /\ job \in [Calls -> Job \cup {NoJob}]
  /\ \A c \in Calls : pc[c] # "idle" => job[c] \in Job
  /\ snap \in [Calls -> SUBSET Agents]
  /\ held \in [Calls -> SUBSET Pairs]
  /\ calls \in 0..MaxCalls /\ faults \in 0..MaxFaults
  /\ overlapped \in BOOLEAN /\ lapsed \in BOOLEAN

Init ==
  /\ friend = {} /\ block = {}
  /\ req = [p \in Pairs |-> "none"]
  /\ friendSet = [a \in Agents |-> {}]
  /\ blockSet = [a \in Agents |-> {}]
  /\ friendTTL = {} /\ blockTTL = {}
  /\ pc = [c \in Calls |-> "idle"]
  /\ job = [c \in Calls |-> NoJob]
  /\ snap = [c \in Calls |-> {}]
  /\ held = [c \in Calls |-> {}]
  /\ calls = 0 /\ overlapped = FALSE /\ lapsed = FALSE /\ faults = 0

Goto(c, step) == pc' = [pc EXCEPT ![c] = step]

\* The call returns: its locals are gone.
Return(c) ==
  /\ Goto(c, "idle")
  /\ job' = [job EXCEPT ![c] = NoJob]
  /\ snap' = [snap EXCEPT ![c] = {}]
  /\ held' = [held EXCEPT ![c] = {}]

Locals == <<job, snap, held>>
Bounds == <<calls, overlapped, lapsed, faults>>

-----------------------------------------------------------------------------
(* Arrival of a call that passed the rate limit.  Requests and blocks aimed *)
(* at oneself are rejected. *)

Begin(c, op, p) ==
  /\ pc[c] = "idle" /\ calls < MaxCalls
  /\ calls' = calls + 1
  /\ overlapped' = (overlapped \/ \E d \in Calls : pc[d] # "idle")
  /\ job' = [job EXCEPT ![c] = [op |-> op, pair |-> p, check |-> 1]]
  /\ Goto(c, IF op = "apply" THEN "exists" ELSE "tx")
  /\ UNCHANGED <<database, caches, snap, held, lapsed, faults>>

-----------------------------------------------------------------------------
(* IsBlockedCached and IsFriendCached, the three checks of SendFriendRequest:*)
(* has the sender blocked the target, has the target blocked the sender, are *)
(* they friends.                                                             *)

\* Seeded fault: the second check looks at the sender's block set again.
OwnerIsSender(j) == j.pair[1]

Owner(j) == IF j.check = 2 THEN j.pair[2] ELSE j.pair[1]
Member(j) == IF j.check = 2 THEN j.pair[1] ELSE j.pair[2]
Rows(j) == IF j.check = 3 THEN friend ELSE block
Loaded(j) == {v \in Agents : <<Owner(j), v>> \in Rows(j)}
Cached(j) == IF j.check = 3 THEN friendSet[Owner(j)] ELSE blockSet[Owner(j)]

\* Seeded fault: the transaction comes after the two block checks.
AnswerWithoutFriends(c, positive) ==
  \/ positive /\ Return(c)
  \/ /\ ~positive /\ job[c].check < 2
     /\ job' = [job EXCEPT ![c].check = @ + 1]
     /\ Goto(c, "exists") /\ UNCHANGED <<snap, held>>
  \/ /\ ~positive /\ job[c].check = 2
     /\ Goto(c, "tx") /\ UNCHANGED Locals

\* A positive answer ends the request; after three negative ones comes the
\* transaction.
Answer(c, positive) ==
  \/ positive /\ Return(c)
  \/ /\ ~positive /\ job[c].check < 3
     /\ job' = [job EXCEPT ![c].check = @ + 1]
     /\ Goto(c, "exists") /\ UNCHANGED <<snap, held>>
  \/ /\ ~positive /\ job[c].check = 3
     /\ Goto(c, "tx") /\ UNCHANGED Locals

CheckExists(c) ==
  /\ pc[c] = "exists"
  /\ Goto(c, IF Cached(job[c]) = {} THEN "load" ELSE "member")
  /\ UNCHANGED <<database, caches, Locals, Bounds>>

LoadSet(c) ==
  /\ pc[c] = "load"
  /\ snap' = [snap EXCEPT ![c] = Loaded(job[c])]
  /\ Goto(c, "fill")
  /\ UNCHANGED <<database, caches, job, held, Bounds>>

\* ReplaceSet: delete the key, add the members and the expiry, atomically.
ReplaceSet(c) ==
  /\ pc[c] = "fill"
  /\ LET u == Owner(job[c]) IN
       IF job[c].check = 3
       THEN /\ friendSet' = [friendSet EXCEPT ![u] = snap[c]]
            /\ friendTTL' = IF snap[c] = {} THEN friendTTL \ {u} ELSE friendTTL \cup {u}
            /\ UNCHANGED blockCache
       ELSE /\ blockSet' = [blockSet EXCEPT ![u] = snap[c]]
            /\ blockTTL' = IF snap[c] = {} THEN blockTTL \ {u} ELSE blockTTL \cup {u}
            /\ UNCHANGED friendCache
  /\ Goto(c, "member")
  /\ UNCHANGED <<database, Locals, Bounds>>

IsMember(c) ==
  /\ pc[c] = "member"
  /\ Answer(c, Member(job[c]) \in Cached(job[c]))
  /\ UNCHANGED <<database, caches, Bounds>>

\* Redis or the load fails: the database is asked for the one row, and when
\* that fails too its error is dropped and the answer is no.
CheckFails(c) ==
  /\ pc[c] \in {"exists", "load", "fill", "member"} /\ faults < MaxFaults
  /\ faults' = faults + 1
  /\ Answer(c, Member(job[c]) \in Loaded(job[c])) \/ Answer(c, FALSE)
  /\ UNCHANGED <<database, caches, calls, overlapped, lapsed>>

-----------------------------------------------------------------------------
(* Transactions *)

\* An open Unfriend holds the pair's friend rows, and the request rows it
\* updated, until it commits.
Unfriending(p) ==
  \E c \in Calls : pc[c] \in {"update", "commit"} /\ job[c].pair \in Both(p)
RowLocked(p) == \E c \in Calls : p \in held[c]

\* Seeded fault: the target's own pending request is not looked at.
SendTxIgnoresIncoming(c) ==
  LET out == job[c].pair IN
  /\ pc[c] = "tx" /\ job[c].op = "apply"
  /\ \/ req[out] = "pending" /\ Return(c) /\ UNCHANGED req
     \/ /\ req[out] # "pending"
        /\ req' = [req EXCEPT ![out] = "pending"]
        /\ Goto(c, "drop1") /\ UNCHANGED Locals
  /\ UNCHANGED <<friend, block, caches, Bounds>>

\* SendFriendRequest: accept the target's pending request, or create or reset
\* the sender's own.  A second friendship row violates uq_relation.
SendTx(c) ==
  LET out == job[c].pair
      in == Rev(out) IN
  /\ pc[c] = "tx" /\ job[c].op = "apply"
  /\ ~RowLocked(out) /\ ~RowLocked(in)
  /\ \/ /\ req[in] = "pending" /\ out \notin friend
        /\ req' = [req EXCEPT ![in] = "accepted"]
        /\ friend' = friend \cup Both(out)
        /\ Goto(c, "drop1") /\ UNCHANGED Locals
     \/ /\ req[in] = "pending" /\ out \in friend /\ ~Unfriending(out)
        /\ Return(c) /\ UNCHANGED <<friend, req>>
     \/ /\ req[in] # "pending" /\ req[out] = "pending"
        /\ Return(c) /\ UNCHANGED <<friend, req>>
     \/ /\ req[in] # "pending" /\ req[out] # "pending"
        /\ req' = [req EXCEPT ![out] = "pending"]
        /\ Goto(c, "drop1") /\ UNCHANGED <<friend, Locals>>
  /\ UNCHANGED <<block, caches, Bounds>>

\* HandleFriendRequest: only a pending request is handled; accepting checks the
\* block rows inside the transaction.
HandleTx(c) ==
  LET p == job[c].pair
      blocked == \E q \in Both(p) : q \in block IN
  /\ pc[c] = "tx" /\ job[c].op \in {"accept", "reject", "cancel"}
  /\ ~RowLocked(p)
  /\ \/ /\ req[p] # "pending" \/ (job[c].op = "accept" /\ blocked)
        /\ Return(c) /\ UNCHANGED <<friend, req>>
     \/ /\ req[p] = "pending" /\ job[c].op = "accept" /\ ~blocked
        /\ req' = [req EXCEPT ![p] = "accepted"]
        /\ friend' = friend \cup Both(p)
        /\ Goto(c, "drop1") /\ UNCHANGED Locals
     \/ /\ req[p] = "pending" /\ job[c].op \in {"reject", "cancel"}
        /\ req' = [req EXCEPT ![p] = IF job[c].op = "reject" THEN "rejected" ELSE "cancelled"]
        /\ Goto(c, "drop1") /\ UNCHANGED <<friend, Locals>>
  /\ UNCHANGED <<block, caches, Bounds>>

\* Unfriend, first statement: delete both friend rows, or report not friends.
UnfriendDelete(c) ==
  LET p == job[c].pair IN
  /\ pc[c] = "tx" /\ job[c].op = "unfriend"
  /\ ~Unfriending(p)
  /\ \/ p \notin friend /\ Return(c)
     \/ p \in friend /\ Goto(c, "update") /\ UNCHANGED Locals
  /\ UNCHANGED <<database, caches, Bounds>>

\* Seeded fault: the requests are left as they are.
UnfriendUpdateNothing(c) ==
  /\ pc[c] = "update"
  /\ Goto(c, "commit")
  /\ UNCHANGED <<database, caches, Locals, Bounds>>

\* Unfriend, second statement: it changes the requests that are accepted now.
UnfriendUpdate(c) ==
  /\ pc[c] = "update"
  /\ held' = [held EXCEPT ![c] = {q \in Both(job[c].pair) : req[q] = "accepted"}]
  /\ Goto(c, "commit")
  /\ UNCHANGED <<database, caches, job, snap, Bounds>>

UnfriendCommit(c) ==
  /\ pc[c] = "commit"
  /\ friend' = friend \ Both(job[c].pair)
  /\ req' = [q \in Pairs |-> IF q \in held[c] THEN "unfriended" ELSE req[q]]
  /\ held' = [held EXCEPT ![c] = {}]
  /\ Goto(c, "drop1")
  /\ UNCHANGED <<block, caches, job, snap, Bounds>>

\* What BlockUser makes of a request between the two agents.
Severed(status) ==
  CASE status = "pending" -> "cancelled"
    [] status = "accepted" -> "unfriended"
    [] OTHER -> status

\* Seeded faults: only one friend row is deleted; the friendship is kept.
BlockTxOneRow(c) ==
  LET p == job[c].pair IN
  /\ pc[c] = "tx" /\ job[c].op = "block" /\ p \notin block
  /\ block' = block \cup {p}
  /\ friend' = friend \ {p}
  /\ req' = [q \in Pairs |-> IF q \in Both(p) THEN Severed(req[q]) ELSE req[q]]
  /\ Goto(c, "sadd") /\ UNCHANGED <<Locals, caches, Bounds>>

BlockTxKeepsFriends(c) ==
  LET p == job[c].pair IN
  /\ pc[c] = "tx" /\ job[c].op = "block" /\ p \notin block
  /\ block' = block \cup {p}
  /\ Goto(c, "sadd") /\ UNCHANGED <<friend, req, Locals, caches, Bounds>>

BlockTx(c) ==
  LET p == job[c].pair IN
  /\ pc[c] = "tx" /\ job[c].op = "block"
  /\ ~RowLocked(p) /\ ~RowLocked(Rev(p))
  /\ \/ p \in block /\ Return(c) /\ UNCHANGED database
     \/ /\ p \notin block /\ ~Unfriending(p)
        /\ block' = block \cup {p}
        /\ friend' = friend \ Both(p)
        /\ req' = [q \in Pairs |-> IF q \in Both(p) THEN Severed(req[q]) ELSE req[q]]
        /\ Goto(c, "sadd") /\ UNCHANGED Locals
  /\ UNCHANGED <<caches, Bounds>>

\* UnblockUser: also closes the request the blocked agent may have pending.
UnblockTx(c) ==
  LET p == job[c].pair IN
  /\ pc[c] = "tx" /\ job[c].op = "unblock"
  /\ \/ p \notin block /\ Return(c) /\ UNCHANGED database
     \/ /\ p \in block
        /\ block' = block \ {p}
        /\ req' = IF req[Rev(p)] = "pending" THEN [req EXCEPT ![Rev(p)] = "cancelled"] ELSE req
        /\ Goto(c, "srem") /\ UNCHANGED <<friend, Locals>>
  /\ UNCHANGED <<caches, Bounds>>

\* Any transaction may fail or be chosen as a deadlock victim: it rolls back.
TxFails(c) ==
  /\ pc[c] \in {"tx", "update", "commit"}
  /\ Return(c)
  /\ UNCHANGED <<database, caches, Bounds>>

-----------------------------------------------------------------------------
(* After the commit: cached sets, one command at a time, errors ignored. *)

\* SADD creates the set when it is missing and leaves its expiry alone.
AddBlocked(c) ==
  /\ pc[c] = "sadd"
  /\ blockSet' = [blockSet EXCEPT ![job[c].pair[1]] = @ \cup {job[c].pair[2]}]
  /\ Goto(c, "drop1")
  /\ UNCHANGED <<database, friendCache, blockTTL, Locals, Bounds>>

RemoveBlocked(c) ==
  /\ pc[c] = "srem"
  /\ LET u == job[c].pair[1] IN
       /\ blockSet' = [blockSet EXCEPT ![u] = @ \ {job[c].pair[2]}]
       /\ blockTTL' = IF blockSet'[u] = {} THEN blockTTL \ {u} ELSE blockTTL
  /\ Return(c)
  /\ UNCHANGED <<database, friendCache, Bounds>>

DropFriendSet(a) ==
  /\ friendSet' = [friendSet EXCEPT ![a] = {}]
  /\ friendTTL' = friendTTL \ {a}

InvalidateFrom(c) ==
  /\ pc[c] = "drop1"
  /\ DropFriendSet(job[c].pair[1])
  /\ Goto(c, "drop2")
  /\ UNCHANGED <<database, blockCache, Locals, Bounds>>

\* Seeded fault: the second friend set is not invalidated.
InvalidateToForgotten(c) ==
  pc[c] = "drop2" /\ Return(c) /\ UNCHANGED <<database, caches, Bounds>>

InvalidateTo(c) ==
  /\ pc[c] = "drop2"
  /\ DropFriendSet(job[c].pair[2])
  /\ Return(c)
  /\ UNCHANGED <<database, blockCache, Bounds>>

\* A lost command does not stop the ones after it; a crash loses the rest.
CacheWriteFails(c) ==
  /\ pc[c] \in {"sadd", "srem", "drop1", "drop2"} /\ faults < MaxFaults
  /\ faults' = faults + 1
  /\ \/ Return(c)
     \/ pc[c] = "sadd" /\ Goto(c, "drop1") /\ UNCHANGED Locals
     \/ pc[c] = "drop1" /\ Goto(c, "drop2") /\ UNCHANGED Locals
  /\ UNCHANGED <<database, caches, calls, overlapped, lapsed>>

\* A call has found the friend set of a, or has filled it, and is about to ask
\* it for a member.
Reading(a) == \E c \in Calls : pc[c] = "member" /\ job[c].check = 3 /\ Owner(job[c]) = a

\* RelationCacheTTL runs out.
ExpireFriendSet(a) ==
  /\ a \in friendTTL
  /\ DropFriendSet(a)
  /\ lapsed' = (lapsed \/ Reading(a))
  /\ UNCHANGED <<database, blockCache, pc, Locals, calls, overlapped, faults>>

ExpireBlockSet(a) ==
  /\ a \in blockTTL
  /\ blockSet' = [blockSet EXCEPT ![a] = {}]
  /\ blockTTL' = blockTTL \ {a}
  /\ UNCHANGED <<database, friendCache, pc, Locals, Bounds>>

-----------------------------------------------------------------------------

CheckStep(c) == CheckExists(c) \/ LoadSet(c) \/ ReplaceSet(c) \/ IsMember(c) \/ CheckFails(c)
UnfriendStep(c) == UnfriendDelete(c) \/ UnfriendUpdate(c) \/ UnfriendCommit(c)
TxStep(c) == SendTx(c) \/ HandleTx(c) \/ UnfriendStep(c) \/ BlockTx(c) \/ UnblockTx(c) \/ TxFails(c)
CacheStep(c) ==
  AddBlocked(c) \/ RemoveBlocked(c) \/ InvalidateFrom(c) \/ InvalidateTo(c) \/ CacheWriteFails(c)

Next ==
  \/ \E c \in Calls :
       \/ \E op \in Ops, p \in Pairs : Begin(c, op, p)
       \/ CheckStep(c) \/ TxStep(c) \/ CacheStep(c)
  \/ \E a \in Agents : ExpireFriendSet(a) \/ ExpireBlockSet(a)

Spec == Init /\ [][Next]_vars

\* A call in progress takes its next step (its commands have deadlines), and
\* Redis expires what has an expiry.  Nobody is obliged to make calls.
Fairness ==
  /\ \A c \in Calls : WF_vars(CheckStep(c) \/ TxStep(c) \/ CacheStep(c))
  /\ \A a \in Agents : WF_vars(ExpireFriendSet(a)) /\ WF_vars(ExpireBlockSet(a))

FairSpec == Spec /\ Fairness

-----------------------------------------------------------------------------
(* Properties *)

\* Friendship rows come in pairs, whatever calls overlap or fail
\* ("Relation rows are symmetric double-writes").
FriendSymmetry == \A p \in friend : Rev(p) \in friend

\* Two agents never wait for each other: the second request accepts the first.
NoMutualPending == \A p \in Pairs : ~(req[p] = "pending" /\ req[Rev(p)] = "pending")

\* An open Unfriend is alone with its pair and finds at its commit the rows it
\* locked: the friendship is still there and the requests it closes are still
\* accepted, so no later request is overwritten.
UnfriendOwnsRows ==
  /\ \A c \in Calls :
       /\ pc[c] \in {"update", "commit"} => job[c].pair \in friend
       /\ held[c] # {} => pc[c] = "commit"
       /\ \A q \in held[c] : q \in Both(job[c].pair) /\ req[q] = "accepted"
  /\ \A c, d \in Calls :
       /\ pc[c] \in {"update", "commit"} /\ pc[d] \in {"update", "commit"}
       /\ job[c].pair \in Both(job[d].pair)
       => c = d

\* The inductive invariant of the relation tables.
TablesInv == TypeOK /\ FriendSymmetry /\ NoMutualPending /\ UnfriendOwnsRows

\* An agent who has blocked another receives no friend request from it.
BlockEnforced ==
  [][\A p \in Pairs :
       Rev(p) \in block /\ req[p] # "pending" => req'[p] # "pending"]_vars

\* A request recorded as accepted stands for a friendship that exists: ending
\* the friendship also closes the request.
AcceptedAreFriends == \A p \in Pairs : req[p] = "accepted" => p \in friend

\* What the code gives up only when calls overlap or commands fail is stated
\* of the behaviours in which neither has happened.
OneAtATime == ~overlapped /\ faults = 0

\* One call at a time, however the calls follow each other and however friend
\* sets expire in between: the checks of SendFriendRequest, which go through the
\* cached sets, never let a blocked agent's request through.
BlockEnforcedAlone ==
  [][OneAtATime => \A p \in Pairs :
       Rev(p) \in block /\ req[p] # "pending" => req'[p] # "pending"]_vars

\* A block ends the friendship and no friendship starts while it lasts.
BlockedNotFriends == \A p \in block : p \notin friend
BlockedNotFriendsAlone == OneAtATime => BlockedNotFriends

\* Ending a friendship, by Unfriend or by BlockUser, closes its request, and a
\* transaction or a command that fails does not change that: only overlaps do.
AcceptedAreFriendsAlone == ~overlapped => AcceptedAreFriends

\* Two friends have the request that made them friends, and nothing to answer:
\* SendFriendRequest asks no friend again, although its transaction does not look
\* at the friendship rows and would put an accepted request back to pending.
FriendsWereAccepted ==
  \A p \in friend : /\ "accepted" \in {req[p], req[Rev(p)]}
                     /\ "pending" \notin {req[p], req[Rev(p)]}

\* It holds while calls do not overlap and nothing fails, for as long as no friend
\* set expires between EXISTS (or the fill) and SISMEMBER: the missing set then
\* answers that the two are no friends.
FriendsWereAcceptedAlone == OneAtATime /\ ~lapsed => FriendsWereAccepted

\* Between calls a cached set is what a fresh load would give.
CachesCoherent ==
  OneAtATime /\ (\A c \in Calls : pc[c] = "idle") =>
    \A a \in Agents :
      /\ friendSet[a] # {} => friendSet[a] = {v \in Agents : <<a, v>> \in friend}
      /\ blockSet[a] # {} => blockSet[a] = {v \in Agents : <<a, v>> \in block}

\* Why they hold.  A call knows, from the checks it has behind it, that neither
\* agent has blocked the other; what it loaded or committed is still what is
\* there.
CallKnows(c) ==
  /\ pc[c] \in {"exists", "load", "fill", "member"} =>
       /\ job[c].op = "apply"
       /\ job[c].check > 1 => job[c].pair \notin block
       /\ job[c].check > 2 => Rev(job[c].pair) \notin block
  /\ pc[c] = "tx" /\ job[c].op = "apply" => Both(job[c].pair) \cap block = {}
  /\ pc[c] \in {"load", "fill"} /\ job[c].check < 3 => Loaded(job[c]) = {}
  /\ pc[c] = "fill" => snap[c] = Loaded(job[c])
  /\ pc[c] = "sadd" => job[c].pair \in block
  /\ pc[c] = "srem" => job[c].pair \notin block

\* A call in progress has still to do this step for the pair.
Due(steps, p) == \E c \in Calls : pc[c] \in steps /\ job[c].pair = p

\* A friend set is missing, right, or about to be dropped.  A block set lacks
\* what is about to be added and has what is about to be removed; it is never
\* loaded with members, so it has no expiry.
FriendSetsFollow ==
  \A a \in Agents :
    \/ friendSet[a] \in {{}, {v \in Agents : <<a, v>> \in friend}}
    \/ \E v \in Agents : \/ Due({"sadd", "drop1"}, <<a, v>>)
                          \/ Due({"sadd", "drop1", "drop2"}, <<v, a>>)

BlockSetsFollow ==
  /\ blockTTL = {}
  /\ \A p \in Pairs : p[2] \in blockSet[p[1]] <=>
       (p \in block /\ ~Due({"sadd"}, p)) \/ Due({"srem"}, p)
  /\ \A a \in Agents : a \notin blockSet[a]

\* An Unfriend that is alone closes the requests that are accepted at its commit.
RequestsFollow ==
  /\ AcceptedAreFriends
  /\ \A c \in Calls :
       pc[c] = "commit" => held[c] = {q \in Both(job[c].pair) : req[q] = "accepted"}

Coherent ==
  /\ BlockedNotFriends
  /\ \A c \in Calls : CallKnows(c)
  /\ FriendSetsFollow /\ BlockSetsFollow

SingleCall ==
  ~overlapped => \A c, d \in Calls : pc[c] # "idle" /\ pc[d] # "idle" => c = d

\* Every friend set has an expiry, whichever write made it.
FriendSetsExpire == friendTTL = {a \in Agents : friendSet[a] # {}}

\* What the friend check of SendFriendRequest, made of the cached set only, tells
\* the call: the set it is about to read is right, and at its transaction the two
\* are not friends.
FriendCheckKnows(c) ==
  /\ pc[c] = "member" /\ job[c].check = 3 =>
       friendSet[job[c].pair[1]] = {v \in Agents : <<job[c].pair[1], v>> \in friend}
  /\ pc[c] = "tx" /\ job[c].op = "apply" => job[c].pair \notin friend

FriendsFollow == FriendsWereAccepted /\ \A c \in Calls : FriendCheckKnows(c)

\* The inductive invariant.
RelationsInv ==
  /\ TablesInv /\ SingleCall /\ FriendSetsExpire
  /\ ~overlapped => RequestsFollow
  /\ OneAtATime => Coherent
  /\ OneAtATime /\ ~lapsed => FriendsFollow

\* A cached block set that went stale is right or gone again sooner or later
\* ("Block Set Cache ... TTL: 24 hours ... Invalidation: On block/unblock
\* operations", docs/pm_relations_design.md).
BlockSetsHeal ==
  \A a \in Agents : []<>(blockSet[a] \in {{}, {v \in Agents : <<a, v>> \in block}})
=============================================================================
