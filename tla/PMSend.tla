------------------------------- MODULE PMSend -------------------------------
(***************************************************************************)
(* rpc/pm SendPM between the owner of one item and one visitor: the send   *)
(* guard that deduplicates requests, the creation of the conversation, the *)
(* ice break that limits unanswered messages, and the transaction.         *)
(*                                                                         *)
(* The answers of the cached block and friend checks are left open: they   *)
(* may be stale (module Relations), and their errors are dropped.          *)
(***************************************************************************)
EXTENDS Naturals, FiniteSets

CONSTANTS
  Owner, Visitor,    \* the two participants
  Requests,          \* sends, by the fingerprint that the guard uses
  Sender,            \* Sender[r]: who sends r
  Target,            \* Target[r]: "item", "friend" or a conversation
  ConvIds,           \* ids that the conversation about the item may get
  Calls,             \* slots for calls in progress
  MaxInitiatorMsgs,  \* messages before a reply
  MaxExpiries,       \* bound on the keys that expire in a behaviour
  MaxFaults          \* bound on the failures in a behaviour

Agents == {Owner, Visitor}

ASSUME AgentsAssumption == Owner # Visitor /\ "none" \notin Agents
ASSUME RequestsAssumption ==
  /\ "none" \notin Requests /\ "none" \notin ConvIds
  /\ "item" \notin ConvIds /\ "friend" \notin ConvIds
  /\ Sender \in [Requests -> Agents]
  /\ Target \in [Requests -> ConvIds \cup {"item", "friend"}]
  /\ \A r \in Requests : Target[r] = "item" => Sender[r] = Visitor
ASSUME CallsAssumption ==
  IsFiniteSet(Calls) /\ "free" \notin Calls /\ "done" \notin Calls
ASSUME BoundsAssumption ==
  MaxInitiatorMsgs \in Nat \ {0} /\ MaxExpiries \in Nat /\ MaxFaults \in Nat

VARIABLES
  guard,     \* guard[r]: "free", the call whose token is pending, or "done"
  lapses,    \* lapses[r]: times the guard was given up with r perhaps sent
  convs,     \* conversations in the database
  sent,      \* sent[r]: messages in the database for r
  opening,   \* opening[c]: messages under the ice break rule, up to the first
             \* of the second participant
  spoken,    \* spoken[c]: senders of the messages under that rule
  lock,      \* lock[c]: pm:lock:<c>, sender and count
  broken,    \* conversations whose bit in pm:ice:h:<bucket> is set
  tried,     \* tried[c]: agents that the ice break script has seen
  resets,    \* resets[c]: times the ice break lost count of c
  pc, req, conv, ice,  \* calls: next step, request, conversation, status
  stale,     \* calls whose token has expired
  expiries, faults     \* so far

guardVars == <<guard, lapses>>
database == <<convs, sent, opening, spoken>>
iceVars == <<lock, broken, tried, resets>>
locals == <<req, conv, ice>>
bounds == <<expiries, faults>>
vars == <<guardVars, database, iceVars, pc, locals, stale, bounds>>

Steps == {"idle", "item", "create", "mark", "reply", "ice", "friend", "tx",
          "rollback", "release", "complete"}
IceStatus == {"broken", "justBroken", "firstMsg"}
NoLock == [by |-> "none", n |-> 0]
Lock == [by : Agents, n : 1..MaxInitiatorMsgs] \cup {NoLock}

TypeOK ==
  /\ guard \in [Requests -> Calls \cup {"free", "done"}]
  /\ lapses \in [Requests -> Nat] /\ sent \in [Requests -> Nat]
  /\ convs \subseteq ConvIds /\ broken \subseteq ConvIds
  /\ opening \in [ConvIds -> Nat] /\ resets \in [ConvIds -> Nat]
  /\ spoken \in [ConvIds -> SUBSET Agents] /\ tried \in [ConvIds -> SUBSET Agents]
  /\ lock \in [ConvIds -> Lock]
  /\ pc \in [Calls -> Steps]
  /\ req \in [Calls -> Requests \cup {"none"}]
  /\ conv \in [Calls -> ConvIds \cup {"none"}]
  /\ ice \in [Calls -> IceStatus \cup {"none"}]
  /\ stale \subseteq Calls
  /\ expiries \in 0..MaxExpiries /\ faults \in 0..MaxFaults

Init ==
  /\ guard = [r \in Requests |-> "free"] /\ lapses = [r \in Requests |-> 0]
  /\ convs = {} /\ sent = [r \in Requests |-> 0]
  /\ opening = [c \in ConvIds |-> 0] /\ spoken = [c \in ConvIds |-> {}]
  /\ lock = [c \in ConvIds |-> NoLock] /\ broken = {}
  /\ tried = [c \in ConvIds |-> {}] /\ resets = [c \in ConvIds |-> 0]
  /\ pc = [j \in Calls |-> "idle"] /\ req = [j \in Calls |-> "none"]
  /\ conv = [j \in Calls |-> "none"] /\ ice = [j \in Calls |-> "none"]
  /\ stale = {} /\ expiries = 0 /\ faults = 0

Goto(j, step) == pc' = [pc EXCEPT ![j] = step]
Fault == faults < MaxFaults /\ faults' = faults + 1 /\ UNCHANGED expiries

\* The call ends and forgets its locals.
Return(j) ==
  /\ Goto(j, "idle")
  /\ req' = [req EXCEPT ![j] = "none"]
  /\ conv' = [conv EXCEPT ![j] = "none"]
  /\ ice' = [ice EXCEPT ![j] = "none"]
  /\ stale' = stale \ {j}

-----------------------------------------------------------------------------
(* The send guard. *)

\* SETNX of a pending token.  A call that finds the token of another, or a
\* finished send, answers 409 or the earlier result and changes nothing.
Acquire(j, r) ==
  /\ pc[j] = "idle" /\ guard[r] = "free"
  /\ Target[r] \in convs \cup {"item", "friend"}
  /\ guard' = [guard EXCEPT ![r] = j]
  /\ req' = [req EXCEPT ![j] = r]
  /\ conv' = [conv EXCEPT ![j] = IF Target[r] \in ConvIds THEN Target[r] ELSE "none"]
  /\ Goto(j, IF Target[r] \in ConvIds THEN "reply" ELSE Target[r])
  /\ UNCHANGED <<lapses, database, iceVars, ice, stale, bounds>>

\* Seeded fault: the finished send is not recorded.
CompleteForgets(j) ==
  /\ pc[j] = "complete"
  /\ guard' = IF guard[req[j]] = j THEN [guard EXCEPT ![req[j]] = "free"] ELSE guard
  /\ Return(j)
  /\ UNCHANGED <<lapses, database, iceVars, bounds>>

\* Compare and set: only the own token becomes a result.
Complete(j) ==
  /\ pc[j] = "complete"
  /\ guard' = IF guard[req[j]] = j THEN [guard EXCEPT ![req[j]] = "done"] ELSE guard
  /\ Return(j)
  /\ UNCHANGED <<lapses, database, iceVars, bounds>>

\* Seeded fault: the key is deleted whatever token it holds.
ReleaseAnyToken(j) ==
  /\ pc[j] = "release"
  /\ guard' = [guard EXCEPT ![req[j]] = "free"]
  /\ Return(j)
  /\ UNCHANGED <<lapses, database, iceVars, bounds>>

\* Compare and delete, after every answer but success.
Release(j) ==
  /\ pc[j] = "release"
  /\ guard' = IF guard[req[j]] = j THEN [guard EXCEPT ![req[j]] = "free"] ELSE guard
  /\ Return(j)
  /\ UNCHANGED <<lapses, database, iceVars, bounds>>

\* pendingTTL or duplicateWindow runs out.
GuardExpires(r) ==
  /\ guard[r] # "free" /\ expiries < MaxExpiries
  /\ stale' = stale \cup {j \in Calls : guard[r] = j /\ req[j] = r}
  /\ guard' = [guard EXCEPT ![r] = "free"]
  /\ lapses' = [lapses EXCEPT ![r] = @ + 1]
  /\ expiries' = expiries + 1
  /\ UNCHANGED <<database, iceVars, pc, locals, faults>>

-----------------------------------------------------------------------------
(* Checks. *)

\* An item that is unavailable or takes no replies, a conversation closed or
\* foreign, agents who are not friends, an id generator that fails.
Reject(j) ==
  /\ pc[j] \in {"item", "create", "reply", "friend"}
  /\ Goto(j, "release")
  /\ UNCHANGED <<guardVars, database, iceVars, locals, stale, bounds>>

\* A sender believed to be blocked is told that the message was sent.
SilentlyBlocked(j) ==
  /\ pc[j] \in {"item", "reply", "friend"}
  /\ Goto(j, "complete")
  /\ UNCHANGED <<guardVars, database, iceVars, locals, stale, bounds>>

\* GetOrCreateConvID: the cached mapping or the database names a conversation.
FindConversation(j, c) ==
  /\ pc[j] = "item" /\ c \in convs
  /\ conv' = [conv EXCEPT ![j] = c]
  /\ Goto(j, "reply")
  /\ UNCHANGED <<guardVars, database, iceVars, req, ice, stale, bounds>>

\* Neither does; a failed query counts as no conversation.
NoConversation(j) ==
  /\ pc[j] = "item"
  /\ IF convs = {} THEN UNCHANGED bounds ELSE Fault
  /\ Goto(j, "create")
  /\ UNCHANGED <<guardVars, database, iceVars, locals, stale>>

\* Friends, and conversations between friends, are not subject to the rule.
SkipIceBreak(j) ==
  /\ pc[j] \in {"reply", "friend"}
  /\ Goto(j, "tx")
  /\ UNCHANGED <<guardVars, database, iceVars, locals, stale, bounds>>

Strangers(j) ==
  /\ pc[j] = "reply"
  /\ Goto(j, "ice")
  /\ UNCHANGED <<guardVars, database, iceVars, locals, stale, bounds>>

-----------------------------------------------------------------------------
(* The ice break. *)

\* Seeded fault: off by one.
StatusOffByOne(c, a) ==
  IF c \in broken THEN "broken"
  ELSE IF lock[c] # NoLock /\ lock[c].by # a THEN "justBroken"
  ELSE IF lock[c].n > MaxInitiatorMsgs THEN "limit"
  ELSE "firstMsg"

Status(c, a) ==
  IF c \in broken THEN "broken"
  ELSE IF lock[c] # NoLock /\ lock[c].by # a THEN "justBroken"
  ELSE IF lock[c].n >= MaxInitiatorMsgs THEN "limit"
  ELSE "firstMsg"

\* Seeded fault: the broken bit is not written.
IceBreakScriptForgets(c, a) ==
  /\ lock' = CASE Status(c, a) = "justBroken" -> [lock EXCEPT ![c] = NoLock]
               [] Status(c, a) = "firstMsg" ->
                    [lock EXCEPT ![c] = [by |-> a, n |-> @.n + 1]]
               [] OTHER -> lock
  /\ tried' = [tried EXCEPT ![c] = @ \cup {a}]
  /\ UNCHANGED broken

IceBreakScript(c, a) ==
  /\ broken' = IF Status(c, a) = "justBroken" THEN broken \cup {c} ELSE broken
  /\ lock' = CASE Status(c, a) = "justBroken" -> [lock EXCEPT ![c] = NoLock]
               [] Status(c, a) = "firstMsg" ->
                    [lock EXCEPT ![c] = [by |-> a, n |-> @.n + 1]]
               [] OTHER -> lock
  /\ tried' = [tried EXCEPT ![c] = @ \cup {a}]

LosesCount(c) == resets' = [resets EXCEPT ![c] = @ + 1]

\* In a reply the script decides whether the message may be stored.
CheckAndSetIceBreak(j) ==
  LET c == conv[j]  a == Sender[req[j]] IN
  /\ pc[j] = "ice"
  /\ IceBreakScript(c, a)
  /\ IF Status(c, a) = "limit"
       THEN Goto(j, "release") /\ UNCHANGED ice
       ELSE Goto(j, "tx") /\ ice' = [ice EXCEPT ![j] = Status(c, a)]
  /\ UNCHANGED <<guardVars, database, resets, req, conv, stale, bounds>>

\* The script fails, or runs and its answer is lost: error 500, no rollback.
IceBreakFails(j) ==
  /\ pc[j] = "ice" /\ Fault
  /\ \/ UNCHANGED <<lock, broken, tried>>
     \/ IceBreakScript(conv[j], Sender[req[j]])
  /\ Goto(j, "release")
  /\ UNCHANGED <<guardVars, database, resets, locals, stale>>

\* For the opening message the script runs after the commit and its result is
\* ignored: a message past the limit stays uncounted.
MarkOpening(j) ==
  LET c == conv[j]  a == Sender[req[j]] IN
  /\ pc[j] = "mark"
  /\ IceBreakScript(c, a)
  /\ IF Status(c, a) = "limit" THEN LosesCount(c) ELSE UNCHANGED resets
  /\ Goto(j, "complete")
  /\ UNCHANGED <<guardVars, database, locals, stale, bounds>>

MarkFails(j) ==
  /\ pc[j] = "mark" /\ Fault
  /\ LosesCount(conv[j])
  /\ Goto(j, "complete")
  /\ UNCHANGED <<guardVars, database, lock, broken, tried, locals, stale>>

\* The broken bit, or the whole lock, is deleted; a message sent under an
\* already broken ice, or with none checked, has nothing to roll back.
RollbackIceBreak(j) ==
  LET c == conv[j] IN
  /\ pc[j] = "rollback"
  /\ broken' = IF ice[j] = "justBroken" THEN broken \ {c} ELSE broken
  /\ lock' = IF ice[j] = "firstMsg" THEN [lock EXCEPT ![c] = NoLock] ELSE lock
  /\ IF <<broken, lock>>' = <<broken, lock>> THEN UNCHANGED resets ELSE LosesCount(c)
  /\ Goto(j, "release")
  /\ UNCHANGED <<guardVars, database, tried, locals, stale, bounds>>

\* Part of the failure that made the rollback necessary.
RollbackFails(j) ==
  /\ pc[j] = "rollback"
  /\ Goto(j, "release")
  /\ UNCHANGED <<guardVars, database, iceVars, locals, stale, bounds>>

\* The lock lives a day, the bucket of broken bits seven.
IceBreakExpires(c) ==
  /\ expiries < MaxExpiries /\ expiries' = expiries + 1
  /\ \/ /\ lock[c] # NoLock
        /\ lock' = [lock EXCEPT ![c] = NoLock] /\ UNCHANGED broken
     \/ /\ c \in broken
        /\ broken' = broken \ {c} /\ UNCHANGED lock
  /\ LosesCount(c)
  /\ UNCHANGED <<guardVars, database, tried, pc, locals, stale, faults>>

-----------------------------------------------------------------------------
(* The transactions. *)

\* A row of private_messages in conversation c, under the ice break rule.
StoreRuled(c, r) ==
  /\ sent' = [sent EXCEPT ![r] = @ + 1]
  /\ opening' = [opening EXCEPT ![c] = IF spoken[c] \subseteq {Sender[r]} THEN @ + 1 ELSE @]
  /\ spoken' = [spoken EXCEPT ![c] = @ \cup {Sender[r]}]

\* A row that is not: the parts of the conversation that count stay.
StoreFree(r) ==
  /\ sent' = [sent EXCEPT ![r] = @ + 1]
  /\ UNCHANGED <<opening, spoken>>

StoreReply(j) ==
  /\ IF ice[j] = "none" THEN StoreFree(req[j]) ELSE StoreRuled(conv[j], req[j])
  /\ UNCHANGED convs

\* handleReply's transaction, and the one of handleFriendPM.
CommitReply(j) ==
  /\ pc[j] = "tx"
  /\ StoreReply(j)
  /\ Goto(j, "complete")
  /\ UNCHANGED <<guardVars, iceVars, locals, stale, bounds>>

\* Conversation and opening message, under a new id.  The participants are
\* sorted, so UNIQUE(participant_a, participant_b, origin_id) admits one
\* conversation about the item, whoever opens it.
CreateConversation(j, c) ==
  /\ convs = {}
  /\ convs' = convs \cup {c}
  /\ StoreRuled(c, req[j])

CommitConversation(j, c) ==
  /\ pc[j] = "create"
  /\ CreateConversation(j, c)
  /\ conv' = [conv EXCEPT ![j] = c]
  /\ Goto(j, "mark")
  /\ UNCHANGED <<guardVars, iceVars, req, ice, stale, bounds>>

\* Another call has created the conversation since this one looked: the insert
\* fails, and with it the call.  The conversation of friends exists as soon as a
\* message between them does; whether this call looked before that is left open.
DuplicateConversation(j) ==
  /\ \/ pc[j] = "create" /\ convs # {}
     \/ pc[j] = "friend" /\ \E r \in Requests : Target[r] = "friend" /\ sent[r] > 0
  /\ Goto(j, "release")
  /\ UNCHANGED <<guardVars, database, iceVars, locals, stale, bounds>>

\* Nothing is stored; a new conversation has no ice break to roll back.
TxFails(j) ==
  /\ pc[j] \in {"create", "tx"} /\ Fault
  /\ Goto(j, IF pc[j] = "tx" THEN "rollback" ELSE "release")
  /\ UNCHANGED <<guardVars, database, iceVars, locals, stale>>

\* The rows are stored and the call is told otherwise.
CommitAnswerLost(j) ==
  /\ Fault
  /\ \/ /\ pc[j] = "tx" /\ StoreReply(j)
        /\ Goto(j, "rollback") /\ UNCHANGED resets
     \/ /\ pc[j] = "create"
        /\ \E c \in ConvIds : CreateConversation(j, c) /\ LosesCount(c)
        /\ Goto(j, "release")
  /\ lapses' = [lapses EXCEPT ![req[j]] = @ + 1]
  /\ UNCHANGED <<guard, lock, broken, tried, locals, stale>>

\* The service dies, or a command of its guard fails: the guard keeps the token
\* until it expires.
Crash(j) ==
  /\ pc[j] # "idle" /\ Fault
  /\ Return(j)
  /\ IF pc[j] = "mark" THEN LosesCount(conv[j]) ELSE UNCHANGED resets
  /\ UNCHANGED <<guardVars, database, lock, broken, tried>>

-----------------------------------------------------------------------------

SendStep(j) ==
  \/ \E r \in Requests : Acquire(j, r)
  \/ Reject(j) \/ SilentlyBlocked(j)
  \/ \E c \in ConvIds : FindConversation(j, c)
  \/ NoConversation(j) \/ SkipIceBreak(j) \/ Strangers(j)
  \/ CheckAndSetIceBreak(j)
  \/ CommitReply(j)
  \/ \E c \in ConvIds : CommitConversation(j, c)
  \/ DuplicateConversation(j)
  \/ MarkOpening(j) \/ RollbackIceBreak(j)
  \/ Complete(j) \/ Release(j)

FailureStep(j) ==
  \/ IceBreakFails(j) \/ MarkFails(j) \/ RollbackFails(j)
  \/ TxFails(j) \/ CommitAnswerLost(j) \/ Crash(j)

Next ==
  \/ \E j \in Calls : SendStep(j) \/ FailureStep(j)
  \/ \E r \in Requests : GuardExpires(r)
  \/ \E c \in ConvIds : IceBreakExpires(c)

Spec == Init /\ [][Next]_vars

-----------------------------------------------------------------------------
(* Properties. *)

\* Two calls are under way for one request only when the token of one of them
\* has expired: neither Release nor Complete of a call that lost its token
\* frees or settles the guard of the call that came after it.
OneSender ==
  \A j, k \in Calls :
    j # k /\ pc[j] # "idle" /\ req[j] = req[k] => j \in stale \/ k \in stale

\* A request is stored once, and once more at most for every time that its
\* guard expired or that an answer to a commit was lost.
SentOnce == \A r \in Requests : sent[r] <= 1 + lapses[r]

\* A call that created conversation c and has not marked its opening message.
Unmarked(c) == \E j \in Calls : pc[j] = "mark" /\ conv[j] = c

\* Until the other participant begins to reply, an initiator has stored at most
\* MaxInitiatorMsgs messages, one more while the opening message is not marked,
\* and MaxInitiatorMsgs more for every time the ice break lost count.  The one
\* more does happen: the opening message is stored before it is counted, and
\* sends that find the conversation in between may take the whole window.
WindowBound ==
  \A c \in ConvIds, a \in Agents :
    tried[c] \subseteq {a} /\ spoken[c] \subseteq {a} =>
      opening[c] <= MaxInitiatorMsgs * (1 + resets[c])
                      + (IF Unmarked(c) THEN 1 ELSE 0)

\* When both participants have stored messages, every opening message is marked
\* and no mark was lost, the ice is broken: nobody waits for an answer again.
BrokenOnceBothSpoke ==
  \A c \in ConvIds :
    spoken[c] = Agents /\ resets[c] = 0 /\ ~Unmarked(c) => c \in broken

-----------------------------------------------------------------------------
(* The inductive invariant. *)

CallOK(j) ==
  /\ pc[j] = "idle" <=> req[j] = "none"
  /\ pc[j] \in {"item", "create", "mark"} => Target[req[j]] = "item"
  /\ pc[j] \in {"mark", "reply", "ice"} => conv[j] \in convs
  /\ ice[j] # "none" =>
       /\ pc[j] \in {"tx", "rollback", "release", "complete"}
       /\ conv[j] \in convs /\ Sender[req[j]] \in tried[conv[j]]
  /\ pc[j] = "mark" => \A k \in Calls : pc[k] = "mark" /\ conv[k] = conv[j] => k = j
  /\ j \in stale => pc[j] # "idle"

\* What a call has found out by the step it is at.
CallInv == \A j \in Calls : CallOK(j)

\* A call whose token has not expired holds the guard.
GuardInv == \A j \in Calls : pc[j] # "idle" /\ j \notin stale => guard[req[j]] = j

\* Calls that may still store r, or give its guard back.
Pending(r) == {j \in Calls : req[j] = r /\ pc[j] \notin {"mark", "complete"}}

\* A guard that is taken is worth one message: a pending call, a stored
\* message, or a token left behind.
CreditInv ==
  \A r \in Requests :
    sent[r] + Cardinality(Pending(r)) <= lapses[r] + (IF guard[r] = "free" THEN 0 ELSE 1)

\* Calls whose message the script has counted and the database does not have.
Granted(c) == {j \in Calls : pc[j] = "tx" /\ conv[j] = c /\ ice[j] # "none"}

\* The marks of the ice break say who has been seen.
MarkInv ==
  \A c \in ConvIds :
    /\ lock[c] # NoLock => lock[c].by \in tried[c]
    /\ c \in broken => tried[c] = Agents
    /\ resets[c] = 0 /\ c \notin broken =>
         tried[c] = IF lock[c] = NoLock THEN {} ELSE {lock[c].by}
    /\ spoken[c] \subseteq tried[c] \cup (IF Unmarked(c) \/ resets[c] > 0 THEN {Visitor} ELSE {})
    /\ c \notin convs => opening[c] = 0 /\ spoken[c] = {} /\ tried[c] = {}

\* Every unanswered message is counted by the lock, was counted before the
\* count was lost, or is an opening message not marked yet.
CountInv ==
  \A c \in ConvIds, a \in Agents :
    tried[c] \subseteq {a} /\ spoken[c] \subseteq {a} =>
      opening[c] + Cardinality(Granted(c))
        <= lock[c].n + MaxInitiatorMsgs * resets[c] + (IF Unmarked(c) THEN 1 ELSE 0)

\* Guard, calls, database and ice break agree: the invariant behind OneSender,
\* SentOnce, WindowBound and BrokenOnceBothSpoke.
PMInv ==
  TypeOK /\ CallInv /\ GuardInv /\ CreditInv /\ MarkInv /\ CountInv
=============================================================================
