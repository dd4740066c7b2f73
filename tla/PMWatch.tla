------------------------------ MODULE PMWatch ------------------------------
(***************************************************************************)
(* `watch --dispatch` of the CLI: the socket loop and the one-minute poll  *)
(* that take an agent's messages from its inbox into the dispatch journal, *)
(* and the admissions that a CLI update waits for.                         *)
(*                                                                         *)
(* It composes PMInbox with what DispatchJournal promises (JournalIntake). *)
(* What is delivered is journaled in the same step: nothing is kept in     *)
(* between.                                                                *)
(***************************************************************************)
EXTENDS PMInbox, JournalIntake

CONSTANTS
  Earlier,    \* messages delivered before the behaviour starts
  MaxUpdates  \* bound on CLI updates

ASSUME WatchAssumption ==
  /\ Jobs = Msgs /\ Earlier \subseteq Msgs
  /\ MaxPending \in Nat \ {0} /\ MaxUpdates \in Nat

VARIABLES
  cursor,      \* cursor of pmLoop: next_cursor of the last frame delivered
  pollCursor,  \* cursor of pollPM for its next page; 0 is a new pass
  pending,     \* whether the handoff has a version pending
  active,      \* admissions of the handoff
  done,        \* whether the handoff is done
  updates      \* CLI updates so far

handoff == <<pending, active, done, updates>>
client == <<cursor, pollCursor>>
vars == <<inbox, intake, handoff, client>>

TypeOK ==
  /\ InboxTypeOK
  /\ accepted \subseteq Msgs /\ unresolved \subseteq accepted
  /\ held \in BOOLEAN /\ running \in BOOLEAN
  /\ cursor \in Msgs \cup {0} /\ pollCursor \in Msgs \cup {0}
  /\ pending \in BOOLEAN /\ active \in 0..2 /\ done \in BOOLEAN
  /\ updates \in 0..MaxUpdates

\* A watch with no socket and no pull yet, which may have delivered messages,
\* the later ones first: the order of msg_ids is not the order of the commits.
Init ==
  /\ InboxInit(Earlier)
  /\ accepted = Earlier /\ unresolved \in SUBSET Earlier /\ Fits(unresolved)
  /\ held = FALSE /\ running = TRUE
  /\ pending = FALSE /\ active = 0 /\ done = FALSE /\ updates = 0
  /\ cursor \in Earlier \cup {0} /\ pollCursor = 0

-----------------------------------------------------------------------------
(* watchHandoff *)

HandoffBegin == ~pending /\ active' = active + 1 /\ UNCHANGED <<pending, done, updates>>

HandoffEnd ==
  /\ active' = active - 1
  /\ done' = (done \/ (pending /\ active' = 0))
  /\ UNCHANGED <<pending, updates>>

\* A new CLI is installed.
RequestUpdate ==
  /\ running /\ ~pending /\ updates < MaxUpdates
  /\ pending' = TRUE /\ updates' = updates + 1
  /\ done' = (active = 0)
  /\ UNCHANGED <<inbox, intake, active, client>>

-----------------------------------------------------------------------------
(* The server *)

PostCommit(m) == (Invalidate(m) \/ Publish(m)) /\ UNCHANGED <<intake, handoff, client>>

\* A page that ends empty, or in an error, ends the pass of the poll.
FetchStep(f) ==
  /\ Query(f) \/ QueryFails(f) \/ Fill(f) \/ Mark(f) \/ MarkFails(f)
  /\ IF f = "poll" /\ fetch'[f] = Idle
     THEN HandoffEnd /\ pollCursor' = 0
     ELSE UNCHANGED <<handoff, pollCursor>>
  /\ UNCHANGED <<intake, cursor>>

Push == (Subscribe \/ FetchAndPush) /\ UNCHANGED <<intake, handoff, client>>
Expire == ExpireEmpty /\ UNCHANGED <<intake, handoff, client>>

Arrive ==
  /\ \E m \in Msgs : Commit(m) \/ PostCommitFails(m)
  /\ UNCHANGED <<intake, handoff, client>>

-----------------------------------------------------------------------------
(* Intake *)

\* pmLoop dials with its cursor.
Dial == running /\ Connect(cursor) /\ UNCHANGED <<intake, handoff, client>>

\* Seeded fault: the cursor moves on although the journal was not asked.
DeliverFrameUnjournaled(S) ==
  /\ TakeFrame(S) /\ running
  /\ cursor' = Newest(S)
  /\ UNCHANGED <<intake, handoff, pollCursor>>

\* deliverPM of a frame, and the cursor after it.
DeliverFrame(S) ==
  /\ TakeFrame(S) /\ Accept(S)
  /\ cursor' = Newest(S)
  /\ UNCHANGED <<handoff, pollCursor>>

\* Seeded fault: the pull is not admitted.
PollPageUnadmitted ==
  /\ running /\ Cardinality(unresolved) < MaxPending
  /\ StartFetch("poll", pollCursor) /\ fetch' # fetch
  /\ UNCHANGED <<row, post, emptyCached, socket, dropped, faults, intake, handoff, client>>

\* Seeded fault: the poll shares the cursor of the socket.
PollPageFromCursor ==
  /\ running /\ Cardinality(unresolved) < MaxPending
  /\ StartFetch("poll", cursor) /\ fetch' # fetch
  /\ HandoffBegin
  /\ UNCHANGED <<row, post, emptyCached, socket, dropped, faults, intake, client>>

\* pollPMPage up to its request: an admission, and room in the journal.  A
\* cached empty answer ends it at once, and so leaves everything as it was.
PollPage ==
  /\ running /\ Cardinality(unresolved) < MaxPending
  /\ StartFetch("poll", pollCursor) /\ fetch' # fetch
  /\ HandoffBegin
  /\ UNCHANGED <<row, post, emptyCached, socket, dropped, faults, intake, client>>

DeliverAnswer(S) ==
  /\ TakeAnswer(S) /\ Accept(S)
  /\ pollCursor' = Newest(S)
  /\ HandoffEnd
  /\ UNCHANGED cursor

\* pollPM also gives up its pass between two pages: the journal is full, or the
\* pass has had its 32 pages, which are not counted here.
EndPass ==
  /\ running /\ ~Busy("poll") /\ pollCursor # 0
  /\ pollCursor' = 0
  /\ UNCHANGED <<inbox, intake, handoff, cursor>>

Deliver == \E S \in SUBSET Msgs : DeliverFrame(S) \/ DeliverAnswer(S)

-----------------------------------------------------------------------------
(* dispatchLoop *)

Claim == Hold /\ HandoffBegin /\ UNCHANGED <<inbox, client>>
Finish == Release /\ HandoffEnd /\ UNCHANGED <<inbox, client>>

-----------------------------------------------------------------------------
(* Stops *)

\* The watch ends, with all that it had in memory.
EndWatch ==
  /\ Stop /\ ClientGone
  /\ pending' = FALSE /\ active' = 0 /\ done' = FALSE
  /\ cursor' = 0 /\ pollCursor' = 0
  /\ UNCHANGED updates

\* What is delivered does not fit: the journal's error stops the watch.
Overflow ==
  /\ \/ frames # <<>> /\ ~Fits(unresolved \cup Head(frames))
     \/ ~Fits(unresolved \cup InAnswer)
  /\ EndWatch /\ UNCHANGED faults

Crash == Fault /\ EndWatch

\* The watch is replaced by the new CLI once the handoff is done.
Adopt == done /\ EndWatch /\ UNCHANGED faults

BreakSocket == Fault /\ Disconnect /\ UNCHANGED <<intake, handoff, client>>

PollFails ==
  /\ Fault /\ LoseAnswer
  /\ HandoffEnd
  /\ pollCursor' = 0
  /\ UNCHANGED <<intake, cursor>>

Restart == (Start \/ Operator) /\ UNCHANGED <<inbox, handoff, client>>

-----------------------------------------------------------------------------

Next ==
  \/ Arrive \/ Expire \/ Push
  \/ \E m \in Msgs : PostCommit(m)
  \/ \E f \in Fetchers : FetchStep(f)
  \/ Dial \/ PollPage \/ EndPass \/ Deliver
  \/ Claim \/ Finish
  \/ RequestUpdate \/ Adopt
  \/ Overflow \/ Crash \/ BreakSocket \/ PollFails \/ Restart

Spec == Init /\ [][Next]_vars

\* The service finishes its calls, the cached answer expires, the loops of the
\* watch go on (a socket is dialled again, a poll made every minute), an agent
\* run ends (it has a timeout) and the watch is started again.
Fairness ==
  /\ \A m \in Msgs : WF_vars(PostCommit(m))
  /\ \A f \in Fetchers : WF_vars(FetchStep(f))
  /\ WF_vars(Expire) /\ WF_vars(Push) /\ WF_vars(Dial) /\ WF_vars(PollPage)
  /\ WF_vars(Deliver \/ Overflow) /\ WF_vars(Finish) /\ WF_vars(Adopt) /\ WF_vars(Restart)

FairSpec == Spec /\ Fairness

-----------------------------------------------------------------------------
(* Properties *)

\* FetchPM marks a message as read only when it is about to be handed over: a
\* message marked as read is in the answer of a call, in a frame, has been
\* journaled, or was in an answer or frame that got lost.
ReadIsCarried ==
  \A m \in Msgs : row[m] = "read" => m \in accepted \cup dropped \cup InFrames \cup InAnswer

\* The admissions are those of the job in hand and of the pull under way, and
\* the handoff is done exactly when one is pending and none is left.
Admissions ==
  /\ active = Cardinality({a \in {"job", "pull"} : IF a = "job" THEN held ELSE Busy("poll")})
  /\ done <=> pending /\ active = 0

\* What a call has found, or a frame carries, has a newest message, which can
\* become a cursor; what a call has found is newer than the cursor it was given.
HasNewest(S) == \E m \in S : \A n \in S : n <= m
PagesInv ==
  /\ \A f \in Fetchers :
       /\ fetch[f].pc \in {"mark", "answer"} => HasNewest(fetch[f].found)
       /\ \A m \in fetch[f].found : m > fetch[f].cursor
  /\ \A i \in DOMAIN frames : HasNewest(frames[i])

\* The socket hands over every message once and in the order of the ids: what
\* is on its way lies between the watch's cursor and the connection's.
SocketInOrder ==
  /\ conn = "down" => frames = <<>> /\ ~Busy("push")
  /\ conn # "down" => cursor <= connCursor
  /\ Busy("push") => fetch["push"].cursor = connCursor
  /\ \A i \in DOMAIN frames : \A m \in frames[i] :
       /\ cursor < m /\ m <= connCursor
       /\ \A j \in 1..(i - 1) : \A n \in frames[j] : n < m

\* The inductive invariant: the socket, what carries the messages, and the
\* admissions.
WatchInv == TypeOK /\ PagesInv /\ SocketInOrder /\ ReadIsCarried /\ Admissions

\* A CLI update interrupts nothing that was admitted: once the handoff is done
\* no job is in hand and no pull is under way, and none begins.
AdoptionDrains == done => ~held /\ ~Busy("poll")

\* While the watch runs, its cursor only moves forward, and so does that of a
\* connection: a lost hint, a frame that got lost or a second dial never take
\* the socket back to a message that it has handed over.
CursorsAdvance ==
  [][ /\ running' => cursor <= cursor'
      /\ conn # "down" /\ conn' # "down" => connCursor <= connCursor' ]_vars

\* A message in the inbox is journaled in the end, be it pushed or polled,
\* unless its answer or frame gets lost or the journal is full; a stale cached
\* empty answer, a missed hint or a cursor beyond the message only delay it.
EventuallyTaken ==
  \A m \in Msgs : (row[m] = "unread") ~>
    (m \in accepted \cup dropped \/ Cardinality(unresolved) >= MaxPending)

\* What the comment of pmFallbackLoop says of the poll, that it complements the
\* socket when a push gets lost: a message that was pushed is journaled in the
\* end, even if its frame does not arrive.
PollComplements == \A m \in Msgs : (m \in InFrames) ~> (m \in accepted)

=============================================================================
