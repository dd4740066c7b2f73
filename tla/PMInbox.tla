------------------------------ MODULE PMInbox ------------------------------
(***************************************************************************)
(* One agent's unread private messages: the rows that SendPM stores,       *)
(* FetchPM of rpc/pm, which marks what it returns as read, the cached      *)
(* empty answer, and the push goroutine of ws that fetches for a socket.   *)
(*                                                                         *)
(* FetchPM is called by the push goroutine ("push") and by HTTP polls      *)
(* ("poll").  A call whose client is gone goes on in the server under the  *)
(* name of Orphan(f), and what it returns reaches nobody.                  *)
(***************************************************************************)
EXTENDS Naturals, Sequences, FiniteSets

CONSTANTS
  Msgs,       \* msg_ids of messages to this agent; stored in any order
  PushLimit,  \* rows of one fetch of the push goroutine; a poll asks for one
  MaxFaults   \* bound on failures and crashes

ASSUME MsgsAssumption == Msgs \subseteq Nat \ {0}
ASSUME InboxAssumption == PushLimit \in Nat \ {0} /\ MaxFaults \in Nat

VARIABLES
  row,          \* row[m]: no row yet, unread or read
  post,         \* post[m]: what SendPM has still to do after its commit
  emptyCached,  \* whether the PMFetch key holds an empty answer
  fetch,        \* fetch[f]: the call of FetchPM that f is making
  conn,         \* the socket: down, connected, or subscribed to pm:push
  connCursor,   \* PMCursor of the connection
  hints,        \* publications on pm:push not yet seen by the push goroutine
  frames,       \* pm_push frames on their way, each a set of messages
  dropped,      \* messages that were in an answer or a frame that got lost
  faults        \* failures so far

server == <<row, post, emptyCached, fetch>>
socket == <<conn, connCursor, hints, frames>>
inbox == <<server, socket, dropped, faults>>

Orphan(f) == IF f = "push" THEN "orphan push" ELSE "orphan poll"
Orphans == {"orphan push", "orphan poll"}
Fetchers == {"push", "poll"} \cup Orphans
Limit(f) == IF f \in {"push", "orphan push"} THEN PushLimit ELSE 1

Call(pc, cursor, found) == [pc |-> pc, cursor |-> cursor, found |-> found]
Idle == Call("idle", 0, {})
Busy(f) == fetch[f].pc # "idle"

InboxTypeOK ==
  /\ row \in [Msgs -> {"none", "unread", "read"}]
  /\ post \in [Msgs -> {"none", "invalidate", "publish", "done"}]
  /\ emptyCached \in BOOLEAN
  /\ fetch \in [Fetchers -> [pc : {"idle", "query", "fill", "mark", "answer"},
                             cursor : Msgs \cup {0}, found : SUBSET Msgs]]
  /\ conn \in {"down", "connected", "subscribed"}
  /\ connCursor \in Msgs \cup {0}
  /\ hints \in Nat
  /\ frames \in Seq(SUBSET Msgs)
  /\ dropped \subseteq Msgs
  /\ faults \in 0..MaxFaults

\* Some messages have been read.
InboxInit(read) ==
  /\ row = [m \in Msgs |-> IF m \in read THEN "read" ELSE "none"]
  /\ post = [m \in Msgs |-> IF m \in read THEN "done" ELSE "none"]
  /\ emptyCached = FALSE
  /\ fetch = [f \in Fetchers |-> Idle]
  /\ conn = "down" /\ connCursor = 0 /\ hints = 0 /\ frames = <<>>
  /\ dropped = {}
  /\ faults = 0

Fault == faults < MaxFaults /\ faults' = faults + 1
Newest(S) == CHOOSE m \in S : \A n \in S : n <= m
Page(S, limit) == {m \in S : Cardinality({n \in S : n < m}) < limit}

-----------------------------------------------------------------------------
(* SendPM, from its commit on *)

Commit(m) ==
  /\ row[m] = "none"
  /\ row' = [row EXCEPT ![m] = "unread"]
  /\ post' = [post EXCEPT ![m] = "invalidate"]
  /\ UNCHANGED <<emptyCached, fetch, socket, dropped, faults>>

Invalidate(m) ==
  /\ post[m] = "invalidate"
  /\ post' = [post EXCEPT ![m] = "publish"]
  /\ emptyCached' = FALSE
  /\ UNCHANGED <<row, fetch, socket, dropped, faults>>

\* Only a connection that has subscribed by now gets the hint.
Publish(m) ==
  /\ post[m] = "publish"
  /\ post' = [post EXCEPT ![m] = "done"]
  /\ hints' = IF conn = "subscribed" THEN hints + 1 ELSE hints
  /\ UNCHANGED <<row, emptyCached, fetch, conn, connCursor, frames, dropped, faults>>

\* Redis is out of reach, or the service stops after the commit.
PostCommitFails(m) ==
  /\ post[m] \in {"invalidate", "publish"}
  /\ Fault
  /\ post' = [post EXCEPT ![m] = "done"]
  /\ UNCHANGED <<row, emptyCached, fetch, socket, dropped>>

\* The ten seconds of the cached answer are over.
ExpireEmpty ==
  /\ emptyCached
  /\ emptyCached' = FALSE
  /\ UNCHANGED <<row, post, fetch, socket, dropped, faults>>

-----------------------------------------------------------------------------
(* FetchPM *)

\* From the start of the inbox a cached empty answer ends the call.
StartFetch(f, cursor) ==
  /\ ~Busy(f)
  /\ fetch' = IF cursor = 0 /\ emptyCached
              THEN fetch
              ELSE [fetch EXCEPT ![f] = Call("query", cursor, {})]

Return(f) == fetch' = [fetch EXCEPT ![f] = Idle]

Query(f) ==
  LET unread == {m \in Msgs : row[m] = "unread" /\ m > fetch[f].cursor}
      found == Page(unread, Limit(f))
  IN
  /\ fetch[f].pc = "query"
  /\ \/ found # {} /\ fetch' = [fetch EXCEPT ![f].pc = "mark", ![f].found = found]
     \/ found = {} /\ fetch[f].cursor = 0 /\ fetch' = [fetch EXCEPT ![f].pc = "fill"]
     \/ found = {} /\ fetch[f].cursor # 0 /\ Return(f)
  /\ UNCHANGED <<row, post, emptyCached, socket, dropped, faults>>

QueryFails(f) ==
  /\ fetch[f].pc = "query"
  /\ Fault /\ Return(f)
  /\ UNCHANGED <<row, post, emptyCached, socket, dropped>>

\* The empty answer is cached, although a message may have come meanwhile.
Fill(f) ==
  /\ fetch[f].pc = "fill"
  /\ emptyCached' = TRUE
  /\ Return(f)
  /\ UNCHANGED <<row, post, socket, dropped, faults>>

\* What a call that marked its rows does with them: the push goroutine writes a
\* frame and moves its cursor, a poll is answered, an orphan's answer is lost.
Respond(f) ==
  \/ /\ f = "push"
     /\ frames' = Append(frames, fetch[f].found)
     /\ connCursor' = Newest(fetch[f].found)
     /\ Return(f) /\ UNCHANGED dropped
  \/ /\ f = "poll"
     /\ fetch' = [fetch EXCEPT ![f].pc = "answer"]
     /\ UNCHANGED <<frames, connCursor, dropped>>
  \/ /\ f \in Orphans
     /\ dropped' = dropped \cup fetch[f].found
     /\ Return(f) /\ UNCHANGED <<frames, connCursor>>

Mark(f) ==
  /\ fetch[f].pc = "mark"
  /\ row' = [m \in Msgs |-> IF m \in fetch[f].found THEN "read" ELSE row[m]]
  /\ Respond(f)
  /\ UNCHANGED <<post, emptyCached, conn, hints, faults>>

\* The error of the update is ignored: the rows stay unread.
MarkFails(f) ==
  /\ fetch[f].pc = "mark"
  /\ Fault
  /\ Respond(f)
  /\ UNCHANGED <<row, post, emptyCached, conn, hints>>

-----------------------------------------------------------------------------
(* The socket and the clients *)

\* serveToken and the start of push.Run: pushInitial fetches from the cursor.
Connect(cursor) ==
  /\ conn = "down"
  /\ conn' = "connected" /\ connCursor' = cursor
  /\ StartFetch("push", cursor)
  /\ UNCHANGED <<row, post, emptyCached, hints, frames, dropped, faults>>

\* Redis gets to the subscription, maybe after the initial fetch.
Subscribe ==
  /\ conn = "connected"
  /\ conn' = "subscribed"
  /\ UNCHANGED <<server, connCursor, hints, frames, dropped, faults>>

FetchAndPush ==
  /\ conn = "subscribed" /\ hints > 0
  /\ hints' = hints - 1
  /\ StartFetch("push", connCursor)
  /\ UNCHANGED <<row, post, emptyCached, conn, connCursor, frames, dropped, faults>>

\* The client reads a frame; it gets the answer to its poll.
TakeFrame(S) ==
  /\ frames # <<>> /\ S = Head(frames)
  /\ frames' = Tail(frames)
  /\ UNCHANGED <<server, conn, connCursor, hints, dropped, faults>>

TakeAnswer(S) ==
  /\ fetch["poll"].pc = "answer" /\ S = fetch["poll"].found
  /\ Return("poll")
  /\ UNCHANGED <<row, post, emptyCached, socket, dropped, faults>>

\* The calls of the clients that are gone: those still working become orphans.
Abandon(gone) ==
  /\ \A f \in gone : ~Busy(f) \/ ~Busy(Orphan(f))
  /\ fetch' = [f \in Fetchers |->
       IF f \in gone THEN Idle
       ELSE IF \E g \in gone : f = Orphan(g) /\ fetch[g].pc \in {"query", "fill", "mark"}
            THEN fetch[CHOOSE g \in gone : f = Orphan(g)]
            ELSE fetch[f]]

InFrames == UNION {frames[i] : i \in DOMAIN frames}
InAnswer == IF fetch["poll"].pc = "answer" THEN fetch["poll"].found ELSE {}

\* The socket breaks: frames on their way are lost.
Disconnect ==
  /\ conn # "down"
  /\ conn' = "down" /\ connCursor' = 0 /\ hints' = 0 /\ frames' = <<>>
  /\ Abandon({"push"})
  /\ dropped' = dropped \cup InFrames
  /\ UNCHANGED <<row, post, emptyCached>>

\* A poll ends without its answer.
LoseAnswer ==
  /\ Busy("poll")
  /\ Abandon({"poll"})
  /\ dropped' = dropped \cup InAnswer
  /\ UNCHANGED <<row, post, emptyCached, socket>>

\* The client process is gone.
ClientGone ==
  /\ conn' = "down" /\ connCursor' = 0 /\ hints' = 0 /\ frames' = <<>>
  /\ Abandon({"push", "poll"})
  /\ dropped' = dropped \cup InFrames \cup InAnswer
  /\ UNCHANGED <<row, post, emptyCached>>

=============================================================================
