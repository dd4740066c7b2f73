--------------------------- MODULE PMWatchProofs ---------------------------
(***************************************************************************)
(* The watch for any messages and limits: the socket hands over messages   *)
(* once and in order, a message marked as read is carried by somebody or   *)
(* known to be lost, and a CLI update interrupts nothing that was admitted.*)
(***************************************************************************)
EXTENDS PMWatch, FiniteSetTheorems, TLAPS

-----------------------------------------------------------------------------
(* The part of the types that the proofs need: cursors may be anything. *)

Steps == {"idle", "query", "fill", "mark", "answer"}
CallsWith(C) == [pc : Steps, cursor : C, found : SUBSET Msgs]

FetchOK == \E C : fetch \in [Fetchers -> CallsWith(C)]

Types ==
  /\ row \in [Msgs -> {"none", "unread", "read"}]
  /\ FetchOK
  /\ frames \in Seq(SUBSET Msgs)
  /\ held \in BOOLEAN /\ pending \in BOOLEAN /\ done \in BOOLEAN

Carried == accepted \cup dropped \cup InFrames \cup InAnswer

CarryInv == Types /\ ReadIsCarried /\ Admissions

\* A step that lets nothing go and marks only what is carried after it.
LEMMA StillCarried ==
  ASSUME ReadIsCarried, Carried \subseteq Carried',
         \A m \in Msgs : row'[m] = "read" => row[m] = "read" \/ m \in Carried'
  PROVE  ReadIsCarried'
  BY DEF ReadIsCarried, Carried

LEMMA CarriedSame ==
  ASSUME UNCHANGED <<dropped, frames, fetch>>, accepted \subseteq accepted'
  PROVE  Carried \subseteq Carried'
  BY DEF Carried, InFrames, InAnswer

-----------------------------------------------------------------------------
(* Admissions as a sum *)

One(b) == IF b THEN 1 ELSE 0

LEMMA Counted ==
  ASSUME NEW h \in BOOLEAN, NEW b \in BOOLEAN
  PROVE  Cardinality({a \in {"job", "pull"} : IF a = "job" THEN h ELSE b}) = One(h) + One(b)
<1> DEFINE A == {a \in {"job", "pull"} : IF a = "job" THEN h ELSE b}
<1>1. Cardinality({}) = 0 /\ IsFiniteSet({})
  BY FS_EmptySet
<1>2. IsFiniteSet({"job"}) /\ Cardinality({"job"}) = 1
  BY FS_Singleton
<1>3. IsFiniteSet({"pull"}) /\ Cardinality({"pull"}) = 1
  BY FS_Singleton
<1>4. Cardinality({"job"} \cup {"pull"}) = 2
  BY <1>2, FS_AddElement
<1>5. CASE h /\ b
  <2>1. A = {"job"} \cup {"pull"}
    BY <1>5
  <2> QED BY <1>4, <1>5, <2>1 DEF One
<1>6. CASE h /\ ~b
  <2>1. A = {"job"}
    BY <1>6
  <2> QED BY <1>2, <1>6, <2>1 DEF One
<1>7. CASE ~h /\ b
  <2>1. A = {"pull"}
    BY <1>7
  <2> QED BY <1>3, <1>7, <2>1 DEF One
<1>8. CASE ~h /\ ~b
  <2>1. A = {}
    BY <1>8
  <2> QED BY <1>1, <1>8, <2>1 DEF One
<1> QED BY <1>5, <1>6, <1>7, <1>8

\* The admissions after a step, from what it does to the job and the pull.
LEMMA AdmissionsAre ==
  ASSUME Types
  PROVE  Admissions <=> /\ active = One(held) + One(Busy("poll"))
                        /\ done <=> pending /\ active = 0
<1>1. held \in BOOLEAN /\ Busy("poll") \in BOOLEAN
  BY DEF Types, Busy
<1>2. Cardinality({a \in {"job", "pull"} : IF a = "job" THEN held ELSE Busy("poll")})
        = One(held) + One(Busy("poll"))
  BY <1>1, Counted
<1> QED BY <1>2 DEF Admissions
LEMMA AdmissionsAfter ==
  ASSUME Types', active' = One(held') + One(fetch'["poll"].pc # "idle"),
         done' <=> pending' /\ active' = 0
  PROVE  Admissions'
<1>1. held' \in BOOLEAN /\ (fetch'["poll"].pc # "idle") \in BOOLEAN
  BY DEF Types
<1>2. Cardinality({a \in {"job", "pull"} : IF a = "job" THEN held' ELSE fetch'["poll"].pc # "idle"})
        = One(held') + One(fetch'["poll"].pc # "idle")
  BY <1>1, Counted
<1> QED BY <1>2 DEF Admissions, Busy

LEMMA AdmissionsSame ==
  ASSUME CarryInv, UNCHANGED <<held, pending, active, done>>,
         fetch'["poll"].pc = "idle" <=> fetch["poll"].pc = "idle"
  PROVE  Admissions'
  BY DEF CarryInv, Admissions, Busy

LEMMA AdmissionBegun ==
  ASSUME CarryInv, Types', HandoffBegin,
         \/ ~held /\ held' /\ fetch' = fetch
         \/ held' = held /\ fetch["poll"].pc = "idle" /\ fetch'["poll"].pc # "idle"
  PROVE  Admissions'
<1>1. /\ active = One(held) + One(fetch["poll"].pc # "idle")
      /\ done <=> pending /\ active = 0
  BY AdmissionsAre DEF CarryInv, Busy
<1>2. /\ ~pending /\ active' = active + 1 /\ pending' = pending /\ done' = done
  BY DEF HandoffBegin
<1>3. ~done' /\ ~pending'
  BY <1>1, <1>2
<1>4. active' = One(held') + One(fetch'["poll"].pc # "idle")
  BY <1>1, <1>2 DEF One
<1> QED BY <1>3, <1>4, AdmissionsAfter

LEMMA AdmissionEnded ==
  ASSUME CarryInv, Types', HandoffEnd,
         \/ held /\ ~held' /\ fetch' = fetch
         \/ held' = held /\ fetch["poll"].pc # "idle" /\ fetch'["poll"].pc = "idle"
  PROVE  Admissions'
<1>1. /\ active = One(held) + One(fetch["poll"].pc # "idle")
      /\ done <=> pending /\ active = 0
  BY AdmissionsAre DEF CarryInv, Busy
<1>2. /\ active' = active - 1 /\ pending' = pending
      /\ done' = (done \/ (pending /\ active' = 0))
  BY DEF HandoffEnd
<1>3. active # 0
  BY <1>1 DEF One
<1>4. done' <=> pending' /\ active' = 0
  BY <1>1, <1>2, <1>3
<1>5. active' = One(held') + One(fetch'["poll"].pc # "idle")
  BY <1>1, <1>2 DEF One
<1> QED BY <1>4, <1>5, AdmissionsAfter

LEMMA HandoffTypes ==
  ASSUME Types, HandoffBegin \/ HandoffEnd \/ UNCHANGED <<pending, done>>
  PROVE  pending' \in BOOLEAN /\ done' \in BOOLEAN
  BY DEF Types, HandoffBegin, HandoffEnd

-----------------------------------------------------------------------------
(* Calls of FetchPM *)

LEMMA FetchersFacts ==
  /\ "push" \in Fetchers /\ "poll" \in Fetchers
  /\ \A f \in Fetchers : f # "poll" <=> f \in {"push"} \cup Orphans
  /\ Orphans \subseteq Fetchers /\ "push" \notin Orphans /\ "poll" \notin Orphans
  BY DEF Fetchers, Orphans

\* A call gets a new record.
LEMMA FetchSet ==
  ASSUME FetchOK, NEW f \in Fetchers, NEW c, NEW C0, c \in CallsWith(C0),
         fetch' = [fetch EXCEPT ![f] = c]
  PROVE  FetchOK' /\ fetch'[f] = c /\ \A g \in Fetchers \ {f} : fetch'[g] = fetch[g]
<1>1. PICK C : fetch \in [Fetchers -> CallsWith(C)]
  BY DEF FetchOK
<1>2. CallsWith(C) \subseteq CallsWith(C \cup C0) /\ CallsWith(C0) \subseteq CallsWith(C \cup C0)
  BY DEF CallsWith
<1>3. fetch' \in [Fetchers -> CallsWith(C \cup C0)]
  BY <1>1, <1>2
<1> QED BY <1>1, <1>3 DEF FetchOK

LEMMA ReturnSet ==
  ASSUME FetchOK, NEW f \in Fetchers, Return(f)
  PROVE  /\ FetchOK' /\ fetch'[f] = Idle /\ fetch'[f].pc = "idle"
         /\ \A g \in Fetchers \ {f} : fetch'[g] = fetch[g]
<1>1. Idle \in CallsWith({0}) /\ Idle.pc = "idle"
  BY DEF Idle, Call, CallsWith, Steps
<1> QED BY <1>1, FetchSet DEF Return

LEMMA StartSet ==
  ASSUME FetchOK, NEW f \in Fetchers, NEW c, StartFetch(f, c)
  PROVE  /\ FetchOK'
         /\ \A g \in Fetchers \ {f} : fetch'[g] = fetch[g]
         /\ fetch[f].pc = "idle"
         /\ \/ fetch'[f] = fetch[f]
            \/ fetch'[f].pc = "query" /\ fetch'[f].cursor = c /\ fetch'[f].found = {}
         /\ fetch' # fetch => fetch'[f].pc = "query"
<1>1. fetch[f].pc = "idle"
  BY DEF StartFetch, Busy
<1>2. CASE fetch' = fetch
  BY <1>1, <1>2 DEF FetchOK
<1>3. CASE fetch' = [fetch EXCEPT ![f] = Call("query", c, {})]
  <2>1. Call("query", c, {}) \in CallsWith({c})
    BY DEF Call, CallsWith, Steps
  <2>2. /\ Call("query", c, {}).pc = "query" /\ Call("query", c, {}).cursor = c
        /\ Call("query", c, {}).found = {}
    BY DEF Call
  <2> QED BY <1>1, <1>3, <2>1, <2>2, FetchSet
<1> QED BY <1>2, <1>3 DEF StartFetch

\* A call moves on to another step, with other rows or the same.
LEMMA MoveSet ==
  ASSUME FetchOK, NEW f \in Fetchers, NEW s \in Steps, NEW F \in SUBSET Msgs,
         \/ fetch' = [fetch EXCEPT ![f].pc = s, ![f].found = F]
         \/ fetch' = [fetch EXCEPT ![f].pc = s] /\ F = fetch[f].found
  PROVE  /\ FetchOK' /\ fetch'[f].pc = s /\ fetch'[f].found = F
         /\ \A g \in Fetchers \ {f} : fetch'[g] = fetch[g]
<1>1. PICK C : fetch \in [Fetchers -> CallsWith(C)]
  BY DEF FetchOK
<1> DEFINE c == [pc |-> s, cursor |-> fetch[f].cursor, found |-> F]
<1>2. fetch[f] = [pc |-> fetch[f].pc, cursor |-> fetch[f].cursor, found |-> fetch[f].found]
      /\ c \in CallsWith(C)
  BY <1>1 DEF CallsWith
<1>3. fetch' = [fetch EXCEPT ![f] = c]
  BY <1>1, <1>2
<1>4. c.pc = s /\ c.found = F
  OBVIOUS
<1> HIDE DEF c
<1> QED BY <1>2, <1>3, <1>4, FetchSet

LEMMA MoveStep ==
  ASSUME FetchOK, NEW f \in Fetchers, NEW s, fetch' = [fetch EXCEPT ![f].pc = s]
  PROVE  /\ fetch'[f].pc = s /\ fetch'[f].found = fetch[f].found
         /\ fetch'[f].cursor = fetch[f].cursor
         /\ \A g \in Fetchers \ {f} : fetch'[g] = fetch[g]
  BY DEF FetchOK, CallsWith

LEMMA FoundType ==
  ASSUME FetchOK, NEW f \in Fetchers
  PROVE  fetch[f].found \in SUBSET Msgs /\ fetch[f].pc \in Steps
  BY DEF FetchOK, CallsWith
\* What a step of FetchPM does, whoever made the call.
CallEffect(f) ==
  /\ row' \in [Msgs -> {"none", "unread", "read"}]
  /\ FetchOK' /\ frames' \in Seq(SUBSET Msgs)
  /\ fetch[f].pc # "idle"
  /\ \A g \in Fetchers \ {f} : fetch'[g] = fetch[g]
  /\ fetch'[f] = Idle \/ fetch'[f].pc # "idle"
  /\ Carried \subseteq Carried'
  /\ \A m \in Msgs : row'[m] = "read" => row[m] = "read" \/ m \in Carried'

LEMMA QueryEffect ==
  ASSUME CarryInv, NEW f \in Fetchers, UNCHANGED accepted,
         Query(f) \/ QueryFails(f) \/ Fill(f)
  PROVE  CallEffect(f)
<1>0. Types /\ FetchOK /\ fetch[f].pc \in {"query", "fill"} /\ UNCHANGED <<row, dropped, frames>>
  BY DEF CarryInv, Types, Query, QueryFails, Fill, socket
<1>1. CASE Return(f)
  <2>1. InAnswer \subseteq InAnswer' /\ InFrames' = InFrames
    BY <1>0, <1>1, ReturnSet, FetchersFacts DEF InAnswer, InFrames
  <2> QED BY <1>0, <1>1, <2>1, ReturnSet DEF CallEffect, Types, Carried
<1>2. CASE \E s \in {"mark", "fill"}, F \in SUBSET Msgs :
             \/ fetch' = [fetch EXCEPT ![f].pc = s, ![f].found = F]
             \/ fetch' = [fetch EXCEPT ![f].pc = s] /\ F = fetch[f].found
  <2>0. PICK s \in {"mark", "fill"}, F \in SUBSET Msgs :
             \/ fetch' = [fetch EXCEPT ![f].pc = s, ![f].found = F]
             \/ fetch' = [fetch EXCEPT ![f].pc = s] /\ F = fetch[f].found
    BY <1>2
  <2>1. /\ FetchOK' /\ fetch'[f].pc = s
        /\ \A g \in Fetchers \ {f} : fetch'[g] = fetch[g]
    BY <1>0, <2>0, MoveSet DEF Steps
  <2>2. InAnswer \subseteq InAnswer' /\ InFrames' = InFrames
    BY <1>0, <2>1, FetchersFacts DEF InAnswer, InFrames
  <2> QED BY <1>0, <2>1, <2>2 DEF CallEffect, Types, Carried
<1>3. CASE Query(f)
  <2> DEFINE found == Page({m \in Msgs : row[m] = "unread" /\ m > fetch[f].cursor}, Limit(f))
  <2>1. found \in SUBSET Msgs /\ fetch[f].found \in SUBSET Msgs
    BY <1>0, FoundType DEF Page
  <2>2. \/ fetch' = [fetch EXCEPT ![f].pc = "mark", ![f].found = found]
        \/ fetch' = [fetch EXCEPT ![f].pc = "fill"]
        \/ Return(f)
    BY <1>3 DEF Query
  <2> HIDE DEF found
  <2> QED BY <1>1, <1>2, <2>1, <2>2
<1> QED BY <1>1, <1>3 DEF QueryFails, Fill

LEMMA AppendFrame ==
  ASSUME frames \in Seq(SUBSET Msgs), NEW F \in SUBSET Msgs, frames' = Append(frames, F)
  PROVE  frames' \in Seq(SUBSET Msgs) /\ InFrames' = InFrames \cup F
<1>1. /\ frames' \in Seq(SUBSET Msgs)
      /\ DOMAIN frames = 1..Len(frames) /\ Len(frames) \in Nat
      /\ DOMAIN frames' = 1..(Len(frames) + 1)
      /\ \A i \in 1..Len(frames) : frames'[i] = frames[i]
      /\ frames'[Len(frames) + 1] = F
  OBVIOUS
<1>2. \A i : i \in DOMAIN frames' <=> i \in DOMAIN frames \/ i = Len(frames) + 1
  BY <1>1
<1>3. \A m : m \in InFrames' <=> m \in InFrames \/ m \in F
  <2>1. \A m : m \in InFrames' <=> \E i \in DOMAIN frames' : m \in frames'[i]
    BY DEF InFrames
  <2>2. \A m : m \in InFrames <=> \E i \in DOMAIN frames : m \in frames[i]
    BY DEF InFrames
  <2> QED BY <1>1, <1>2, <2>1, <2>2
<1> QED BY <1>1, <1>3

LEMMA MarkEffect ==
  ASSUME CarryInv, NEW f \in Fetchers, UNCHANGED accepted, Mark(f) \/ MarkFails(f)
  PROVE  CallEffect(f)
<1> DEFINE F == fetch[f].found
<1>0. /\ Types /\ FetchOK /\ fetch[f].pc = "mark" /\ Respond(f)
      /\ F \in SUBSET Msgs /\ frames \in Seq(SUBSET Msgs)
  BY FoundType DEF CarryInv, Types, Mark, MarkFails
<1>1. /\ row' \in [Msgs -> {"none", "unread", "read"}]
      /\ \A m \in Msgs : row'[m] = "read" => row[m] = "read" \/ m \in F
  BY <1>0 DEF Types, Mark, MarkFails
<1>2. /\ FetchOK' /\ frames' \in Seq(SUBSET Msgs)
      /\ \A g \in Fetchers \ {f} : fetch'[g] = fetch[g]
      /\ fetch'[f] = Idle \/ fetch'[f].pc # "idle"
      /\ Carried \subseteq Carried' /\ F \subseteq Carried'
  <2>1. CASE /\ f = "push" /\ frames' = Append(frames, F) /\ Return(f) /\ UNCHANGED dropped
    <3>1. InFrames' = InFrames \cup F /\ frames' \in Seq(SUBSET Msgs)
      BY <1>0, <2>1, AppendFrame
    <3>2. /\ FetchOK' /\ fetch'[f] = Idle
          /\ \A g \in Fetchers \ {f} : fetch'[g] = fetch[g]
      BY <1>0, <2>1, ReturnSet
    <3>3. InAnswer' = InAnswer
      BY <2>1, <3>2, FetchersFacts DEF InAnswer
    <3> QED BY <2>1, <3>1, <3>2, <3>3 DEF Carried
  <2>2. CASE /\ f = "poll" /\ fetch' = [fetch EXCEPT ![f].pc = "answer"]
             /\ UNCHANGED <<frames, dropped>>
    <3>1. /\ FetchOK' /\ fetch'[f].pc = "answer" /\ fetch'[f].found = F
          /\ \A g \in Fetchers \ {f} : fetch'[g] = fetch[g]
      <4>1. "answer" \in Steps /\ fetch' = [fetch EXCEPT ![f].pc = "answer"]
        BY <2>2 DEF Steps
      <4> QED BY <1>0, <4>1, MoveSet
    <3>2. InAnswer = {} /\ InAnswer' = F
      BY <1>0, <2>2, <3>1 DEF InAnswer
    <3>3. InFrames' = InFrames
      BY <2>2 DEF InFrames
    <3>4. f \in Fetchers /\ fetch'[f].pc # "idle"
      BY <3>1
    <3> QED BY <1>0, <2>2, <3>1, <3>2, <3>3, <3>4 DEF Carried
  <2>3. CASE /\ f \in Orphans /\ dropped' = dropped \cup F /\ Return(f) /\ UNCHANGED frames
    <3>1. /\ FetchOK' /\ fetch'[f] = Idle
          /\ \A g \in Fetchers \ {f} : fetch'[g] = fetch[g]
      BY <1>0, <2>3, ReturnSet
    <3>2. InAnswer' = InAnswer /\ InFrames' = InFrames
      BY <2>3, <3>1, FetchersFacts DEF InAnswer, InFrames
    <3> QED BY <1>0, <2>3, <3>1, <3>2 DEF Carried
  <2> QED BY <1>0, <2>1, <2>2, <2>3 DEF Respond
<1> QED BY <1>0, <1>1, <1>2 DEF CallEffect

LEMMA FetchStepInv ==
  ASSUME CarryInv, NEW f \in Fetchers, FetchStep(f)
  PROVE  CarryInv'
<1>0. UNCHANGED <<accepted, held>>
  BY DEF FetchStep, intake
<1>1. CallEffect(f)
  BY <1>0, QueryEffect, MarkEffect DEF FetchStep
<1>2. Idle.pc = "idle"
  BY DEF Idle, Call
<1>3. CASE f = "poll" /\ fetch'[f] = Idle
  <2>1. HandoffEnd
    BY <1>3 DEF FetchStep
  <2>2. Types'
    BY <1>0, <1>1, <2>1, HandoffTypes DEF CarryInv, Types, CallEffect
  <2>3. Admissions'
    BY <1>0, <1>1, <1>2, <1>3, <2>1, <2>2, AdmissionEnded DEF CallEffect
  <2>4. ReadIsCarried'
    BY <1>1, StillCarried DEF CallEffect, CarryInv
  <2> QED BY <2>2, <2>3, <2>4 DEF CarryInv
<1>4. CASE ~(f = "poll" /\ fetch'[f] = Idle)
  <2>1. UNCHANGED <<pending, active, done>>
    BY <1>4 DEF FetchStep, handoff
  <2>2. Types'
    BY <1>0, <1>1, <2>1 DEF CarryInv, Types, CallEffect
  <2>3. fetch'["poll"].pc = "idle" <=> fetch["poll"].pc = "idle"
    BY <1>1, <1>4, FetchersFacts DEF CallEffect
  <2>4. Admissions'
    BY <1>0, <2>1, <2>3, AdmissionsSame
  <2>5. ReadIsCarried'
    BY <1>1, StillCarried DEF CallEffect, CarryInv
  <2> QED BY <2>2, <2>4, <2>5 DEF CarryInv
<1> QED BY <1>3, <1>4
-----------------------------------------------------------------------------
(* Steps that leave the calls and the frames alone *)

LEMMA QuietStep ==
  ASSUME CarryInv, UNCHANGED <<fetch, frames, dropped, held, pending, active, done>>,
         accepted \subseteq accepted', row' \in [Msgs -> {"none", "unread", "read"}],
         \A m \in Msgs : row'[m] = "read" => row[m] = "read"
  PROVE  CarryInv'
<1>1. Types'
  BY DEF CarryInv, Types, FetchOK
<1>2. ReadIsCarried'
  BY CarriedSame, StillCarried DEF CarryInv
<1>3. Admissions'
  BY AdmissionsSame
<1> QED BY <1>1, <1>2, <1>3 DEF CarryInv

LEMMA ServerQuiet ==
  ASSUME CarryInv, Arrive \/ Expire \/ Restart \/ EndPass \/ \E m \in Msgs : PostCommit(m)
  PROVE  CarryInv'
<1>1. CASE Expire \/ Restart \/ EndPass
  <2>1. /\ UNCHANGED <<fetch, frames, dropped, held, pending, active, done, row, accepted>>
    BY <1>1 DEF Expire, ExpireEmpty, EndPass, Restart, Start, Operator, Resolve,
                inbox, server, socket, intake, handoff
  <2> QED BY <2>1, QuietStep DEF CarryInv, Types
<1>2. ASSUME NEW m \in Msgs, Invalidate(m) \/ Publish(m) \/ PostCommitFails(m) \/ Commit(m),
             UNCHANGED <<intake, handoff>>
      PROVE  CarryInv'
  <2>1. /\ UNCHANGED <<fetch, frames, dropped, held, pending, active, done, accepted>>
        /\ row' = row \/ row' = [row EXCEPT ![m] = "unread"]
    BY <1>2 DEF Invalidate, Publish, PostCommitFails, Commit, socket, intake, handoff
  <2>2. /\ row' \in [Msgs -> {"none", "unread", "read"}]
        /\ \A n \in Msgs : row'[n] = "read" => row[n] = "read"
    BY <2>1 DEF CarryInv, Types
  <2> QED BY <2>1, <2>2, QuietStep
<1> QED BY <1>1, <1>2 DEF Arrive, PostCommit

LEMMA RequestUpdateStep ==
  ASSUME CarryInv, RequestUpdate
  PROVE  CarryInv'
<1>1. /\ UNCHANGED <<row, fetch, frames, dropped, held, active, accepted>>
      /\ pending' = TRUE /\ done' = (active = 0)
  BY DEF RequestUpdate, inbox, server, socket, intake
<1>2. Types'
  BY <1>1 DEF CarryInv, Types, FetchOK
<1>3. ReadIsCarried'
  BY <1>1, CarriedSame, StillCarried DEF CarryInv
<1>4. active' = One(held') + One(fetch'["poll"].pc # "idle")
  BY <1>1, AdmissionsAre DEF CarryInv, Busy
<1>5. done' <=> pending' /\ active' = 0
  BY <1>1
<1>6. Admissions'
  BY <1>2, <1>4, <1>5, AdmissionsAfter
<1> QED BY <1>2, <1>3, <1>6 DEF CarryInv

LEMMA DispatchLoopStep ==
  ASSUME CarryInv, Claim \/ Finish
  PROVE  CarryInv'
<1>1. UNCHANGED <<row, fetch, frames, dropped, accepted>>
  BY DEF Claim, Finish, Hold, Release, Resolve, inbox, server, socket
<1>2. held' \in BOOLEAN
  BY DEF Claim, Finish, Hold, Release
<1>3. (HandoffBegin /\ ~held /\ held') \/ (HandoffEnd /\ held /\ ~held')
  <2>1. CASE Claim
    BY <2>1 DEF Claim, Hold
  <2>2. CASE Finish
    BY <2>2 DEF Finish, Release
  <2> QED BY <2>1, <2>2
<1>4. Types'
  BY <1>1, <1>2, <1>3, HandoffTypes DEF CarryInv, Types, FetchOK
<1>5. ReadIsCarried'
  BY <1>1, CarriedSame, StillCarried DEF CarryInv
<1>6. Admissions'
  BY <1>1, <1>3, <1>4, AdmissionBegun, AdmissionEnded
<1> QED BY <1>4, <1>5, <1>6 DEF CarryInv

-----------------------------------------------------------------------------
(* Calls begin *)

LEMMA StartPush ==
  ASSUME CarryInv, NEW c, StartFetch("push", c),
         UNCHANGED <<row, frames, dropped, intake, handoff>>
  PROVE  CarryInv'
<1>1. /\ FetchOK' /\ fetch'["poll"] = fetch["poll"]
      /\ UNCHANGED <<accepted, held, pending, active, done>>
  BY StartSet, FetchersFacts DEF CarryInv, Types, intake, handoff
<1>2. Types'
  BY <1>1 DEF CarryInv, Types
<1>3. Carried' = Carried
  BY <1>1 DEF Carried, InFrames, InAnswer
<1>4. ReadIsCarried'
  BY <1>3, StillCarried DEF CarryInv
<1>5. Admissions'
  BY <1>1, AdmissionsSame
<1> QED BY <1>2, <1>4, <1>5 DEF CarryInv

LEMMA PushStep ==
  ASSUME CarryInv, Push \/ Dial
  PROVE  CarryInv'
<1>1. CASE Subscribe /\ UNCHANGED <<intake, handoff>>
  <2>1. UNCHANGED <<fetch, frames, dropped, held, pending, active, done, row, accepted>>
    BY <1>1 DEF Subscribe, server, intake, handoff
  <2> QED BY <2>1, QuietStep DEF CarryInv, Types
<1>2. CASE FetchAndPush /\ UNCHANGED <<intake, handoff>>
  BY <1>2, StartPush DEF FetchAndPush
<1>3. CASE Connect(cursor) /\ UNCHANGED <<intake, handoff>>
  BY <1>3, StartPush DEF Connect
<1> QED BY <1>1, <1>2, <1>3 DEF Push, Dial

LEMMA PollPageStep ==
  ASSUME CarryInv, PollPage
  PROVE  CarryInv'
<1>1. /\ FetchOK' /\ fetch["poll"].pc = "idle" /\ fetch'["poll"].pc = "query"
      /\ UNCHANGED <<row, frames, dropped, accepted, held>> /\ HandoffBegin
  BY StartSet, FetchersFacts DEF PollPage, CarryInv, Types, intake, socket
<1>2. Types'
  BY <1>1, HandoffTypes DEF CarryInv, Types
<1>3. Carried' = Carried
  BY <1>1 DEF Carried, InFrames, InAnswer
<1>4. ReadIsCarried'
  BY <1>1, <1>3, StillCarried DEF CarryInv
<1>5. Admissions'
  BY <1>1, <1>2, AdmissionBegun
<1> QED BY <1>2, <1>4, <1>5 DEF CarryInv

-----------------------------------------------------------------------------
(* Deliveries *)

LEMMA TailFrames ==
  ASSUME frames \in Seq(SUBSET Msgs), frames # <<>>, frames' = Tail(frames)
  PROVE  frames' \in Seq(SUBSET Msgs) /\ InFrames \subseteq InFrames' \cup Head(frames)
<1>1. /\ frames' \in Seq(SUBSET Msgs) /\ Len(frames) \in Nat \ {0}
      /\ DOMAIN frames = 1..Len(frames) /\ DOMAIN frames' = 1..(Len(frames) - 1)
      /\ \A i \in 1..(Len(frames) - 1) : frames'[i] = frames[i + 1]
      /\ Head(frames) = frames[1]
  OBVIOUS
<1>2. ASSUME NEW m \in InFrames PROVE m \in InFrames' \cup Head(frames)
  <2>1. PICK i \in DOMAIN frames : m \in frames[i]
    BY <1>2 DEF InFrames
  <2>2. CASE i = 1
    BY <1>1, <2>1, <2>2
  <2>3. CASE i # 1
    <3>1. i - 1 \in DOMAIN frames' /\ frames'[i - 1] = frames[i]
      BY <1>1, <2>3
    <3> QED BY <2>1, <3>1 DEF InFrames
  <2> QED BY <2>2, <2>3
<1> QED BY <1>1, <1>2

LEMMA DeliverFrameStep ==
  ASSUME CarryInv, NEW S, DeliverFrame(S)
  PROVE  CarryInv'
<1>1. /\ frames # <<>> /\ S = Head(frames) /\ frames' = Tail(frames)
      /\ accepted' = accepted \cup S
      /\ UNCHANGED <<row, fetch, dropped, held, pending, active, done>>
  BY DEF DeliverFrame, TakeFrame, Accept, server, handoff
<1>2. frames' \in Seq(SUBSET Msgs) /\ InFrames \subseteq InFrames' \cup S
  BY <1>1, TailFrames DEF CarryInv, Types
<1>3. Types'
  BY <1>1, <1>2 DEF CarryInv, Types, FetchOK
<1>4. InAnswer' = InAnswer
  BY <1>1 DEF InAnswer
<1>5. Carried \subseteq Carried'
  BY <1>1, <1>2, <1>4 DEF Carried
<1>6. ReadIsCarried'
  BY <1>1, <1>5, StillCarried DEF CarryInv
<1>7. Admissions'
  BY <1>1, AdmissionsSame
<1> QED BY <1>3, <1>6, <1>7 DEF CarryInv

LEMMA DeliverAnswerStep ==
  ASSUME CarryInv, NEW S, DeliverAnswer(S)
  PROVE  CarryInv'
<1>1. /\ fetch["poll"].pc = "answer" /\ S = fetch["poll"].found /\ Return("poll")
      /\ accepted' = accepted \cup S /\ HandoffEnd
      /\ UNCHANGED <<row, frames, dropped, held>>
  BY DEF DeliverAnswer, TakeAnswer, Accept, socket
<1>2. FetchOK' /\ fetch'["poll"].pc = "idle"
  BY <1>1, ReturnSet, FetchersFacts DEF CarryInv, Types
<1>3. Types'
  BY <1>1, <1>2, HandoffTypes DEF CarryInv, Types
<1>4. InFrames' = InFrames /\ InAnswer = S
  BY <1>1 DEF InFrames, InAnswer
<1>5. Carried \subseteq Carried'
  BY <1>1, <1>4 DEF Carried
<1>6. ReadIsCarried'
  BY <1>1, <1>5, StillCarried DEF CarryInv
<1>7. Admissions'
  BY <1>1, <1>2, <1>3, AdmissionEnded
<1> QED BY <1>3, <1>6, <1>7 DEF CarryInv

-----------------------------------------------------------------------------
(* Losses *)

LEMMA AbandonFacts ==
  ASSUME FetchOK, NEW gone \in SUBSET {"push", "poll"}, Abandon(gone)
  PROVE  FetchOK' /\ fetch'["poll"] = IF "poll" \in gone THEN Idle ELSE fetch["poll"]
<1>1. PICK C : fetch \in [Fetchers -> CallsWith(C)]
  BY DEF FetchOK
<1>2. /\ CallsWith(C) \subseteq CallsWith(C \cup {0}) /\ Idle \in CallsWith(C \cup {0})
  BY DEF CallsWith, Idle, Call, Steps
<1>3. ASSUME NEW f \in Fetchers PROVE fetch'[f] \in CallsWith(C \cup {0})
  <2>1. CASE f \in gone
    BY <1>2, <2>1 DEF Abandon
  <2>2. CASE f \notin gone /\ \E g \in gone : f = Orphan(g) /\ fetch[g].pc \in {"query", "fill", "mark"}
    <3>1. (CHOOSE g \in gone : f = Orphan(g)) \in gone
      BY <2>2
    <3>2. gone \subseteq Fetchers
      BY DEF Fetchers
    <3>3. fetch'[f] = fetch[CHOOSE g \in gone : f = Orphan(g)]
      BY <2>2 DEF Abandon
    <3> QED BY <1>1, <1>2, <3>1, <3>2, <3>3
  <2>3. CASE f \notin gone /\ ~\E g \in gone : f = Orphan(g) /\ fetch[g].pc \in {"query", "fill", "mark"}
    BY <1>1, <1>2, <2>3 DEF Abandon
  <2> QED BY <2>1, <2>2, <2>3
<1>4. fetch' \in [Fetchers -> CallsWith(C \cup {0})]
  BY <1>3 DEF Abandon
<1>5. \A g : Orphan(g) # "poll"
  BY DEF Orphan
<1>6. fetch'["poll"] = IF "poll" \in gone THEN Idle ELSE fetch["poll"]
  BY <1>5, FetchersFacts DEF Abandon
<1> QED BY <1>4, <1>6 DEF FetchOK

LEMMA NoFrames ==
  ASSUME frames' = <<>>
  PROVE  frames' \in Seq(SUBSET Msgs) /\ InFrames' = {}
  BY DEF InFrames

LEMMA BreakSocketStep ==
  ASSUME CarryInv, BreakSocket
  PROVE  CarryInv'
<1>1. /\ frames' = <<>> /\ Abandon({"push"}) /\ dropped' = dropped \cup InFrames
      /\ UNCHANGED <<row, accepted, held, pending, active, done>>
  BY DEF BreakSocket, Disconnect, intake, handoff
<1>2. FetchOK' /\ fetch'["poll"] = fetch["poll"]
  BY <1>1, AbandonFacts DEF CarryInv, Types
<1>3. Types'
  BY <1>1, <1>2, NoFrames DEF CarryInv, Types
<1>4. Carried \subseteq Carried'
  BY <1>1, <1>2 DEF Carried, InAnswer
<1>5. ReadIsCarried'
  BY <1>1, <1>4, StillCarried DEF CarryInv
<1>6. Admissions'
  BY <1>1, <1>2, AdmissionsSame
<1> QED BY <1>3, <1>5, <1>6 DEF CarryInv

LEMMA PollFailsStep ==
  ASSUME CarryInv, PollFails
  PROVE  CarryInv'
<1>1. /\ fetch["poll"].pc # "idle" /\ Abandon({"poll"}) /\ dropped' = dropped \cup InAnswer
      /\ HandoffEnd /\ UNCHANGED <<row, frames, accepted, held>>
  BY DEF PollFails, LoseAnswer, Busy, intake, socket
<1>2. FetchOK' /\ fetch'["poll"].pc = "idle"
  BY <1>1, AbandonFacts DEF CarryInv, Types, Idle, Call
<1>3. Types'
  BY <1>1, <1>2, HandoffTypes DEF CarryInv, Types
<1>4. Carried \subseteq Carried'
  BY <1>1 DEF Carried, InFrames
<1>5. ReadIsCarried'
  BY <1>1, <1>4, StillCarried DEF CarryInv
<1>6. Admissions'
  BY <1>1, <1>2, <1>3, AdmissionEnded
<1> QED BY <1>3, <1>5, <1>6 DEF CarryInv

LEMMA EndWatchStep ==
  ASSUME CarryInv, EndWatch
  PROVE  CarryInv'
<1>1. /\ frames' = <<>> /\ Abandon({"push", "poll"})
      /\ dropped' = dropped \cup InFrames \cup InAnswer
      /\ held' = FALSE /\ pending' = FALSE /\ active' = 0 /\ done' = FALSE
      /\ UNCHANGED <<row, accepted>>
  BY DEF EndWatch, Stop, ClientGone
<1>2. FetchOK' /\ fetch'["poll"].pc = "idle"
  BY <1>1, AbandonFacts DEF CarryInv, Types, Idle, Call
<1>3. Types'
  BY <1>1, <1>2, NoFrames DEF CarryInv, Types
<1>4. Carried \subseteq Carried'
  BY <1>1 DEF Carried
<1>5. ReadIsCarried'
  BY <1>1, <1>4, StillCarried DEF CarryInv
<1>6. Admissions'
  BY <1>1, <1>2, <1>3, AdmissionsAfter DEF One
<1> QED BY <1>3, <1>5, <1>6 DEF CarryInv

-----------------------------------------------------------------------------
(* The invariants *)

LEMMA CarryInit == Init => CarryInv
<1> SUFFICES ASSUME Init PROVE CarryInv
  OBVIOUS
<1>1. /\ row = [m \in Msgs |-> IF m \in Earlier THEN "read" ELSE "none"]
      /\ fetch = [f \in Fetchers |-> Idle] /\ frames = <<>> /\ dropped = {}
      /\ accepted = Earlier
      /\ held = FALSE /\ pending = FALSE /\ active = 0 /\ done = FALSE
  BY DEF Init, InboxInit
<1>2. Idle \in CallsWith({0}) /\ Idle.pc = "idle"
  BY DEF Idle, Call, CallsWith, Steps
<1>3. Types
  <2>1. row \in [Msgs -> {"none", "unread", "read"}] /\ frames \in Seq(SUBSET Msgs)
    BY <1>1
  <2>2. FetchOK
    BY <1>1, <1>2 DEF FetchOK
  <2>3. held \in BOOLEAN /\ pending \in BOOLEAN /\ done \in BOOLEAN
    BY <1>1
  <2> QED BY <2>1, <2>2, <2>3 DEF Types
<1>4. ReadIsCarried
  BY <1>1 DEF ReadIsCarried
<1>5. active = One(held) + One(Busy("poll"))
  BY <1>1, <1>2, FetchersFacts DEF One, Busy
<1>6. Admissions
  BY <1>1, <1>3, <1>5, AdmissionsAre
<1> QED BY <1>3, <1>4, <1>6 DEF CarryInv

LEMMA CarryStep == CarryInv /\ [Next]_vars => CarryInv'
<1> SUFFICES ASSUME CarryInv, [Next]_vars PROVE CarryInv'
  OBVIOUS
<1>1. CASE UNCHANGED vars
  <2>1. UNCHANGED <<row, fetch, frames, dropped, held, pending, active, done, accepted>>
    BY <1>1 DEF vars, inbox, server, socket, intake, handoff
  <2> QED BY <2>1, QuietStep DEF CarryInv, Types
<1>2. CASE Deliver
  BY <1>2, DeliverFrameStep, DeliverAnswerStep DEF Deliver
<1>3. CASE Overflow \/ Crash \/ Adopt
  BY <1>3, EndWatchStep DEF Overflow, Crash, Adopt
<1> QED BY <1>1, <1>2, <1>3, ServerQuiet, RequestUpdateStep, DispatchLoopStep, PushStep,
           PollPageStep, BreakSocketStep, PollFailsStep, FetchStepInv DEF Next

LEMMA CarryInvariant == Spec => []CarryInv
<1> QED BY CarryInit, CarryStep, PTL DEF Spec

-----------------------------------------------------------------------------
(* Newest messages *)

LEMMA BoundedHasNewest ==
  ASSUME NEW K \in SUBSET Nat, K # {}, NEW b \in Nat, \A k \in K : k <= b
  PROVE  HasNewest(K)
<1> DEFINE U == {u \in Nat : \A k \in K : k <= u}
<1>1. U \subseteq Nat /\ U # {}
  OBVIOUS
<1> DEFINE R == OpToRel(<, Nat)
<1>2. IsWellFoundedOn(R, Nat)
  BY NatLessThanWellFounded
<1>3. \A x, y \in Nat : <<x, y>> \in R <=> x < y
  BY DEF OpToRel
<1> HIDE DEF R
<1>4. PICK u \in U : \A y \in U : ~(<<y, u>> \in R)
  BY <1>1, <1>2, WFMin
<1>5. u \in Nat /\ \A y \in U : ~(y < u)
  BY <1>1, <1>3, <1>4
<1>6. u \in K
  <2> SUFFICES ASSUME u \notin K PROVE FALSE
    OBVIOUS
  <2>1. \A k \in K : k \in Nat /\ k < u
    BY <1>4, <1>5
  <2>2. PICK k0 \in K : TRUE
    OBVIOUS
  <2>3. u - 1 \in Nat /\ u - 1 < u
    BY <1>5, <2>1, <2>2
  <2>4. \A k \in K : k <= u - 1
    BY <1>5, <2>1
  <2> QED BY <1>5, <2>3, <2>4
<1> QED BY <1>4, <1>6 DEF HasNewest

LEMMA PageHasNewest ==
  ASSUME NEW S \in SUBSET Nat, NEW limit \in Nat, Page(S, limit) # {}
  PROVE  HasNewest(Page(S, limit))
<1> DEFINE below(m) == {n \in S : n < m}
           size(m) == Cardinality(below(m))
           P == Page(S, limit)
           K == {size(m) : m \in P}
<1>1. \A m \in P : m \in S /\ size(m) < limit
  BY DEF Page
<1>2. \A m \in S : m \in Nat
  OBVIOUS
<1>3. ASSUME NEW m \in S PROVE IsFiniteSet(below(m)) /\ size(m) \in Nat
  <2>1. \A n \in below(m) : n \in Nat /\ n <= m
    BY <1>2
  <2>2. IsFiniteSet(below(m))
    BY <1>2, <2>1, FS_BoundedSetOfNaturals
  <2> QED BY <2>2, FS_CardinalityType
<1>4. ASSUME NEW m \in S, NEW n \in S, m < n PROVE size(m) + 1 <= size(n)
  <2>1. \A x \in below(m) \cup {m} : x \in below(n)
    BY <1>2, <1>4
  <2>2. m \notin below(m)
    BY <1>2
  <2>3. Cardinality(below(m) \cup {m}) = size(m) + 1
    BY <1>3, <2>2, FS_AddElement
  <2>4. Cardinality(below(m) \cup {m}) <= size(n)
    BY <1>3, <2>1, FS_Subset
  <2> QED BY <2>3, <2>4
<1> HIDE DEF size, P
<1>5. ASSUME NEW m \in P PROVE size(m) \in Nat /\ size(m) <= limit
  <2>1. m \in S /\ size(m) < limit
    BY <1>1
  <2>2. size(m) \in Nat
    BY <1>3, <2>1
  <2> QED BY <2>1, <2>2
<1>6. K \in SUBSET Nat /\ K # {} /\ \A k \in K : k <= limit
  BY <1>5 DEF P
<1>7. PICK k \in K : \A j \in K : j <= k
  BY <1>6, BoundedHasNewest DEF HasNewest
<1>8. PICK m \in P : k = size(m)
  BY <1>7
<1>9. ASSUME NEW n \in P PROVE n <= m
  <2>1. m \in S /\ n \in S /\ m \in Nat /\ n \in Nat
    BY <1>1, <1>2
  <2>2. size(n) <= size(m) /\ size(n) \in Nat /\ size(m) \in Nat
    BY <1>5, <1>7, <1>8
  <2>3. ~(m < n)
    BY <1>4, <2>1, <2>2
  <2> QED BY <2>1, <2>3
<1> QED BY <1>9 DEF HasNewest, P

LEMMA NewestIs ==
  ASSUME NEW S, HasNewest(S)
  PROVE  Newest(S) \in S /\ \A n \in S : n <= Newest(S)
  BY DEF HasNewest, Newest

-----------------------------------------------------------------------------
(* Cursors, and the order of the socket *)

Cursors == Msgs \cup {0}

CallOK(c) ==
  /\ c.cursor \in Cursors
  /\ c.pc \in {"mark", "answer"} => HasNewest(c.found)
  /\ \A m \in c.found : m > c.cursor

CursorInv ==
  /\ connCursor \in Cursors /\ cursor \in Cursors /\ pollCursor \in Cursors
  /\ \A f \in Fetchers : CallOK(fetch[f])
  /\ \A i \in DOMAIN frames : HasNewest(frames[i])
  /\ SocketInOrder

LEMMA CursorsAreNats == Cursors \subseteq Nat /\ Msgs \subseteq Nat \ {0}
  BY MsgsAssumption DEF Cursors

LEMMA IdleOK == CallOK(Idle) /\ Idle.pc = "idle"
  BY DEF CallOK, Idle, Call, Cursors

\* Nothing of the socket changes but its subscription or its call of FetchPM.
LEMMA SocketSame ==
  ASSUME CursorInv, UNCHANGED <<frames, connCursor, cursor>>,
         conn' = "down" <=> conn = "down",
         \/ fetch'["push"] = fetch["push"]
         \/ fetch'["push"].pc = "idle"
         \/ conn # "down" /\ fetch'["push"].cursor = connCursor
  PROVE  SocketInOrder' /\ \A i \in DOMAIN frames' : HasNewest(frames'[i])
<1>1. /\ conn' = "down" => frames' = <<>> /\ ~(fetch'["push"].pc # "idle")
      /\ conn' # "down" => cursor' <= connCursor'
      /\ fetch'["push"].pc # "idle" => fetch'["push"].cursor = connCursor'
  BY DEF CursorInv, SocketInOrder, Busy
<1>2. \A i \in DOMAIN frames' : \A m \in frames'[i] :
        /\ cursor' < m /\ m <= connCursor'
        /\ \A j \in 1..(i - 1) : \A n \in frames'[j] : n < m
  BY DEF CursorInv, SocketInOrder
<1> QED BY <1>1, <1>2 DEF CursorInv, SocketInOrder, Busy

LEMMA CursorsSame ==
  ASSUME CursorInv, UNCHANGED <<fetch, frames, connCursor, cursor>>,
         conn' = "down" <=> conn = "down", pollCursor' \in {pollCursor, 0}
  PROVE  CursorInv'
<1>1. pollCursor' \in Cursors /\ \A f \in Fetchers : CallOK(fetch'[f])
  BY DEF CursorInv, Cursors
<1> QED BY <1>1, SocketSame DEF CursorInv

\* One call changes.
LEMMA OneCallOK ==
  ASSUME CursorInv, NEW f \in Fetchers, CallOK(fetch'[f]),
         \A g \in Fetchers \ {f} : fetch'[g] = fetch[g]
  PROVE  \A g \in Fetchers : CallOK(fetch'[g])
  BY DEF CursorInv

LEMMA StartOK ==
  ASSUME CarryInv, CursorInv, NEW f \in Fetchers, NEW c \in Cursors, StartFetch(f, c)
  PROVE  \A g \in Fetchers : CallOK(fetch'[g])
<1>1. CallOK(fetch'[f])
  <2>1. \/ fetch'[f] = fetch[f]
        \/ fetch'[f].pc = "query" /\ fetch'[f].cursor = c /\ fetch'[f].found = {}
    BY StartSet DEF CarryInv, Types
  <2> QED BY <2>1 DEF CallOK, CursorInv
<1> QED BY <1>1, OneCallOK, StartSet DEF CarryInv, Types

LEMMA PushCursors ==
  ASSUME CarryInv, CursorInv, Push \/ Dial
  PROVE  CursorInv'
<1>1. CASE Subscribe /\ UNCHANGED client
  <2>1. /\ UNCHANGED <<fetch, frames, connCursor, cursor, pollCursor>>
        /\ conn = "connected" /\ conn' = "subscribed"
    BY <1>1 DEF Subscribe, server, client
  <2> QED BY <2>1, CursorsSame
<1>2. CASE FetchAndPush /\ UNCHANGED client
  <2>1. /\ conn # "down" /\ StartFetch("push", connCursor)
        /\ UNCHANGED <<conn, frames, connCursor, cursor, pollCursor>>
    BY <1>2 DEF FetchAndPush, client
  <2>2. \A g \in Fetchers : CallOK(fetch'[g])
    BY <2>1, StartOK, FetchersFacts DEF CursorInv
  <2>3. fetch'["push"] = fetch["push"] \/ fetch'["push"].cursor = connCursor
    BY <2>1, StartSet, FetchersFacts DEF CarryInv, Types
  <2> QED BY <2>1, <2>2, <2>3, SocketSame DEF CursorInv
<1>3. CASE Connect(cursor) /\ UNCHANGED client
  <2>1. /\ conn = "down" /\ conn' # "down" /\ connCursor' = cursor /\ StartFetch("push", cursor)
        /\ UNCHANGED <<frames, cursor, pollCursor>> /\ frames = <<>>
    BY <1>3 DEF Connect, client, CursorInv, SocketInOrder
  <2>2. \A g \in Fetchers : CallOK(fetch'[g])
    BY <2>1, StartOK, FetchersFacts DEF CursorInv
  <2>3. fetch'["push"].pc = "idle" \/ fetch'["push"].cursor = cursor
    BY <2>1, StartSet, FetchersFacts DEF CarryInv, Types
  <2>4. frames' = <<>> /\ DOMAIN frames' = {}
    BY <2>1
  <2>5. cursor' <= connCursor'
    BY <2>1, CursorsAreNats DEF CursorInv
  <2>6. SocketInOrder'
    BY <2>1, <2>3, <2>4, <2>5 DEF SocketInOrder, Busy
  <2> QED BY <2>1, <2>2, <2>4, <2>6 DEF CursorInv
<1> QED BY <1>1, <1>2, <1>3 DEF Push, Dial

LEMMA PollPageCursors ==
  ASSUME CarryInv, CursorInv, PollPage
  PROVE  CursorInv'
<1>1. /\ StartFetch("poll", pollCursor)
      /\ UNCHANGED <<conn, frames, connCursor, cursor, pollCursor>>
  BY DEF PollPage, socket, client
<1>2. \A g \in Fetchers : CallOK(fetch'[g])
  BY <1>1, StartOK, FetchersFacts DEF CursorInv
<1>3. fetch'["push"] = fetch["push"]
  BY <1>1, StartSet, FetchersFacts DEF CarryInv, Types
<1> QED BY <1>1, <1>2, <1>3, SocketSame DEF CursorInv

-----------------------------------------------------------------------------
(* Steps of FetchPM *)

\* What Query finds is newer than the cursor it was called with.
LEMMA QueryPage ==
  ASSUME NEW f \in Fetchers, fetch[f].cursor \in Cursors,
         Page({m \in Msgs : row[m] = "unread" /\ m > fetch[f].cursor}, Limit(f)) # {}
  PROVE  LET found == Page({m \in Msgs : row[m] = "unread" /\ m > fetch[f].cursor}, Limit(f))
         IN  HasNewest(found) /\ found \in SUBSET Msgs /\ \A m \in found : m > fetch[f].cursor
<1> DEFINE S == {m \in Msgs : row[m] = "unread" /\ m > fetch[f].cursor}
<1>1. Limit(f) \in Nat
  BY InboxAssumption DEF Limit
<1>2. \A m \in S : m \in Nat
  BY CursorsAreNats
<1>3. HasNewest(Page(S, Limit(f)))
  BY <1>1, <1>2, PageHasNewest
<1>4. \A m \in Page(S, Limit(f)) : m \in Msgs /\ m > fetch[f].cursor
  BY DEF Page
<1> QED BY <1>3, <1>4

\* A call that is not the socket's answer moves no cursor of the socket.
CallKeepsSocket(f) ==
  /\ CallOK(fetch'[f])
  /\ \A g \in Fetchers \ {f} : fetch'[g] = fetch[g]
  /\ fetch'[f].pc = "idle" \/ fetch'[f].cursor = fetch[f].cursor
  /\ UNCHANGED <<conn, frames, connCursor>>

LEMMA QueryKeepsSocket ==
  ASSUME CarryInv, CursorInv, NEW f \in Fetchers, Query(f) \/ QueryFails(f) \/ Fill(f)
  PROVE  CallKeepsSocket(f)
<1>0. /\ FetchOK /\ CallOK(fetch[f]) /\ UNCHANGED <<conn, frames, connCursor>>
  BY DEF CarryInv, Types, CursorInv, Query, QueryFails, Fill, socket
<1>1. CASE Return(f)
  BY <1>0, <1>1, ReturnSet, IdleOK DEF CallKeepsSocket
<1>2. CASE Query(f)
  <2> DEFINE found == Page({m \in Msgs : row[m] = "unread" /\ m > fetch[f].cursor}, Limit(f))
  <2>1. \/ found # {} /\ fetch' = [fetch EXCEPT ![f].pc = "mark", ![f].found = found]
        \/ fetch' = [fetch EXCEPT ![f].pc = "fill"]
        \/ Return(f)
    BY <1>2 DEF Query
  <2>2. found # {} => /\ HasNewest(found) /\ found \in SUBSET Msgs
                      /\ \A m \in found : m > fetch[f].cursor
    BY <1>0, QueryPage DEF CallOK
  <2> HIDE DEF found
  <2>3. CASE found # {} /\ fetch' = [fetch EXCEPT ![f].pc = "mark", ![f].found = found]
    <3>1. /\ fetch'[f].pc = "mark" /\ fetch'[f].found = found
          /\ fetch'[f].cursor = fetch[f].cursor
          /\ \A g \in Fetchers \ {f} : fetch'[g] = fetch[g]
      BY <1>0, <2>3 DEF FetchOK, CallsWith
    <3> QED BY <1>0, <2>2, <2>3, <3>1 DEF CallKeepsSocket, CallOK
  <2>4. CASE fetch' = [fetch EXCEPT ![f].pc = "fill"]
    <3>1. /\ fetch'[f].pc = "fill" /\ fetch'[f].found = fetch[f].found
          /\ fetch'[f].cursor = fetch[f].cursor
          /\ \A g \in Fetchers \ {f} : fetch'[g] = fetch[g]
      BY <1>0, <2>4, MoveStep
    <3> QED BY <1>0, <3>1 DEF CallKeepsSocket, CallOK
  <2> QED BY <1>1, <2>1, <2>3, <2>4
<1> QED BY <1>1, <1>2 DEF QueryFails, Fill

\* The push goroutine writes a frame of newer messages and moves its cursor.
LEMMA FrameAdded ==
  ASSUME CarryInv, CursorInv, fetch["push"].pc = "mark", Return("push"),
         frames' = Append(frames, fetch["push"].found),
         connCursor' = Newest(fetch["push"].found),
         UNCHANGED <<conn, cursor>>, pollCursor' \in Cursors
  PROVE  CursorInv'
<1> DEFINE F == fetch["push"].found
<1>1. /\ frames \in Seq(SUBSET Msgs) /\ F \in SUBSET Msgs /\ FetchOK
      /\ CallOK(fetch["push"]) /\ fetch["push"].cursor = connCursor
      /\ conn # "down" /\ cursor <= connCursor
      /\ cursor \in Nat /\ connCursor \in Nat
  BY FoundType, FetchersFacts, CursorsAreNats
     DEF CarryInv, Types, CursorInv, SocketInOrder, Busy
<1>2. HasNewest(F) /\ \A m \in F : m \in Nat /\ connCursor < m
  BY <1>1, CursorsAreNats DEF CallOK
<1>3. connCursor' \in F /\ \A m \in F : m <= connCursor'
  BY <1>2, NewestIs
<1>4. /\ fetch'["push"].pc = "idle" /\ \A g \in Fetchers : CallOK(fetch'[g])
  BY <1>1, ReturnSet, IdleOK, OneCallOK, FetchersFacts
<1> HIDE DEF F
<1>5. /\ DOMAIN frames = 1..Len(frames) /\ Len(frames) \in Nat
      /\ DOMAIN frames' = 1..(Len(frames) + 1)
      /\ \A i \in 1..Len(frames) : frames'[i] = frames[i] /\ frames[i] \in SUBSET Msgs
      /\ frames'[Len(frames) + 1] = F
  BY <1>1 DEF F
<1>6. ASSUME NEW i \in DOMAIN frames'
      PROVE  /\ HasNewest(frames'[i])
             /\ \A m \in frames'[i] :
                  /\ cursor' < m /\ m <= connCursor'
                  /\ \A j \in 1..(i - 1) : \A n \in frames'[j] : n < m
  <2>1. CASE i = Len(frames) + 1
    <3>1. frames'[i] = F
      BY <1>5, <2>1
    <3>2. ASSUME NEW j \in 1..(i - 1), NEW n \in frames'[j] PROVE n \in Nat /\ n <= connCursor
      <4>1. j \in DOMAIN frames /\ n \in frames[j] /\ n \in Msgs
        BY <1>5, <2>1, <3>2
      <4> QED BY <4>1, CursorsAreNats DEF CursorInv, SocketInOrder
    <3>3. ASSUME NEW m \in F
          PROVE  cursor' < m /\ \A j \in 1..(i - 1) : \A n \in frames'[j] : n < m
      BY <1>1, <1>2, <3>2
    <3> QED BY <1>2, <1>3, <3>1, <3>3
  <2>2. CASE i # Len(frames) + 1
    <3>1. /\ i \in DOMAIN frames /\ frames'[i] = frames[i]
          /\ \A j \in 1..(i - 1) : j \in DOMAIN frames /\ frames'[j] = frames[j]
      BY <1>5, <2>2
    <3>2. ASSUME NEW m \in frames[i] PROVE m <= connCursor'
      <4>1. m \in Nat /\ m <= connCursor
        BY <1>5, <3>1, CursorsAreNats DEF CursorInv, SocketInOrder
      <4> QED BY <1>1, <1>2, <1>3, <4>1
    <3> QED BY <3>1, <3>2 DEF CursorInv, SocketInOrder
  <2> QED BY <2>1, <2>2
<1>7. cursor' <= connCursor'
  BY <1>1, <1>2, <1>3
<1>8. SocketInOrder'
  BY <1>1, <1>4, <1>6, <1>7 DEF SocketInOrder, Busy
<1>9. connCursor' \in Cursors /\ cursor' \in Cursors
  BY <1>1, <1>3 DEF Cursors, CursorInv
<1> QED BY <1>4, <1>6, <1>8, <1>9 DEF CursorInv

LEMMA FetchStepCursors ==
  ASSUME CarryInv, CursorInv, NEW f \in Fetchers, FetchStep(f)
  PROVE  CursorInv'
<1>1. cursor' = cursor /\ pollCursor' \in Cursors
  BY DEF FetchStep, CursorInv, Cursors
<1>2. ASSUME CallKeepsSocket(f) PROVE CursorInv'
  <2>1. \A g \in Fetchers : CallOK(fetch'[g])
    BY <1>2, OneCallOK DEF CallKeepsSocket
  <2>2. \/ fetch'["push"] = fetch["push"] \/ fetch'["push"].pc = "idle"
        \/ conn # "down" /\ fetch'["push"].cursor = connCursor
    <3>1. CASE f = "push"
      <4>1. fetch["push"].pc # "idle"
        BY <3>1 DEF FetchStep, Query, QueryFails, Fill, Mark, MarkFails
      <4> QED BY <1>2, <3>1, <4>1 DEF CallKeepsSocket, CursorInv, SocketInOrder, Busy
    <3>2. CASE f # "push"
      BY <1>2, <3>2, FetchersFacts DEF CallKeepsSocket
    <3> QED BY <3>1, <3>2
  <2> QED BY <1>1, <1>2, <2>1, <2>2, SocketSame DEF CallKeepsSocket, CursorInv
<1>3. CASE Query(f) \/ QueryFails(f) \/ Fill(f)
  BY <1>2, <1>3, QueryKeepsSocket
<1>4. CASE Mark(f) \/ MarkFails(f)
  <2>0. /\ fetch[f].pc = "mark" /\ Respond(f) /\ UNCHANGED conn
        /\ FetchOK /\ CallOK(fetch[f])
    BY <1>4 DEF Mark, MarkFails, CarryInv, Types, CursorInv
  <2>1. CASE /\ f = "push" /\ frames' = Append(frames, fetch[f].found) /\ Return(f)
             /\ connCursor' = Newest(fetch[f].found)
    BY <1>1, <2>0, <2>1, FrameAdded
  <2>2. CASE f = "poll" /\ fetch' = [fetch EXCEPT ![f].pc = "answer"]
             /\ UNCHANGED <<frames, connCursor>>
    <3>1. /\ fetch'[f].pc = "answer" /\ fetch'[f].found = fetch[f].found
          /\ fetch'[f].cursor = fetch[f].cursor
          /\ \A g \in Fetchers \ {f} : fetch'[g] = fetch[g]
      BY <2>0, <2>2, MoveStep
    <3>2. CallKeepsSocket(f)
      BY <2>0, <2>2, <3>1 DEF CallKeepsSocket, CallOK
    <3> QED BY <1>2, <3>2
  <2>3. CASE f \in Orphans /\ Return(f) /\ UNCHANGED <<frames, connCursor>>
    <3>1. CallKeepsSocket(f)
      BY <2>0, <2>3, ReturnSet, IdleOK DEF CallKeepsSocket
    <3> QED BY <1>2, <3>1
  <2> QED BY <2>0, <2>1, <2>2, <2>3 DEF Respond
<1> QED BY <1>3, <1>4 DEF FetchStep

-----------------------------------------------------------------------------
(* Deliveries and losses *)

LEMMA DeliverFrameCursors ==
  ASSUME CarryInv, CursorInv, NEW S, DeliverFrame(S)
  PROVE  CursorInv' /\ cursor < cursor'
<1>1. /\ frames # <<>> /\ S = Head(frames) /\ frames' = Tail(frames) /\ cursor' = Newest(S)
      /\ UNCHANGED <<fetch, conn, connCursor, pollCursor>>
      /\ frames \in Seq(SUBSET Msgs)
      /\ cursor \in Nat /\ connCursor \in Nat
  BY CursorsAreNats DEF DeliverFrame, TakeFrame, server, CarryInv, Types, CursorInv
<1>2. /\ Len(frames) \in Nat \ {0} /\ 1 \in DOMAIN frames
      /\ DOMAIN frames = 1..Len(frames) /\ DOMAIN frames' = 1..(Len(frames) - 1)
      /\ \A i \in 1..(Len(frames) - 1) : frames'[i] = frames[i + 1]
      /\ S = frames[1] /\ S \subseteq Msgs
  BY <1>1
<1>3. HasNewest(S) /\ cursor' \in S /\ \A n \in S : n <= cursor'
  BY <1>1, <1>2, NewestIs DEF CursorInv
<1>4. cursor < cursor' /\ cursor' <= connCursor /\ cursor' \in Nat /\ cursor' \in Cursors
  BY <1>2, <1>3, CursorsAreNats DEF CursorInv, SocketInOrder, Cursors
<1>5. ASSUME NEW i \in DOMAIN frames'
      PROVE  /\ HasNewest(frames'[i])
             /\ \A m \in frames'[i] :
                  /\ cursor' < m /\ m <= connCursor'
                  /\ \A j \in 1..(i - 1) : \A n \in frames'[j] : n < m
  <2>1. /\ i + 1 \in DOMAIN frames /\ frames'[i] = frames[i + 1]
        /\ 1 \in 1..((i + 1) - 1)
        /\ \A j \in 1..(i - 1) : frames'[j] = frames[j + 1] /\ j + 1 \in 1..((i + 1) - 1)
    BY <1>2
  <2>2. HasNewest(frames'[i])
    BY <2>1 DEF CursorInv
  <2>3. ASSUME NEW m \in frames[i + 1]
        PROVE  /\ m <= connCursor
               /\ \A j \in 1..((i + 1) - 1) : \A n \in frames[j] : n < m
    BY <2>1 DEF CursorInv, SocketInOrder
  <2>4. ASSUME NEW m \in frames'[i]
        PROVE  /\ cursor' < m /\ m <= connCursor'
               /\ \A j \in 1..(i - 1) : \A n \in frames'[j] : n < m
    BY <1>1, <1>2, <1>3, <2>1, <2>3
  <2> QED BY <2>2, <2>4
<1>6. SocketInOrder'
  <2>1. conn # "down"
    BY <1>1 DEF CursorInv, SocketInOrder
  <2>2. fetch'["push"].pc # "idle" => fetch'["push"].cursor = connCursor'
    BY <1>1 DEF CursorInv, SocketInOrder, Busy
  <2> QED BY <1>1, <1>4, <1>5, <2>1, <2>2 DEF SocketInOrder, Busy
<1>7. \A f \in Fetchers : CallOK(fetch'[f])
  BY <1>1 DEF CursorInv
<1> QED BY <1>1, <1>4, <1>5, <1>6, <1>7 DEF CursorInv

LEMMA DeliverAnswerCursors ==
  ASSUME CarryInv, CursorInv, NEW S, DeliverAnswer(S)
  PROVE  CursorInv'
<1>1. /\ fetch["poll"].pc = "answer" /\ S = fetch["poll"].found /\ Return("poll")
      /\ pollCursor' = Newest(S) /\ UNCHANGED <<conn, frames, connCursor, cursor>>
      /\ FetchOK
  BY DEF DeliverAnswer, TakeAnswer, socket, CarryInv, Types
<1>2. pollCursor' \in Cursors
  <2>1. HasNewest(S) /\ S \subseteq Msgs
    BY <1>1, FoundType, FetchersFacts DEF CursorInv, CallOK
  <2> QED BY <1>1, <2>1, NewestIs DEF Cursors
<1>3. /\ \A g \in Fetchers : CallOK(fetch'[g])
      /\ fetch'["push"] = fetch["push"]
  BY <1>1, ReturnSet, IdleOK, OneCallOK, FetchersFacts
<1> QED BY <1>1, <1>2, <1>3, SocketSame DEF CursorInv

LEMMA AbandonCursors ==
  ASSUME CursorInv, NEW gone \in SUBSET {"push", "poll"}, Abandon(gone)
  PROVE  /\ \A f \in Fetchers : CallOK(fetch'[f])
         /\ fetch'["push"] = IF "push" \in gone THEN Idle ELSE fetch["push"]
<1>1. ASSUME NEW f \in Fetchers PROVE CallOK(fetch'[f])
  <2>1. CASE f \in gone
    BY <2>1, IdleOK DEF Abandon
  <2>2. CASE f \notin gone /\ \E g \in gone : f = Orphan(g) /\ fetch[g].pc \in {"query", "fill", "mark"}
    <3>1. (CHOOSE g \in gone : f = Orphan(g)) \in gone
      BY <2>2
    <3>2. gone \subseteq Fetchers
      BY DEF Fetchers
    <3>3. fetch'[f] = fetch[CHOOSE g \in gone : f = Orphan(g)]
      BY <2>2 DEF Abandon
    <3> QED BY <3>1, <3>2, <3>3 DEF CursorInv
  <2>3. CASE f \notin gone /\ ~\E g \in gone : f = Orphan(g) /\ fetch[g].pc \in {"query", "fill", "mark"}
    BY <2>3 DEF Abandon, CursorInv
  <2> QED BY <2>1, <2>2, <2>3
<1>2. \A g : Orphan(g) # "push"
  BY DEF Orphan
<1>3. fetch'["push"] = IF "push" \in gone THEN Idle ELSE fetch["push"]
  BY <1>2, FetchersFacts DEF Abandon
<1> QED BY <1>1, <1>3

\* The socket is gone.
LEMMA SocketGone ==
  ASSUME CursorInv, conn' = "down", connCursor' = 0, frames' = <<>>,
         NEW gone \in SUBSET {"push", "poll"}, "push" \in gone, Abandon(gone),
         cursor' \in {cursor, 0}, pollCursor' \in {pollCursor, 0}
  PROVE  CursorInv'
<1>1. /\ \A f \in Fetchers : CallOK(fetch'[f])
      /\ fetch'["push"].pc = "idle"
  BY AbandonCursors, IdleOK
<1>2. DOMAIN frames' = {}
  OBVIOUS
<1>3. connCursor' \in Cursors /\ cursor' \in Cursors /\ pollCursor' \in Cursors
  BY DEF CursorInv, Cursors
<1>4. SocketInOrder'
  BY <1>1, <1>2 DEF SocketInOrder, Busy
<1> QED BY <1>1, <1>2, <1>3, <1>4 DEF CursorInv

LEMMA LossCursors ==
  ASSUME CarryInv, CursorInv, BreakSocket \/ PollFails \/ EndWatch
  PROVE  CursorInv'
<1>1. CASE BreakSocket
  BY <1>1, SocketGone DEF BreakSocket, Disconnect, client
<1>2. CASE EndWatch
  BY <1>2, SocketGone DEF EndWatch, ClientGone
<1>3. CASE PollFails
  <2>1. /\ Abandon({"poll"}) /\ pollCursor' = 0
        /\ UNCHANGED <<conn, frames, connCursor, cursor>>
    BY <1>3 DEF PollFails, LoseAnswer, socket
  <2>2. /\ \A f \in Fetchers : CallOK(fetch'[f])
        /\ fetch'["push"] = fetch["push"]
    BY <2>1, AbandonCursors
  <2>3. pollCursor' \in Cursors
    BY <2>1 DEF Cursors
  <2> QED BY <2>1, <2>2, <2>3, SocketSame DEF CursorInv
<1> QED BY <1>1, <1>2, <1>3

LEMMA CursorStep == CarryInv /\ CursorInv /\ [Next]_vars => CursorInv'
<1> SUFFICES ASSUME CarryInv, CursorInv, [Next]_vars PROVE CursorInv'
  OBVIOUS
<1>1. CASE \/ Arrive \/ Expire \/ Restart \/ EndPass \/ \E m \in Msgs : PostCommit(m)
           \/ RequestUpdate \/ Claim \/ Finish \/ UNCHANGED vars
  <2>1. UNCHANGED <<fetch, frames, connCursor, cursor, conn>> /\ pollCursor' \in {pollCursor, 0}
    BY <1>1 DEF Arrive, Commit, PostCommitFails, Expire, ExpireEmpty, Restart, EndPass, PostCommit,
                Invalidate, Publish, RequestUpdate, Claim, Finish,
                vars, inbox, server, socket, client
  <2> QED BY <2>1, CursorsSame
<1>2. CASE Deliver
  BY <1>2, DeliverFrameCursors, DeliverAnswerCursors DEF Deliver
<1>3. CASE Overflow \/ Crash \/ Adopt \/ BreakSocket \/ PollFails
  BY <1>3, LossCursors DEF Overflow, Crash, Adopt
<1> QED BY <1>1, <1>2, <1>3, PushCursors, PollPageCursors, FetchStepCursors DEF Next

-----------------------------------------------------------------------------
(* The other types *)

OtherTypes ==
  /\ post \in [Msgs -> {"none", "invalidate", "publish", "done"}]
  /\ emptyCached \in BOOLEAN
  /\ conn \in {"down", "connected", "subscribed"}
  /\ hints \in Nat
  /\ dropped \subseteq Msgs
  /\ faults \in 0..MaxFaults
  /\ accepted \subseteq Msgs /\ unresolved \subseteq accepted
  /\ running \in BOOLEAN
  /\ updates \in 0..MaxUpdates

LEMMA FaultType == faults \in 0..MaxFaults /\ Fault => faults' \in 0..MaxFaults
  BY InboxAssumption DEF Fault

\* What is carried is made of messages.
LEMMA CarriersAreMessages == Types => InFrames \subseteq Msgs /\ InAnswer \subseteq Msgs
<1> SUFFICES ASSUME Types PROVE InFrames \subseteq Msgs /\ InAnswer \subseteq Msgs
  OBVIOUS
<1>1. \A i \in DOMAIN frames : frames[i] \subseteq Msgs
  BY DEF Types
<1>2. InFrames \subseteq Msgs
  BY <1>1 DEF InFrames
<1>3. InAnswer \subseteq Msgs
  BY FoundType, FetchersFacts DEF InAnswer, Types
<1> QED BY <1>2, <1>3

LEMMA ServerTypes ==
  ASSUME CarryInv, OtherTypes,
         \/ Arrive \/ Expire \/ Push \/ Dial \/ PollPage \/ EndPass
         \/ \E m \in Msgs : PostCommit(m)
  PROVE  OtherTypes'
<1>0. UNCHANGED <<accepted, unresolved, running, updates, dropped>>
  BY DEF Arrive, Commit, PostCommitFails, Expire, ExpireEmpty, Push, Subscribe, FetchAndPush, Dial,
         Connect, PollPage, HandoffBegin, EndPass, PostCommit, Invalidate, Publish,
         inbox, intake, handoff
<1>1. post' \in [Msgs -> {"none", "invalidate", "publish", "done"}]
  BY DEF OtherTypes, Arrive, Commit, PostCommitFails, Expire, ExpireEmpty, Push, Subscribe,
         FetchAndPush, Dial, Connect, PollPage, EndPass, PostCommit, Invalidate, Publish,
         inbox, server
<1>2. emptyCached' \in BOOLEAN
  BY DEF OtherTypes, Arrive, Commit, PostCommitFails, Expire, ExpireEmpty, Push, Subscribe,
         FetchAndPush, Dial, Connect, PollPage, EndPass, PostCommit, Invalidate, Publish,
         inbox, server
<1>3. conn' \in {"down", "connected", "subscribed"}
  BY DEF OtherTypes, Arrive, Commit, PostCommitFails, Expire, ExpireEmpty, Push, Subscribe,
         FetchAndPush, Dial, Connect, PollPage, EndPass, PostCommit, Invalidate, Publish,
         inbox, socket
<1>4. hints' \in Nat
  BY DEF OtherTypes, Arrive, Commit, PostCommitFails, Expire, ExpireEmpty, Push, Subscribe,
         FetchAndPush, Dial, Connect, PollPage, EndPass, PostCommit, Invalidate, Publish,
         inbox, socket
<1>5. UNCHANGED faults \/ Fault
  BY DEF Arrive, Commit, PostCommitFails, Expire, ExpireEmpty, Push, Subscribe,
         FetchAndPush, Dial, Connect, PollPage, EndPass, PostCommit, Invalidate, Publish, inbox
<1>6. faults' \in 0..MaxFaults
  BY <1>5, FaultType DEF OtherTypes
<1> QED BY <1>0, <1>1, <1>2, <1>3, <1>4, <1>6 DEF OtherTypes

LEMMA FetchStepTypes ==
  ASSUME CarryInv, OtherTypes, NEW f \in Fetchers, FetchStep(f)
  PROVE  OtherTypes'
<1>1. /\ UNCHANGED <<post, conn, hints, accepted, unresolved, running, updates>>
      /\ emptyCached' \in {emptyCached, TRUE}
      /\ UNCHANGED faults \/ Fault
      /\ UNCHANGED dropped \/ dropped' = dropped \cup fetch[f].found
  BY DEF FetchStep, Query, QueryFails, Fill, Mark, MarkFails, Respond, HandoffEnd,
         socket, intake, handoff
<1>2. fetch[f].found \in SUBSET Msgs
  BY FoundType DEF CarryInv, Types
<1>3. faults' \in 0..MaxFaults
  BY <1>1, FaultType DEF OtherTypes
<1>4. emptyCached' \in BOOLEAN
  BY <1>1 DEF OtherTypes
<1>5. dropped' \subseteq Msgs
  BY <1>1, <1>2 DEF OtherTypes
<1> QED BY <1>1, <1>3, <1>4, <1>5 DEF OtherTypes

LEMMA DeliverTypes ==
  ASSUME CarryInv, OtherTypes, NEW S \in SUBSET Msgs, DeliverFrame(S) \/ DeliverAnswer(S)
  PROVE  OtherTypes'
<1>1. UNCHANGED <<post, emptyCached, conn, hints, dropped, faults, running, updates>>
  BY DEF DeliverFrame, DeliverAnswer, TakeFrame, TakeAnswer, Accept, HandoffEnd,
         server, socket, handoff
<1>2. Accept(S)
  BY DEF DeliverFrame, DeliverAnswer
<1>3. accepted' \subseteq Msgs /\ unresolved' \subseteq accepted'
  BY <1>2 DEF Accept, OtherTypes
<1> QED BY <1>1, <1>3 DEF OtherTypes

LEMMA DispatchTypes ==
  ASSUME CarryInv, OtherTypes, Claim \/ Finish \/ RequestUpdate \/ Restart
  PROVE  OtherTypes'
<1>1. UNCHANGED <<post, emptyCached, conn, hints, dropped, faults, accepted>>
  BY DEF Claim, Finish, RequestUpdate, Restart, Hold, Release, Start, Operator, Resolve,
         inbox, server, socket, intake
<1>2. unresolved' \subseteq unresolved
  BY DEF Claim, Finish, RequestUpdate, Restart, Hold, Release, Start, Operator, Resolve, intake
<1>3. running' \in BOOLEAN
  BY DEF Claim, Finish, RequestUpdate, Restart, Hold, Release, Start, Operator, Resolve, intake,
         OtherTypes
<1>4. updates' \in 0..MaxUpdates
  <2>1. updates' = updates \/ (updates < MaxUpdates /\ updates' = updates + 1)
    BY DEF Claim, Finish, RequestUpdate, Restart, HandoffBegin, HandoffEnd, handoff
  <2> QED BY <2>1, WatchAssumption DEF OtherTypes
<1> QED BY <1>1, <1>2, <1>3, <1>4 DEF OtherTypes

LEMMA LossTypes ==
  ASSUME CarryInv, OtherTypes, Overflow \/ Crash \/ Adopt \/ BreakSocket \/ PollFails
  PROVE  OtherTypes'
<1>1. /\ UNCHANGED <<post, emptyCached, accepted, unresolved, updates>>
      /\ conn' \in {conn, "down"} /\ hints' \in {hints, 0}
      /\ running' \in {running, FALSE}
  BY DEF Overflow, Crash, Adopt, EndWatch, Stop, ClientGone, BreakSocket, Disconnect, PollFails,
         LoseAnswer, HandoffEnd, socket, intake, handoff
<1>2. UNCHANGED faults \/ Fault
  BY DEF Overflow, Crash, Adopt, BreakSocket, PollFails
<1>3. \/ dropped' = dropped \cup InFrames \/ dropped' = dropped \cup InAnswer
      \/ dropped' = dropped \cup InFrames \cup InAnswer
  BY DEF Overflow, Crash, Adopt, EndWatch, ClientGone, BreakSocket, Disconnect, PollFails, LoseAnswer
<1>4. dropped' \subseteq Msgs
  BY <1>3, CarriersAreMessages DEF CarryInv, OtherTypes
<1>5. faults' \in 0..MaxFaults
  BY <1>2, FaultType DEF OtherTypes
<1>6. conn' \in {"down", "connected", "subscribed"} /\ hints' \in Nat
  BY <1>1 DEF OtherTypes
<1>7. running' \in BOOLEAN
  BY <1>1 DEF OtherTypes
<1> QED BY <1>1, <1>4, <1>5, <1>6, <1>7 DEF OtherTypes

LEMMA OtherTypesStep == CarryInv /\ OtherTypes /\ [Next]_vars => OtherTypes'
<1> SUFFICES ASSUME CarryInv, OtherTypes, [Next]_vars PROVE OtherTypes'
  OBVIOUS
<1>1. CASE UNCHANGED vars
  BY <1>1 DEF OtherTypes, vars, inbox, server, socket, intake, handoff
<1>2. CASE Deliver
  BY <1>2, DeliverTypes DEF Deliver
<1> QED BY <1>1, <1>2, ServerTypes, FetchStepTypes, DispatchTypes, LossTypes DEF Next

-----------------------------------------------------------------------------
(* The inductive invariant of the watch *)

\* Its parts as the proofs have them.
LEMMA WatchParts == WatchInv <=> CarryInv /\ CursorInv /\ OtherTypes
<1>1. ASSUME WatchInv PROVE CarryInv /\ CursorInv /\ OtherTypes
  <2>1. TypeOK /\ InboxTypeOK
    BY <1>1 DEF WatchInv, TypeOK
  <2>2. fetch \in [Fetchers -> CallsWith(Cursors)]
    BY <2>1 DEF InboxTypeOK, CallsWith, Steps, Cursors
  <2>3. Types
    <3>1. FetchOK
      BY <2>2 DEF FetchOK
    <3> QED BY <2>1, <3>1 DEF TypeOK, InboxTypeOK, Types
  <2>4. CarryInv
    BY <1>1, <2>3 DEF WatchInv, CarryInv
  <2>5. \A f \in Fetchers : fetch[f].cursor \in Cursors
    BY <2>2 DEF CallsWith
  <2>6. connCursor \in Cursors /\ cursor \in Cursors /\ pollCursor \in Cursors
    BY <2>1 DEF TypeOK, InboxTypeOK, Cursors
  <2>7. CursorInv
    BY <1>1, <2>5, <2>6 DEF WatchInv, PagesInv, CursorInv, CallOK
  <2>8. OtherTypes
    BY <2>1 DEF TypeOK, InboxTypeOK, OtherTypes
  <2> QED BY <2>4, <2>7, <2>8
<1>2. ASSUME CarryInv, CursorInv, OtherTypes PROVE WatchInv
  <2>1. fetch \in [Fetchers -> CallsWith(Cursors)]
    <3>1. PICK C : fetch \in [Fetchers -> CallsWith(C)]
      BY <1>2 DEF CarryInv, Types, FetchOK
    <3>2. \A f \in Fetchers : fetch[f].cursor \in Cursors
      BY <1>2 DEF CursorInv, CallOK
    <3>3. \A f \in Fetchers : fetch[f] \in CallsWith(Cursors)
      BY <3>1, <3>2 DEF CallsWith
    <3> QED BY <3>1, <3>3
  <2>2. InboxTypeOK
    <3>1. fetch \in [Fetchers -> [pc : {"idle", "query", "fill", "mark", "answer"},
                                  cursor : Msgs \cup {0}, found : SUBSET Msgs]]
      BY <2>1 DEF CallsWith, Steps, Cursors
    <3> QED BY <1>2, <3>1 DEF InboxTypeOK, OtherTypes, CarryInv, Types, CursorInv, Cursors
  <2>3. active \in 0..2
    <3>1. active = One(held) + One(Busy("poll"))
      BY <1>2, AdmissionsAre DEF CarryInv
    <3> QED BY <3>1 DEF One
  <2>4. TypeOK
    BY <1>2, <2>2, <2>3 DEF TypeOK, OtherTypes, CarryInv, Types, CursorInv, Cursors
  <2>5. PagesInv /\ SocketInOrder
    BY <1>2 DEF CursorInv, CallOK, PagesInv
  <2> QED BY <1>2, <2>4, <2>5 DEF WatchInv, CarryInv
<1> QED BY <1>1, <1>2

LEMMA WatchInit == Init => WatchInv
<1> SUFFICES ASSUME Init PROVE WatchInv
  OBVIOUS
<1>1. /\ post = [m \in Msgs |-> IF m \in Earlier THEN "done" ELSE "none"]
      /\ emptyCached = FALSE /\ fetch = [f \in Fetchers |-> Idle]
      /\ conn = "down" /\ connCursor = 0 /\ hints = 0 /\ frames = <<>> /\ dropped = {} /\ faults = 0
      /\ accepted = Earlier /\ unresolved \subseteq accepted /\ running = TRUE /\ updates = 0
      /\ cursor \in Earlier \cup {0} /\ pollCursor = 0 /\ Earlier \subseteq Msgs
  BY WatchAssumption DEF Init, InboxInit
<1>2. OtherTypes
  <2>1. post \in [Msgs -> {"none", "invalidate", "publish", "done"}]
    BY <1>1
  <2>2. hints \in Nat /\ faults \in 0..MaxFaults /\ updates \in 0..MaxUpdates
    BY <1>1, WatchAssumption, InboxAssumption
  <2>3. emptyCached \in BOOLEAN /\ running \in BOOLEAN
    BY <1>1
  <2> QED BY <1>1, <2>1, <2>2, <2>3 DEF OtherTypes
<1>3. CursorInv
  <2>1. connCursor \in Cursors /\ cursor \in Cursors /\ pollCursor \in Cursors
    BY <1>1 DEF Cursors
  <2>2. \A f \in Fetchers : CallOK(fetch[f]) /\ fetch[f].pc = "idle"
    BY <1>1, IdleOK
  <2>3. DOMAIN frames = {}
    BY <1>1
  <2>4. SocketInOrder
    BY <1>1, <2>2, <2>3, FetchersFacts DEF SocketInOrder, Busy
  <2> QED BY <2>1, <2>2, <2>3, <2>4 DEF CursorInv
<1> QED BY <1>2, <1>3, CarryInit, WatchParts

LEMMA WatchStep == WatchInv /\ [Next]_vars => WatchInv'
<1> SUFFICES ASSUME WatchInv, [Next]_vars PROVE WatchInv'
  OBVIOUS
<1>1. CarryInv /\ CursorInv /\ OtherTypes
  BY WatchParts
<1>2. CarryInv' /\ CursorInv' /\ OtherTypes'
  BY <1>1, CarryStep, CursorStep, OtherTypesStep
<1>3. (CarryInv /\ CursorInv /\ OtherTypes => WatchInv)'
  BY WatchParts, PTL
<1> QED BY <1>2, <1>3

\* The invariant of the watch, for any messages and limits: it covers the
\* cursors and the frames of the socket, what carries the messages that FetchPM
\* marked as read, and the admissions of the handoff.
THEOREM WatchInvariant == Spec => []WatchInv
<1> QED BY WatchInit, WatchStep, PTL DEF Spec

\* A dial with a stale cursor, a lost frame or an ignored error of the update
\* never takes the socket back: pmLoop's cursor only moves forward while the
\* watch runs, and PMCursor while the connection is up.
THEOREM SocketNeverGoesBack == Spec => CursorsAdvance
<1> DEFINE Advance == /\ running' => cursor <= cursor'
                      /\ conn # "down" /\ conn' # "down" => connCursor <= connCursor'
<1>1. ASSUME WatchInv, [Next]_vars PROVE Advance
  <2>0. /\ CarryInv /\ CursorInv /\ CursorInv'
        /\ cursor \in Nat /\ connCursor \in Nat
    BY <1>1, WatchParts, CursorStep, CursorsAreNats DEF CursorInv
  <2>1. CASE UNCHANGED <<cursor, connCursor>>
    BY <2>0, <2>1
  <2>2. ASSUME NEW S, DeliverFrame(S) PROVE Advance
    <3>1. cursor < cursor' /\ connCursor' = connCursor
      BY <2>0, <2>2, DeliverFrameCursors DEF DeliverFrame, TakeFrame
    <3>2. cursor' \in Nat
      BY <2>0, CursorsAreNats DEF CursorInv
    <3> QED BY <2>0, <3>1, <3>2
  <2>3. ASSUME NEW f \in Fetchers, FetchStep(f) PROVE Advance
    <3>1. CASE UNCHANGED connCursor
      BY <2>1, <2>3, <3>1 DEF FetchStep
    <3>2. CASE connCursor' # connCursor
      <4>1. /\ f = "push" /\ connCursor' = Newest(fetch[f].found) /\ fetch[f].pc = "mark"
            /\ cursor' = cursor
        BY <2>3, <3>2 DEF FetchStep, Query, QueryFails, Fill, Mark, MarkFails, Respond, socket
      <4>2. HasNewest(fetch[f].found) /\ fetch[f].cursor = connCursor
            /\ \A m \in fetch[f].found : m > fetch[f].cursor
        BY <2>0, <4>1, FetchersFacts DEF CursorInv, CallOK, SocketInOrder, Busy
      <4>3. connCursor' \in fetch[f].found
        BY <4>1, <4>2, NewestIs
      <4>4. connCursor' \in Nat /\ connCursor < connCursor'
        BY <2>0, <4>2, <4>3, CursorsAreNats DEF CursorInv
      <4> QED BY <2>0, <4>1, <4>4
    <3> QED BY <3>1, <3>2
  <2>4. CASE Dial \/ BreakSocket
    <3>1. cursor' = cursor /\ (conn = "down" \/ conn' = "down")
      BY <2>4 DEF Dial, Connect, BreakSocket, Disconnect, client
    <3> QED BY <2>0, <3>1
  <2>5. CASE Overflow \/ Crash \/ Adopt
    <3>1. ~running' /\ conn' = "down"
      BY <2>5 DEF Overflow, Crash, Adopt, EndWatch, Stop, ClientGone
    <3> QED BY <3>1
  <2>6. CASE \/ Arrive \/ Expire \/ Push \/ PollPage \/ EndPass \/ PollFails \/ Restart
             \/ RequestUpdate \/ Claim \/ Finish \/ UNCHANGED vars
             \/ \E m \in Msgs : PostCommit(m)
             \/ \E S : DeliverAnswer(S)
    <3>1. UNCHANGED <<cursor, connCursor>>
      BY <2>6 DEF Arrive, Commit, PostCommitFails, Expire, ExpireEmpty, Push, Subscribe,
           FetchAndPush, PollPage, EndPass, PollFails, LoseAnswer, Restart, RequestUpdate, Claim,
           Finish, PostCommit, Invalidate, Publish, DeliverAnswer, TakeAnswer,
           vars, inbox, socket, client
    <3> QED BY <2>1, <3>1
  <2> QED BY <1>1, <2>2, <2>3, <2>4, <2>5, <2>6 DEF Next, Deliver
<1> QED BY <1>1, WatchInvariant, PTL DEF CursorsAdvance, Spec

\* For any messages and limits, and however sockets, polls and the watch break:
\* a message that FetchPM has marked as read is in a frame or an answer, has
\* been journaled, or was in a frame or an answer that got lost.
THEOREM ReadMessagesAreCarried == Spec => []ReadIsCarried
<1>1. CarryInv => ReadIsCarried
  BY DEF CarryInv
<1> QED BY <1>1, CarryInvariant, PTL

\* A watchHandoff that is done has no job in hand and no pull under way, so the
\* new CLI that adopts the watch interrupts nothing that was admitted.
THEOREM AdoptionInterruptsNothing == Spec => []AdoptionDrains
<1>1. CarryInv => AdoptionDrains
  <2> SUFFICES ASSUME CarryInv, done PROVE ~held /\ ~Busy("poll")
    BY DEF AdoptionDrains
  <2>1. active = One(held) + One(Busy("poll")) /\ active = 0
    BY AdmissionsAre DEF CarryInv
  <2> QED BY <2>1 DEF One
<1> QED BY <1>1, CarryInvariant, PTL
=============================================================================
