----------------------- MODULE DispatchJournalProofs -----------------------
(***************************************************************************)
(* The dispatch journal for any number of messages and hints, any limits   *)
(* and any number of crashes, deliveries and operator's commands: replies  *)
(* and runs are accounted for, no wake-up is lost, and the journal keeps   *)
(* the promise of JournalIntake.                                           *)
(***************************************************************************)
EXTENDS DispatchJournal, TLAPS

\* What a save of the statuses st does to one job: it is written as it is, or
\* it was completed and its receipt is dropped.
Written(st, j) ==
  \/ status'[j] = st[j] /\ trims'[j] = trims[j]
  \/ st[j] \in Completed /\ status'[j] = "none" /\ trims'[j] = trims[j] + 1

Saved(st) ==
  /\ status' \in [Jobs -> Status]
  /\ trims' \in [Jobs -> Nat]
  /\ \A j \in Jobs : Written(st, j)

LEMMA SaveFacts ==
  ASSUME JournalTypeOK, NEW js, NEW st \in [Jobs -> Status], Save(js, st)
  PROVE  Saved(st) /\ Cardinality(Unresolved(st)) <= MaxPending
<1> DEFINE out == Trimmed(js, st)
<1>1. \A j \in out : j \in Jobs /\ st[j] \in Completed
  BY DEF Trimmed
<1>2. /\ Cardinality(Unresolved(st)) <= MaxPending
      /\ status' = [j \in Jobs |-> IF j \in out THEN "none" ELSE st[j]]
      /\ trims' = [j \in Jobs |-> IF j \in out THEN trims[j] + 1 ELSE trims[j]]
  BY DEF Save
<1> HIDE DEF out
<1>3. status' \in [Jobs -> Status]
  BY <1>2 DEF Status
<1>4. trims' \in [Jobs -> Nat]
  BY <1>2 DEF JournalTypeOK
<1>5. \A j \in Jobs : Written(st, j)
  BY <1>1, <1>2 DEF Written
<1> QED BY <1>2, <1>3, <1>4, <1>5 DEF Saved

LEMMA SaveJobFacts ==
  ASSUME JournalTypeOK, NEW js, NEW st \in [Jobs -> Status], NEW j, SaveJob(js, st, j)
  PROVE  Saved(st) /\ Cardinality(Unresolved(st)) <= MaxPending
<1>1. \E ks : Save(ks, st)
  BY DEF SaveJob
<1> QED BY <1>1, SaveFacts

\* A save changes neither which jobs are unresolved nor which are pending or
\* in hand.
LEMMA SaveKeeps ==
  ASSUME NEW st \in [Jobs -> Status], Saved(st)
  PROVE  /\ Unresolved(status') = Unresolved(st)
         /\ \A j \in Jobs : \A s \in {"pending", "running", "sending"} :
              status'[j] = s <=> st[j] = s
         /\ HasPending(status') => HasPending(st)
<1>1. \A j \in Jobs : \A s \in {"pending", "running", "sending"} :
        status'[j] = s <=> st[j] = s
  BY DEF Saved, Written, Completed
<1>2. Unresolved(status') = Unresolved(st)
  BY DEF Saved, Written, Unresolved, Completed
<1>3. HasPending(status') => HasPending(st)
  BY <1>1 DEF HasPending
<1> QED BY <1>1, <1>2, <1>3

\* The replies and runs of a job whose status is about to be written as s.
PostsFit(s, j) ==
  posts'[j] <= IF \/ s \in {"replied", "no_reply", "unknown"}
                  \/ s = "sending" /\ ~(disp' = "sending" /\ j \in cur')
               THEN 1 + trims[j] ELSE trims[j]
RunsFit(s, j) ==
  runs'[j] <= IF s \notin {"none", "pending"}
              THEN 1 + retries'[j] + trims[j] ELSE retries'[j] + trims[j]
HintFits(s, j) ==
  (j \in Hints => posts'[j] = 0) /\ (j \in Hints \ raised' => s = "none")

LEMMA SaveAccounts ==
  ASSUME JournalTypeOK, NEW st \in [Jobs -> Status], Saved(st),
         posts' \in [Jobs -> Nat], runs' \in [Jobs -> Nat], retries' \in [Jobs -> Nat],
         \A j \in Jobs : PostsFit(st[j], j) /\ RunsFit(st[j], j) /\ HintFits(st[j], j)
  PROVE  Accounted'
<1> SUFFICES ASSUME NEW j \in Jobs
             PROVE  /\ posts'[j] <= IF MayBePosted(j)' THEN 1 + trims'[j] ELSE trims'[j]
                    /\ j \in Hints => posts'[j] = 0
                    /\ j \in Hints \ raised' => status'[j] = "none"
                    /\ runs'[j] <= IF WasClaimed(j)' THEN 1 + retries'[j] + trims'[j]
                                   ELSE retries'[j] + trims'[j]
  BY DEF Accounted
<1>0. /\ posts'[j] \in Nat /\ runs'[j] \in Nat /\ retries'[j] \in Nat /\ trims[j] \in Nat
      /\ PostsFit(st[j], j) /\ RunsFit(st[j], j) /\ HintFits(st[j], j)
  BY DEF JournalTypeOK
<1>1. CASE status'[j] = st[j] /\ trims'[j] = trims[j]
  BY <1>0, <1>1 DEF PostsFit, RunsFit, HintFits, MayBePosted, WasClaimed
<1>2. CASE st[j] \in Completed /\ status'[j] = "none" /\ trims'[j] = trims[j] + 1
  BY <1>0, <1>2 DEF PostsFit, RunsFit, HintFits, MayBePosted, WasClaimed, Completed
<1> QED BY <1>1, <1>2 DEF Saved, Written

\* In a state of the invariant, what the accounts of a job say.
LEMMA AccountFacts ==
  ASSUME JournalInv, NEW j \in Jobs
  PROVE  /\ status[j] \in Status
         /\ posts[j] \in Nat /\ runs[j] \in Nat /\ retries[j] \in Nat /\ trims[j] \in Nat
         /\ posts[j] <= IF MayBePosted(j) THEN 1 + trims[j] ELSE trims[j]
         /\ j \in Hints => posts[j] = 0
         /\ j \in Hints \ raised => status[j] = "none"
         /\ runs[j] <= IF WasClaimed(j) THEN 1 + retries[j] + trims[j]
                       ELSE retries[j] + trims[j]
  BY DEF JournalInv, JournalTypeOK, Accounted

\* A job that keeps its status keeps its accounts.
LEMMA SameFits ==
  ASSUME JournalInv, NEW j \in Jobs, posts'[j] = posts[j], runs'[j] = runs[j],
         retries'[j] = retries[j], raised \subseteq raised',
         disp' = "sending" /\ j \in cur' => status[j] # "sending" \/ (disp = "sending" /\ j \in cur)
  PROVE  PostsFit(status[j], j) /\ RunsFit(status[j], j) /\ HintFits(status[j], j)
<1>1. PostsFit(status[j], j)
  BY AccountFacts DEF PostsFit, MayBePosted
<1>2. RunsFit(status[j], j)
  BY AccountFacts DEF RunsFit, WasClaimed
<1>3. HintFits(status[j], j)
  BY AccountFacts DEF HintFits
<1> QED BY <1>1, <1>2, <1>3

-----------------------------------------------------------------------------
(* Intake *)

LEMMA AddMessagesStep ==
  ASSUME JournalInv, NEW S \in SUBSET Messages, AddMessages(S), ~UNCHANGED journal
  PROVE  JournalInv'
<1> DEFINE st == [j \in Jobs |-> IF j \in New(S) THEN "pending" ELSE status[j]]
<1>0. JournalTypeOK
  BY DEF JournalInv
<1>1. /\ up /\ Save(jobs \o Sorted(New(S)), st) /\ wake' = TRUE
      /\ UNCHANGED <<up, disp, cur, raised, posts, runs, retries, commands>>
  BY DEF AddMessages
<1>2. \A j \in New(S) : j \in Jobs /\ j \in Messages /\ status[j] = "none"
  BY DEF New, Jobs
<1>3. st \in [Jobs -> Status]
  BY <1>0 DEF JournalTypeOK, Status
<1>4. \A j \in Jobs : st[j] = IF j \in New(S) THEN "pending" ELSE status[j]
  OBVIOUS
<1> HIDE DEF st
<1>5. Saved(st)
  BY <1>0, <1>1, <1>3, SaveFacts
<1>6. JournalTypeOK'
  BY <1>0, <1>1, <1>5 DEF JournalTypeOK, Saved
<1>7. \A j \in Jobs : \A s \in {"running", "sending"} : status'[j] = s <=> status[j] = s
  BY <1>2, <1>3, <1>4, <1>5, SaveKeeps
<1>8. InHand'
  BY <1>1, <1>7 DEF JournalInv, InHand, NoneInHand
<1>9. Accounted'
  <2> SUFFICES ASSUME NEW j \in Jobs
               PROVE  PostsFit(st[j], j) /\ RunsFit(st[j], j) /\ HintFits(st[j], j)
    BY <1>0, <1>1, <1>3, <1>5, SaveAccounts DEF JournalTypeOK
  <2>1. CASE j \notin New(S)
    BY <1>1, <1>4, <2>1, SameFits
  <2>2. CASE j \in New(S)
    <3>1. status[j] = "none" /\ st[j] = "pending" /\ j \notin Hints
      BY <1>2, <1>4, <2>2, JobsAssumption
    <3> QED BY <1>1, <3>1, AccountFacts DEF PostsFit, RunsFit, HintFits, MayBePosted, WasClaimed
  <2> QED BY <2>1, <2>2
<1>10. Signalled'
  BY <1>1 DEF Signalled
<1> QED BY <1>6, <1>8, <1>9, <1>10 DEF JournalInv

LEMMA AddHintStep ==
  ASSUME JournalInv, NEW h \in Hints, AddHint(h)
  PROVE  JournalInv'
<1> DEFINE st == [status EXCEPT ![h] = "pending"]
<1>0. /\ JournalTypeOK /\ h \in Jobs /\ h \notin raised /\ raised' = raised \cup {h}
      /\ UNCHANGED <<up, disp, cur, posts, runs, retries, commands>>
  BY DEF JournalInv, Jobs, AddHint
<1>1. CASE UNCHANGED <<file, wake, trims>>
  <2>1. JournalTypeOK'
    BY <1>0, <1>1 DEF JournalTypeOK, file
  <2>2. InHand' /\ Signalled'
    BY <1>0, <1>1 DEF JournalInv, InHand, NoneInHand, Signalled, HasPending, file
  <2>3. Accounted'
    BY <1>0, <1>1 DEF JournalInv, Accounted, MayBePosted, WasClaimed, file
  <2> QED BY <2>1, <2>2, <2>3 DEF JournalInv
<1>2. CASE Save(Append(jobs, h), st) /\ wake' = TRUE
  <2>1. st \in [Jobs -> Status]
    BY <1>0 DEF JournalTypeOK, Status
  <2>2. \A j \in Jobs : st[j] = IF j = h THEN "pending" ELSE status[j]
    BY <1>0 DEF JournalTypeOK
  <2>3. status[h] = "none"
    BY <1>0, AccountFacts
  <2> HIDE DEF st
  <2>4. Saved(st)
    BY <1>0, <1>2, <2>1, SaveFacts
  <2>5. JournalTypeOK'
    BY <1>0, <1>2, <2>4 DEF JournalTypeOK, Saved
  <2>6. \A j \in Jobs : \A s \in {"running", "sending"} : status'[j] = s <=> status[j] = s
    BY <2>1, <2>2, <2>3, <2>4, SaveKeeps
  <2>7. InHand'
    BY <1>0, <2>6 DEF JournalInv, InHand, NoneInHand
  <2>8. Accounted'
    <3> SUFFICES ASSUME NEW j \in Jobs
                 PROVE  PostsFit(st[j], j) /\ RunsFit(st[j], j) /\ HintFits(st[j], j)
      BY <1>0, <2>1, <2>4, SaveAccounts DEF JournalTypeOK
    <3>1. CASE j # h
      BY <1>0, <2>2, <3>1, SameFits
    <3>2. CASE j = h
      BY <1>0, <2>2, <2>3, <3>2, AccountFacts
      DEF PostsFit, RunsFit, HintFits, MayBePosted, WasClaimed
    <3> QED BY <3>1, <3>2
  <2>9. Signalled'
    BY <1>2 DEF Signalled
  <2> QED BY <2>5, <2>7, <2>8, <2>9 DEF JournalInv
<1> QED BY <1>1, <1>2 DEF AddHint

\* The watch stops and leaves the file as it is.
LEMMA HaltStep ==
  ASSUME JournalInv, Halt, UNCHANGED <<file, account, commands>>,
         raised \subseteq raised', raised' \subseteq Hints
  PROVE  JournalInv'
<1>1. JournalTypeOK'
  BY DEF JournalInv, JournalTypeOK, Halt, file, account, DispState
<1>2. InHand' /\ Signalled'
  BY DEF InHand, Signalled, Halt
<1>3. Accounted'
  <2> SUFFICES ASSUME NEW j \in Jobs
               PROVE  /\ posts'[j] <= IF MayBePosted(j)' THEN 1 + trims'[j] ELSE trims'[j]
                      /\ j \in Hints => posts'[j] = 0
                      /\ j \in Hints \ raised' => status'[j] = "none"
                      /\ runs'[j] <= IF WasClaimed(j)' THEN 1 + retries'[j] + trims'[j]
                                     ELSE retries'[j] + trims'[j]
    BY DEF Accounted
  <2>1. MayBePosted(j) => MayBePosted(j)'
    BY DEF MayBePosted, Halt, file
  <2>2. WasClaimed(j)' = WasClaimed(j)
    BY DEF WasClaimed, file
  <2> QED BY <2>1, <2>2, AccountFacts DEF account, file
<1> QED BY <1>1, <1>2, <1>3 DEF JournalInv
-----------------------------------------------------------------------------
(* dispatchLoop *)

LEMMA NextJobStep ==
  ASSUME JournalInv, NextJob
  PROVE  JournalInv'
<1>0. /\ JournalTypeOK /\ up /\ disp = "next" /\ cur = {} /\ NoneInHand
      /\ UNCHANGED <<up, wake, raised, posts, retries, commands>>
  BY DEF JournalInv, InHand, NextJob
<1>1. ASSUME NEW j \in Jobs, Claimable(j), Save(jobs, [status EXCEPT ![j] = "running"]),
             cur' = {j}, runs' = [runs EXCEPT ![j] = @ + 1], disp' = "prepare"
      PROVE  JournalInv'
  <2> DEFINE st == [status EXCEPT ![j] = "running"]
  <2>1. st \in [Jobs -> Status] /\ status[j] = "pending"
    BY <1>0, <1>1 DEF JournalTypeOK, Status, Claimable
  <2>2. \A k \in Jobs : st[k] = IF k = j THEN "running" ELSE status[k]
    BY <1>0 DEF JournalTypeOK
  <2>3. Saved(st)
    BY <1>0, <1>1, <2>1, SaveFacts
  <2> HIDE DEF st
  <2>4. runs' \in [Jobs -> Nat]
    BY <1>0, <1>1 DEF JournalTypeOK
  <2>5. JournalTypeOK'
    BY <1>0, <1>1, <2>3, <2>4 DEF JournalTypeOK, Saved, DispState
  <2>6. InHand'
    <3>1. status'[j] = "running"
      BY <2>1, <2>2, <2>3, SaveKeeps
    <3>2. \A k \in Jobs \ {j} : status'[k] \notin {"running", "sending"}
      BY <1>0, <2>1, <2>2, <2>3, SaveKeeps DEF NoneInHand
    <3> QED BY <1>0, <1>1, <3>1, <3>2 DEF InHand
  <2>7. Accounted'
    <3> SUFFICES ASSUME NEW k \in Jobs
                 PROVE  PostsFit(st[k], k) /\ RunsFit(st[k], k) /\ HintFits(st[k], k)
      BY <1>0, <2>1, <2>3, <2>4, SaveAccounts DEF JournalTypeOK
    <3>1. CASE k # j
      BY <1>0, <1>1, <2>2, <3>1, SameFits DEF JournalTypeOK
    <3>2. CASE k = j
      <4>1. runs'[j] = runs[j] + 1 /\ posts' = posts /\ retries' = retries
        BY <1>0, <1>1 DEF JournalTypeOK
      <4> QED BY <1>0, <1>1, <2>1, <2>2, <3>2, <4>1, AccountFacts
              DEF PostsFit, RunsFit, HintFits, MayBePosted, WasClaimed
    <3> QED BY <3>1, <3>2
  <2>8. Signalled'
    BY <1>1 DEF Signalled
  <2> QED BY <2>5, <2>6, <2>7, <2>8 DEF JournalInv
<1>2. CASE /\ ~NoneInHand \/ ~HasPending(status)
           /\ disp' = "wait"
           /\ UNCHANGED <<file, cur, runs, trims>>
  <2>1. JournalTypeOK'
    BY <1>0, <1>2 DEF JournalTypeOK, file, DispState
  <2>2. InHand'
    BY <1>0, <1>2 DEF InHand, NoneInHand, file
  <2>3. Accounted'
    BY <1>0, <1>2 DEF JournalInv, Accounted, MayBePosted, WasClaimed, file
  <2>4. Signalled'
    BY <1>0, <1>2 DEF Signalled, HasPending, file
  <2> QED BY <2>1, <2>2, <2>3, <2>4 DEF JournalInv
<1> QED BY <1>1, <1>2 DEF NextJob

LEMMA WakeStep ==
  ASSUME JournalInv, Wake
  PROVE  JournalInv'
<1>1. JournalTypeOK'
  BY DEF JournalInv, JournalTypeOK, Wake, file, account, DispState
<1>2. InHand' /\ Signalled'
  BY DEF JournalInv, InHand, NoneInHand, Signalled, Wake, file
<1>3. Accounted'
  BY DEF JournalInv, Accounted, MayBePosted, WasClaimed, Wake, file, account
<1> QED BY <1>1, <1>2, <1>3 DEF JournalInv

\* The job that dispatchJob works on.
LEMMA HandFacts ==
  ASSUME JournalInv, NEW j \in cur, disp \notin {"next", "wait"}
  PROVE  /\ up /\ j \in Jobs /\ cur = {j}
         /\ status[j] = IF disp \in {"sending", "accepted"} THEN "sending" ELSE "running"
         /\ disp \in {"reply", "sending", "accepted"} => j \in Messages
         /\ \A k \in Jobs \ {j} : status[k] \notin {"running", "sending"}
  BY DEF JournalInv, InHand

\* The agent is started, or has left a reply: the file stays as it is.
LEMMA ProceedStep ==
  ASSUME JournalInv, NEW j \in cur, disp \in {"prepare", "agent"}, NEW step \in {"agent", "reply"},
         step = "reply" => j \in Messages, Proceed(step)
  PROVE  JournalInv'
<1>1. JournalTypeOK'
  BY DEF JournalInv, JournalTypeOK, Proceed, file, account, DispState
<1>2. InHand' /\ Signalled'
  BY HandFacts DEF InHand, Signalled, Proceed, file
<1>3. Accounted'
  BY HandFacts DEF JournalInv, Accounted, MayBePosted, WasClaimed, Proceed, file, account
<1> QED BY <1>1, <1>2, <1>3 DEF JournalInv

\* The job in hand gets a result, or its reply becomes an intent on disk.
LEMMA UpdateStep ==
  ASSUME JournalInv, NEW j \in cur, disp \notin {"next", "wait"}, NEW to, NEW step,
         Update(j, to, step), UNCHANGED posts,
         \/ step = "next" /\ to \in Completed \cup Waiting
         \/ step = "sending" /\ to = "sending" /\ disp = "reply",
         disp = "accepted" => to \in {"replied", "unknown"}
  PROVE  JournalInv'
<1> DEFINE st == [status EXCEPT ![j] = to]
<1>0. /\ JournalTypeOK /\ up /\ j \in Jobs /\ cur = {j}
      /\ status[j] = IF disp \in {"sending", "accepted"} THEN "sending" ELSE "running"
      /\ disp = "reply" => j \in Messages
      /\ \A k \in Jobs \ {j} : status[k] \notin {"running", "sending"}
  BY HandFacts DEF JournalInv
<1>1. /\ SaveJob(jobs, st, j) /\ disp' = step
      /\ wake' = (wake \/ HasPending(st))
      /\ cur' = IF step = "next" THEN {} ELSE cur
      /\ UNCHANGED <<up, raised, runs, retries, commands>>
  BY DEF Update
<1>2. st \in [Jobs -> Status]
  BY <1>0 DEF JournalTypeOK, Status, Completed, Waiting
<1>3. \A k \in Jobs : st[k] = IF k = j THEN to ELSE status[k]
  BY <1>0 DEF JournalTypeOK
<1> HIDE DEF st
<1>4. Saved(st)
  BY <1>0, <1>1, <1>2, SaveJobFacts
<1>5. JournalTypeOK'
  <2>1. wake' \in BOOLEAN
    BY <1>1
  <2> QED BY <1>0, <1>1, <1>4, <2>1 DEF JournalTypeOK, Saved, DispState
<1>6. InHand'
  <2>1. \A k \in Jobs \ {j} : status'[k] \notin {"running", "sending"}
    BY <1>0, <1>2, <1>3, <1>4, SaveKeeps
  <2>2. CASE step = "next" /\ to \in Completed \cup Waiting
    <3>1. status'[j] \notin {"running", "sending"}
      BY <1>0, <1>2, <1>3, <1>4, <2>2, SaveKeeps DEF Completed, Waiting
    <3> QED BY <1>1, <2>1, <2>2, <3>1 DEF InHand, NoneInHand
  <2>3. CASE step = "sending" /\ to = "sending" /\ disp = "reply"
    <3>1. status'[j] = "sending"
      BY <1>0, <1>2, <1>3, <1>4, <2>3, SaveKeeps
    <3> QED BY <1>0, <1>1, <2>1, <2>3, <3>1 DEF InHand
  <2> QED BY <2>2, <2>3
<1>7. Accounted'
  <2> SUFFICES ASSUME NEW k \in Jobs
               PROVE  PostsFit(st[k], k) /\ RunsFit(st[k], k) /\ HintFits(st[k], k)
    BY <1>0, <1>1, <1>2, <1>4, SaveAccounts DEF JournalTypeOK
  <2>1. CASE k # j
    BY <1>0, <1>1, <1>3, <2>1, SameFits
  <2>2. CASE k = j
    <3>1. st[k] = to /\ WasClaimed(k) /\ to \notin {"none", "pending"}
      BY <1>0, <1>3, <2>2 DEF WasClaimed, Completed, Waiting
    <3>2. MayBePosted(k) => disp = "accepted"
      BY <1>0, <2>2 DEF MayBePosted, JournalInv, JournalTypeOK, DispState
    <3>3. RunsFit(st[k], k) /\ HintFits(st[k], k)
      BY <1>0, <1>1, <2>2, <3>1, AccountFacts DEF RunsFit, HintFits
    <3>4. PostsFit(st[k], k)
      BY <1>1, <3>1, <3>2, AccountFacts DEF PostsFit
    <3> QED BY <3>3, <3>4
  <2> QED BY <2>1, <2>2
<1>8. Signalled'
  BY <1>1 DEF Signalled
<1> QED BY <1>5, <1>6, <1>7, <1>8 DEF JournalInv

LEMMA PostReplyStep ==
  ASSUME JournalInv, NEW j \in cur, PostReply(j)
  PROVE  JournalInv'
<1>0. /\ JournalTypeOK /\ up /\ j \in Jobs /\ cur = {j} /\ disp = "sending"
      /\ status[j] = "sending" /\ j \in Messages
      /\ \A k \in Jobs \ {j} : status[k] \notin {"running", "sending"}
  BY HandFacts DEF JournalInv, PostReply
<1>1. /\ posts' = [posts EXCEPT ![j] = @ + 1] /\ disp' = "accepted"
      /\ UNCHANGED <<file, up, wake, cur, raised, runs, retries, trims, commands>>
  BY DEF PostReply
<1>2. JournalTypeOK'
  BY <1>0, <1>1 DEF JournalTypeOK, file, DispState
<1>3. InHand' /\ Signalled'
  BY <1>0, <1>1 DEF InHand, Signalled, file
<1>4. Accounted'
  <2> SUFFICES ASSUME NEW k \in Jobs
               PROVE  /\ posts'[k] <= IF MayBePosted(k)' THEN 1 + trims[k] ELSE trims[k]
                      /\ k \in Hints => posts'[k] = 0
                      /\ k \in Hints \ raised => status[k] = "none"
                      /\ runs[k] <= IF WasClaimed(k) THEN 1 + retries[k] + trims[k]
                                    ELSE retries[k] + trims[k]
    BY <1>1 DEF Accounted, WasClaimed, file
  <2>1. CASE k # j
    <3>1. posts'[k] = posts[k] /\ (MayBePosted(k) => MayBePosted(k)')
      BY <1>0, <1>1, <2>1 DEF JournalTypeOK, MayBePosted, file
    <3> QED BY <3>1, AccountFacts
  <2>2. CASE k = j
    <3>1. posts'[k] = posts[k] + 1 /\ ~MayBePosted(k) /\ MayBePosted(k)' /\ k \notin Hints
      BY <1>0, <1>1, <2>2, JobsAssumption DEF JournalTypeOK, MayBePosted, file
    <3> QED BY <3>1, AccountFacts
  <2> QED BY <2>1, <2>2
<1> QED BY <1>2, <1>3, <1>4 DEF JournalInv

LEMMA DispatchStep ==
  ASSUME JournalInv, Dispatch
  PROVE  JournalInv'
<1>1. CASE NextJob \/ Wake
  BY <1>1, NextJobStep, WakeStep
<1>2. ASSUME NEW j \in cur, Prepare(j) PROVE JournalInv'
  BY <1>2, ProceedStep, UpdateStep DEF Prepare, Finish, Completed, Waiting
<1>3. ASSUME NEW j \in cur, EndAgent(j) PROVE JournalInv'
  BY <1>3, ProceedStep, UpdateStep DEF EndAgent, Finish, Completed, Waiting
<1>4. ASSUME NEW j \in cur, BeginReply(j) PROVE JournalInv'
  BY <1>4, UpdateStep DEF BeginReply, Finish, Waiting
<1>5. ASSUME NEW j \in cur, RefuseReply(j) \/ EndReply(j) PROVE JournalInv'
  BY <1>5, UpdateStep DEF RefuseReply, EndReply, Finish, Completed, Waiting
<1> QED BY <1>1, <1>2, <1>3, <1>4, <1>5, PostReplyStep DEF Dispatch
-----------------------------------------------------------------------------
(* Restarts and the operator *)

LEMMA RecoveredFacts ==
  ASSUME JournalTypeOK
  PROVE  /\ Recovered(status) \in [Jobs -> Status]
         /\ \A j \in Jobs : Recovered(status)[j] =
              IF status[j] \in {"running", "sending"} THEN "unknown" ELSE status[j]
         /\ Unresolved(Recovered(status)) = Unresolved(status)
<1>1. \A j \in Jobs : Recovered(status)[j] =
        IF status[j] \in {"running", "sending"} THEN "unknown" ELSE status[j]
  BY DEF Recovered
<1>2. Recovered(status) \in [Jobs -> Status]
  BY DEF JournalTypeOK, Recovered, Status, Waiting
<1>3. Unresolved(Recovered(status)) = Unresolved(status)
  BY <1>1 DEF Unresolved, Completed
<1> QED BY <1>1, <1>2, <1>3

\* A job that was in hand when the watch stopped keeps its accounts: its reply
\* may be out, and unknown says so.
LEMMA RecoveredFits ==
  ASSUME JournalInv, NEW j \in Jobs, posts'[j] = posts[j], runs'[j] = runs[j],
         retries'[j] = retries[j], raised' = raised, cur' = {},
         NEW s, s = Recovered(status)[j]
  PROVE  PostsFit(s, j) /\ RunsFit(s, j) /\ HintFits(s, j)
<1>0. s = IF status[j] \in {"running", "sending"} THEN "unknown" ELSE status[j]
  BY RecoveredFacts DEF JournalInv
<1>1. CASE status[j] \in {"running", "sending"}
  BY <1>0, <1>1, AccountFacts DEF PostsFit, RunsFit, HintFits, MayBePosted, WasClaimed
<1>2. CASE status[j] \notin {"running", "sending"}
  BY <1>0, <1>2, SameFits
<1> QED BY <1>1, <1>2

\* The file is rewritten, after recovery, by a command of the operator or by
\* the start of the watch.
LEMMA RecoveryStep ==
  ASSUME JournalInv, ~up, NEW st \in [Jobs -> Status], Saved(st),
         UNCHANGED <<disp, cur, raised>>, up' \in BOOLEAN, wake' \in BOOLEAN,
         up' /\ HasPending(st) => wake',
         posts' \in [Jobs -> Nat], runs' \in [Jobs -> Nat], retries' \in [Jobs -> Nat],
         commands' \in 0..MaxCommands,
         \A j \in Jobs : st[j] \notin {"running", "sending"},
         \A j \in Jobs : PostsFit(st[j], j) /\ RunsFit(st[j], j) /\ HintFits(st[j], j)
  PROVE  JournalInv'
<1>0. JournalTypeOK /\ cur = {} /\ disp \in {"next", "wait"}
  BY DEF JournalInv, InHand
<1>1. JournalTypeOK'
  BY <1>0 DEF JournalTypeOK, Saved
<1>2. InHand'
  BY <1>0, SaveKeeps DEF InHand, NoneInHand
<1>3. Accounted'
  BY <1>0, SaveAccounts
<1>4. Signalled'
  BY SaveKeeps DEF Signalled
<1> QED BY <1>1, <1>2, <1>3, <1>4 DEF JournalInv

LEMMA StartWatchStep ==
  ASSUME JournalInv, StartWatch
  PROVE  JournalInv'
<1> DEFINE st == Recovered(status)
<1>0. JournalTypeOK /\ ~up /\ cur = {}
  BY DEF JournalInv, InHand, StartWatch
<1>1. /\ up' = TRUE /\ Save(jobs, st) /\ wake' = HasPending(st)
      /\ UNCHANGED <<disp, cur, raised, posts, runs, retries, commands>>
  BY DEF StartWatch
<1>2. /\ st \in [Jobs -> Status]
      /\ \A j \in Jobs : st[j] \notin {"running", "sending"}
  BY <1>0, RecoveredFacts
<1>3. Saved(st)
  BY <1>0, <1>1, <1>2, SaveFacts
<1>4. \A j \in Jobs : PostsFit(st[j], j) /\ RunsFit(st[j], j) /\ HintFits(st[j], j)
  BY <1>0, <1>1, RecoveredFits
<1> HIDE DEF st
<1>5. up' \in BOOLEAN /\ wake' \in BOOLEAN /\ (up' /\ HasPending(st) => wake')
  BY <1>1 DEF HasPending
<1>6. /\ posts' \in [Jobs -> Nat] /\ runs' \in [Jobs -> Nat] /\ retries' \in [Jobs -> Nat]
      /\ commands' \in 0..MaxCommands
  BY <1>0, <1>1 DEF JournalTypeOK
<1> QED BY <1>0, <1>1, <1>2, <1>3, <1>4, <1>5, <1>6, RecoveryStep

LEMMA CommandType ==
  ASSUME JournalTypeOK, Command
  PROVE  ~up /\ commands' \in 0..MaxCommands
  BY JournalAssumption DEF Command, JournalTypeOK

LEMMA RetryStep ==
  ASSUME JournalInv, NEW j \in Jobs, Retry(j)
  PROVE  JournalInv'
<1> DEFINE rec == Recovered(status)
           st == [rec EXCEPT ![j] = "pending"]
<1>0. JournalTypeOK /\ ~up /\ cur = {} /\ commands' \in 0..MaxCommands
  BY CommandType DEF JournalInv, InHand, Retry
<1>1. /\ rec[j] \in {"failed", "needs_user"} /\ Save(jobs, st)
      /\ retries' = [retries EXCEPT ![j] = @ + 1]
      /\ UNCHANGED <<up, wake, disp, cur, raised, posts, runs>>
  BY DEF Retry, loop
<1>2. rec \in [Jobs -> Status] /\ \A k \in Jobs : rec[k] \notin {"running", "sending"}
  BY <1>0, RecoveredFacts
<1>3. rec[j] = status[j]
  BY <1>0, <1>1, RecoveredFacts
<1>4. retries' \in [Jobs -> Nat] /\ retries'[j] = retries[j] + 1
      /\ \A k \in Jobs \ {j} : retries'[k] = retries[k]
  BY <1>0, <1>1 DEF JournalTypeOK
<1>5. ASSUME NEW k \in Jobs, k # j
      PROVE  PostsFit(rec[k], k) /\ RunsFit(rec[k], k) /\ HintFits(rec[k], k)
  BY <1>0, <1>1, <1>4, <1>5, RecoveredFits
<1> HIDE DEF rec
<1>6. /\ st \in [Jobs -> Status]
      /\ \A k \in Jobs : st[k] = IF k = j THEN "pending" ELSE rec[k]
  BY <1>2 DEF Status
<1> HIDE DEF st
<1>7. Saved(st)
  BY <1>0, <1>1, <1>6, SaveFacts
<1>8. ASSUME NEW k \in Jobs
      PROVE  PostsFit(st[k], k) /\ RunsFit(st[k], k) /\ HintFits(st[k], k)
  <2>1. CASE k # j
    BY <1>5, <1>6, <2>1
  <2>2. CASE k = j
    <3>1. st[j] = "pending" /\ ~MayBePosted(j) /\ posts'[j] = posts[j] /\ runs'[j] = runs[j]
          /\ (j \in Hints => j \in raised')
      BY <1>1, <1>3, <1>6, AccountFacts DEF MayBePosted
    <3> QED BY <1>4, <2>2, <3>1, AccountFacts DEF PostsFit, RunsFit, HintFits
  <2> QED BY <2>1, <2>2
<1>9. /\ up' \in BOOLEAN /\ wake' \in BOOLEAN /\ ~up'
      /\ posts' \in [Jobs -> Nat] /\ runs' \in [Jobs -> Nat]
  BY <1>0, <1>1 DEF JournalTypeOK
<1>10. \A k \in Jobs : st[k] \notin {"running", "sending"}
  BY <1>2, <1>6
<1> QED BY <1>0, <1>1, <1>4, <1>6, <1>7, <1>8, <1>9, <1>10, RecoveryStep

LEMMA ReconcileStep ==
  ASSUME JournalInv, NEW j \in Jobs, NEW o \in Completed \cup {"failed"}, Reconcile(j, o)
  PROVE  JournalInv'
<1> DEFINE rec == Recovered(status)
           st == [rec EXCEPT ![j] = o]
<1>0. JournalTypeOK /\ ~up /\ cur = {} /\ commands' \in 0..MaxCommands
  BY CommandType DEF JournalInv, InHand, Reconcile
<1>1. /\ rec[j] \in Waiting /\ SaveJob(jobs, st, j)
      /\ o \in IF j \in Messages THEN {"no_reply", "replied"} ELSE {"completed", "failed"}
      /\ UNCHANGED <<up, wake, disp, cur, raised, posts, runs, retries>>
  BY DEF Reconcile, loop
<1>2. rec \in [Jobs -> Status] /\ \A k \in Jobs : rec[k] \notin {"running", "sending"}
  BY <1>0, RecoveredFacts
<1>3. status[j] \notin {"none", "pending"}
  BY <1>0, <1>1, RecoveredFacts DEF Waiting
<1>4. ASSUME NEW k \in Jobs
      PROVE  PostsFit(rec[k], k) /\ RunsFit(rec[k], k) /\ HintFits(rec[k], k)
  BY <1>0, <1>1, RecoveredFits
<1> HIDE DEF rec
<1>5. /\ st \in [Jobs -> Status]
      /\ \A k \in Jobs : st[k] = IF k = j THEN o ELSE rec[k]
  BY <1>2 DEF Status, Completed, Waiting
<1> HIDE DEF st
<1>6. Saved(st)
  BY <1>0, <1>1, <1>5, SaveJobFacts
<1>7. ASSUME NEW k \in Jobs
      PROVE  PostsFit(st[k], k) /\ RunsFit(st[k], k) /\ HintFits(st[k], k)
  <2>1. CASE k # j
    BY <1>4, <1>5, <2>1
  <2>2. CASE k = j
    <3>1. /\ posts'[j] = posts[j] /\ runs'[j] = runs[j] /\ retries'[j] = retries[j]
          /\ st[j] = o /\ o \notin {"none", "pending", "sending"} /\ WasClaimed(j)
          /\ (j \in Hints => j \in raised')
      BY <1>1, <1>3, <1>5, AccountFacts DEF WasClaimed, Completed
    <3>2. o \in {"replied", "no_reply"} \/ j \in Hints
      BY <1>1 DEF Jobs
    <3> QED BY <2>2, <3>1, <3>2, AccountFacts DEF PostsFit, RunsFit, HintFits
  <2> QED BY <2>1, <2>2
<1>8. /\ up' \in BOOLEAN /\ wake' \in BOOLEAN /\ ~up'
      /\ posts' \in [Jobs -> Nat] /\ runs' \in [Jobs -> Nat] /\ retries' \in [Jobs -> Nat]
  BY <1>0, <1>1 DEF JournalTypeOK
<1>9. \A k \in Jobs : st[k] \notin {"running", "sending"}
  BY <1>2, <1>5 DEF Completed
<1> QED BY <1>0, <1>1, <1>5, <1>6, <1>7, <1>8, <1>9, RecoveryStep

LEMMA HaltsStep ==
  ASSUME JournalInv, StopWatch \/ \E h \in Hints : AddHintFails(h)
  PROVE  JournalInv'
<1>1. CASE StopWatch
  BY <1>1, HaltStep DEF StopWatch, JournalInv, JournalTypeOK
<1>2. ASSUME NEW h \in Hints, AddHintFails(h) PROVE JournalInv'
  BY <1>2, HaltStep DEF AddHintFails, JournalInv, JournalTypeOK
<1> QED BY <1>1, <1>2

-----------------------------------------------------------------------------
(* The invariants *)

LEMMA JournalInitially == JournalInit => JournalInv
<1> SUFFICES ASSUME JournalInit PROVE JournalInv
  OBVIOUS
<1>1. /\ status \in [Jobs -> Status] /\ \A j \in Jobs : status[j] = "none"
      /\ posts \in [Jobs -> Nat] /\ runs \in [Jobs -> Nat]
      /\ retries \in [Jobs -> Nat] /\ trims \in [Jobs -> Nat]
      /\ \A j \in Jobs : posts[j] = 0 /\ runs[j] = 0 /\ retries[j] = 0 /\ trims[j] = 0
      /\ disp = "next" /\ cur = {} /\ raised = {} /\ commands \in 0..MaxCommands
  BY JournalAssumption DEF JournalInit, Status
<1>2. up \in BOOLEAN /\ wake \in BOOLEAN
  BY DEF JournalInit
<1>3. JournalTypeOK
  BY <1>1, <1>2 DEF JournalTypeOK, DispState
<1>4. InHand /\ Signalled
  BY <1>1 DEF InHand, NoneInHand, Signalled
<1>5. Accounted
  BY <1>1 DEF Accounted
<1> QED BY <1>3, <1>4, <1>5 DEF JournalInv

LEMMA JournalStep == JournalInv /\ [JournalNext]_journal => JournalInv'
<1> SUFFICES ASSUME JournalInv, [JournalNext]_journal PROVE JournalInv'
  OBVIOUS
<1>1. CASE UNCHANGED journal
  <2>1. JournalTypeOK' /\ InHand' /\ Signalled'
    BY <1>1 DEF JournalInv, JournalTypeOK, InHand, NoneInHand, Signalled, HasPending,
                journal, file, loop, account
  <2>2. Accounted'
    BY <1>1 DEF JournalInv, Accounted, MayBePosted, WasClaimed, journal, file, loop, account
  <2> QED BY <2>1, <2>2 DEF JournalInv
<1>2. ASSUME NEW S \in SUBSET {m \in Messages : trims[m] <= MaxAgain}, AddMessages(S)
      PROVE  JournalInv'
  BY <1>1, <1>2, AddMessagesStep
<1>3. ASSUME NEW h \in Hints, AddHint(h) \/ AddHintFails(h) PROVE JournalInv'
  BY <1>3, AddHintStep, HaltsStep
<1>4. CASE Operate
  BY <1>4, RetryStep, ReconcileStep DEF Operate
<1> QED BY <1>1, <1>2, <1>3, <1>4, DispatchStep, HaltsStep, StartWatchStep DEF JournalNext

\* For any messages, hints and limits, and whatever stops and restarts the
\* watch, the journal and dispatchLoop keep their inductive invariant.
THEOREM JournalInvariant == JournalSpec => []JournalInv
<1> QED BY JournalInitially, JournalStep, PTL DEF JournalSpec

\* A message is answered once at most while the journal has its receipt
\* (OpenJournal, sendDispatchReply, Retry).
THEOREM RepliesAtMostOnce == JournalSpec => []RepliedOnce
<1>1. JournalInv => RepliedOnce
  <2> SUFFICES ASSUME JournalInv, NEW j \in Jobs PROVE posts[j] <= 1 + trims[j]
    BY DEF RepliedOnce
  <2> QED BY AccountFacts
<1> QED BY <1>1, JournalInvariant, PTL

\* The agent runs once for a job, plus once for each retry by the operator
\* (Next, OpenJournal).
THEOREM RunsAtMostOnce == JournalSpec => []RunOnce
<1>1. JournalInv => RunOnce
  <2> SUFFICES ASSUME JournalInv, NEW j \in Jobs PROVE runs[j] <= 1 + retries[j] + trims[j]
    BY DEF RunOnce
  <2> QED BY AccountFacts
<1> QED BY <1>1, JournalInvariant, PTL

\* dispatchLoop never waits with a pending job and no signal (Wake, signal,
\* Update).
THEOREM NoLostWakeup == JournalSpec => []Woken
<1>1. JournalInv => Woken
  BY DEF JournalInv, Woken, Signalled, InHand
<1> QED BY <1>1, JournalInvariant, PTL
-----------------------------------------------------------------------------
(* The promise of JournalIntake *)

Accepted == {j \in Jobs : status[j] # "none" \/ trims[j] > 0}
Held == disp \notin {"next", "wait"}

\* What a save means for the promise: the unresolved jobs are those of st, and
\* a job that was ever taken stays accepted.
LEMMA SavePromise ==
  ASSUME JournalInv, NEW st \in [Jobs -> Status], Saved(st)
  PROVE  /\ Unresolved(status)' = Unresolved(st)
         /\ Accepted' = {j \in Jobs : st[j] # "none" \/ trims[j] > 0}
<1>1. Unresolved(status)' = Unresolved(st)
  BY SaveKeeps
<1>2. ASSUME NEW j \in Jobs
      PROVE  status'[j] # "none" \/ trims'[j] > 0 <=> st[j] # "none" \/ trims[j] > 0
  <2>1. trims[j] \in Nat
    BY AccountFacts
  <2>2. CASE status'[j] = st[j] /\ trims'[j] = trims[j]
    BY <2>2
  <2>3. CASE st[j] \in Completed /\ status'[j] = "none" /\ trims'[j] = trims[j] + 1
    BY <2>1, <2>3 DEF Completed
  <2> QED BY <2>2, <2>3 DEF Saved, Written
<1> QED BY <1>1, <1>2 DEF Accepted

\* Writing statuses under which every job is in the journal, and unresolved,
\* just as before shows nothing to the loops.
LEMMA SaveUnseen ==
  ASSUME JournalInv, NEW st \in [Jobs -> Status], Saved(st),
         \A j \in Jobs : /\ st[j] = "none" <=> status[j] = "none"
                         /\ st[j] \in Completed <=> status[j] \in Completed
  PROVE  Unresolved(status)' = Unresolved(status) /\ Accepted' = Accepted
<1>1. Unresolved(st) = Unresolved(status)
  BY DEF Unresolved
<1>2. Accepted = {j \in Jobs : st[j] # "none" \/ trims[j] > 0}
  BY DEF Accepted
<1> QED BY <1>1, <1>2, SavePromise

\* One job gets the status to, which is not none.
LEMMA SaveOne ==
  ASSUME JournalInv, NEW base \in [Jobs -> Status],
         \A k \in Jobs : /\ base[k] = "none" <=> status[k] = "none"
                         /\ base[k] \in Completed <=> status[k] \in Completed,
         NEW j \in Unresolved(status), NEW to \in Status \ {"none"},
         NEW st \in [Jobs -> Status], st = [base EXCEPT ![j] = to], Saved(st)
  PROVE  /\ Accepted' = Accepted
         /\ Unresolved(status)' =
              IF to \in Completed THEN Unresolved(status) \ {j} ELSE Unresolved(status)
<1>1. j \in Jobs /\ status[j] # "none" /\ status[j] \notin Completed
  BY DEF Unresolved
<1>2. \A k \in Jobs : st[k] = IF k = j THEN to ELSE base[k]
  OBVIOUS
<1>3. Unresolved(st) = IF to \in Completed THEN Unresolved(status) \ {j} ELSE Unresolved(status)
  BY <1>1, <1>2 DEF Unresolved
<1>4. Accepted = {k \in Jobs : st[k] # "none" \/ trims[k] > 0}
  BY <1>1, <1>2 DEF Accepted
<1> QED BY <1>3, <1>4, SavePromise

LEMMA SameCardinality == \A T : Promise!Cardinality(T) = Cardinality(T)
  BY DEF Promise!Cardinality, Cardinality

\* New jobs are taken.
LEMMA SaveNew ==
  ASSUME JournalInv, NEW S \in SUBSET Jobs, \A j \in S : status[j] = "none",
         NEW st \in [Jobs -> Status], Saved(st), Cardinality(Unresolved(st)) <= MaxPending,
         \A j \in Jobs : st[j] = IF j \in S THEN "pending" ELSE status[j],
         up, UNCHANGED <<up, disp>>
  PROVE  Promise!Accept(S)
<1>1. Unresolved(st) = Unresolved(status) \cup S
  BY DEF Unresolved, Completed
<1>2. {j \in Jobs : st[j] # "none" \/ trims[j] > 0} = Accepted \cup S
  BY DEF Accepted
<1>3. Unresolved(status)' = Unresolved(status) \cup S /\ Accepted' = Accepted \cup S
  BY <1>1, <1>2, SavePromise
<1>4. \E again \in SUBSET (S \cap Accepted) :
        Unresolved(status)' = Unresolved(status) \cup (S \ Accepted) \cup again
  <2> WITNESS S \cap Accepted \in SUBSET (S \cap Accepted)
  <2> QED BY <1>3
<1>5. Cardinality(Unresolved(status)') <= MaxPending
  BY <1>1, <1>3
<1>6. Held' = Held
  BY DEF Held
<1> QED BY <1>3, <1>4, <1>5, <1>6, SameCardinality
        DEF Promise!Accept, Promise!Fits, Accepted, Held
\* A step that changes nothing the loops can see.
LEMMA Unseen ==
  ASSUME Unresolved(status)' = Unresolved(status), Accepted' = Accepted,
         Held' = Held, up' = up
  PROVE  UNCHANGED Promise!intake
  BY DEF Promise!intake, Accepted, Held

LEMMA FileUnseen ==
  ASSUME UNCHANGED <<file, trims>>
  PROVE  Unresolved(status)' = Unresolved(status) /\ Accepted' = Accepted
  BY DEF file, Accepted, Unresolved

LEMMA HaltPromise ==
  ASSUME up, Halt, UNCHANGED <<file, trims>>
  PROVE  Promise!Stop
<1>1. Unresolved(status)' = Unresolved(status) /\ Accepted' = Accepted
  BY FileUnseen
<1>2. up' = FALSE /\ Held' = FALSE
  BY DEF Halt, Held
<1> QED BY <1>1, <1>2 DEF Promise!Stop, Accepted, Held

LEMMA AddMessagesPromise ==
  ASSUME JournalInv, NEW S \in SUBSET Messages, AddMessages(S)
  PROVE  [Promise!IntakeNext]_(Promise!intake)
<1> DEFINE st == [j \in Jobs |-> IF j \in New(S) THEN "pending" ELSE status[j]]
<1>1. CASE UNCHANGED journal
  <2>1. UNCHANGED <<file, trims>> /\ Held' = Held /\ up' = up
    BY <1>1 DEF journal, account, loop, Held
  <2> QED BY <2>1, FileUnseen, Unseen
<1>2. CASE ~UNCHANGED journal
  <2>1. /\ up /\ Save(jobs \o Sorted(New(S)), st) /\ UNCHANGED <<up, disp>>
    BY <1>2 DEF AddMessages
  <2>2. New(S) \in SUBSET Jobs /\ \A j \in New(S) : status[j] = "none"
    BY DEF New, Jobs
  <2>3. JournalTypeOK /\ st \in [Jobs -> Status]
    BY DEF JournalInv, JournalTypeOK, Status
  <2>4. \A j \in Jobs : st[j] = IF j \in New(S) THEN "pending" ELSE status[j]
    OBVIOUS
  <2> HIDE DEF st
  <2>5. Saved(st) /\ Cardinality(Unresolved(st)) <= MaxPending
    BY <2>1, <2>3, SaveFacts
  <2>6. PICK N \in SUBSET Jobs : N = New(S)
    BY <2>2
  <2>7. Promise!Accept(N)
    BY <2>1, <2>2, <2>3, <2>4, <2>5, <2>6, SaveNew
  <2> QED BY <2>7 DEF Promise!IntakeNext
<1> QED BY <1>1, <1>2

LEMMA AddHintPromise ==
  ASSUME JournalInv, NEW h \in Hints, AddHint(h)
  PROVE  [Promise!IntakeNext]_(Promise!intake)
<1> DEFINE st == [status EXCEPT ![h] = "pending"]
<1>0. JournalTypeOK /\ h \in Jobs /\ up /\ UNCHANGED <<up, disp>> /\ h \notin raised
  BY DEF JournalInv, Jobs, AddHint
<1>1. CASE UNCHANGED <<file, wake, trims>>
  BY <1>0, <1>1, FileUnseen, Unseen DEF Held
<1>2. CASE Save(Append(jobs, h), st)
  <2>1. st \in [Jobs -> Status]
    BY <1>0 DEF JournalTypeOK, Status
  <2>2. \A j \in Jobs : st[j] = IF j \in {h} THEN "pending" ELSE status[j]
    BY <1>0 DEF JournalTypeOK
  <2>3. {h} \in SUBSET Jobs /\ \A j \in {h} : status[j] = "none"
    BY <1>0, AccountFacts
  <2> HIDE DEF st
  <2>4. Promise!Accept({h})
    BY <1>0, <1>2, <2>1, <2>2, <2>3, SaveFacts, SaveNew
  <2> QED BY <2>3, <2>4 DEF Promise!IntakeNext
<1> QED BY <1>1, <1>2 DEF AddHint

LEMMA NextJobPromise ==
  ASSUME JournalInv, NextJob
  PROVE  [Promise!IntakeNext]_(Promise!intake)
<1>0. JournalTypeOK /\ up /\ up' = up /\ disp = "next"
  BY DEF JournalInv, NextJob
<1>1. ASSUME NEW j \in Jobs, Claimable(j), Save(jobs, [status EXCEPT ![j] = "running"]),
             disp' = "prepare"
      PROVE  Promise!Hold
  <2> DEFINE st == [status EXCEPT ![j] = "running"]
  <2>1. st \in [Jobs -> Status] /\ j \in Unresolved(status)
    BY <1>0, <1>1 DEF JournalTypeOK, Status, Claimable, Unresolved, Completed
  <2>2. Saved(st)
    BY <1>0, <1>1, <2>1, SaveFacts
  <2>3. status \in [Jobs -> Status] /\ "running" \in Status \ {"none"} /\ "running" \notin Completed
    BY <1>0 DEF JournalTypeOK, Status, Completed
  <2>4. Accepted' = Accepted /\ Unresolved(status)' = Unresolved(status)
    BY <2>1, <2>2, <2>3, SaveOne
  <2>5. ~Held /\ Held' = TRUE
    BY <1>0, <1>1 DEF Held
  <2> QED BY <1>0, <2>1, <2>4, <2>5 DEF Promise!Hold, Accepted, Held
<1>2. CASE disp' = "wait" /\ UNCHANGED <<file, trims>>
  <2>1. Held' = Held
    BY <1>0, <1>2 DEF Held
  <2> QED BY <1>0, <1>2, <2>1, FileUnseen, Unseen
<1> QED BY <1>1, <1>2 DEF NextJob, Promise!IntakeNext

\* The job in hand is done with, or its reply is on the way.
LEMMA UpdatePromise ==
  ASSUME JournalInv, NEW j \in cur, disp \notin {"next", "wait"}, NEW to \in Status \ {"none"},
         NEW step \in {"next", "sending"}, step = "sending" => to = "sending",
         Update(j, to, step)
  PROVE  [Promise!IntakeNext]_(Promise!intake)
<1> DEFINE st == [status EXCEPT ![j] = to]
<1>0. /\ JournalTypeOK /\ up /\ j \in Jobs /\ j \in Unresolved(status)
      /\ SaveJob(jobs, st, j) /\ disp' = step /\ up' = up
  BY HandFacts DEF JournalInv, Unresolved, Completed, Update
<1>1. st \in [Jobs -> Status] /\ status \in [Jobs -> Status]
  BY <1>0 DEF JournalTypeOK
<1>2. Saved(st)
  BY <1>0, <1>1, SaveJobFacts
<1>3. /\ Accepted' = Accepted
      /\ Unresolved(status)' =
           IF to \in Completed THEN Unresolved(status) \ {j} ELSE Unresolved(status)
  BY <1>0, <1>1, <1>2, SaveOne
<1>4. CASE step = "next"
  <2>1. Held /\ Held' = FALSE
    BY <1>0, <1>4 DEF Held
  <2>2. Promise!Resolve
    BY <1>0, <1>3 DEF Promise!Resolve, Accepted
  <2>3. Promise!Release
    BY <1>0, <2>1, <2>2 DEF Promise!Release, Held
  <2> QED BY <2>3 DEF Promise!IntakeNext
<1>5. CASE step = "sending"
  <2>1. Held' = Held /\ Unresolved(status)' = Unresolved(status)
    BY <1>0, <1>3, <1>5 DEF Held, Completed
  <2> QED BY <1>0, <1>3, <2>1, Unseen
<1> QED BY <1>4, <1>5

LEMMA DispatchPromise ==
  ASSUME JournalInv, Dispatch
  PROVE  [Promise!IntakeNext]_(Promise!intake)
<1>1. ASSUME NEW s \in DispState, UNCHANGED <<file, trims, up>>, disp' = s,
             s \in {"next", "wait"} <=> disp \in {"next", "wait"}
      PROVE  UNCHANGED Promise!intake
  <2>1. Held' = Held
    BY <1>1 DEF Held
  <2> QED BY <1>1, <2>1, FileUnseen, Unseen
<1>2. CASE Wake
  BY <1>1, <1>2 DEF Wake, account, DispState
<1>3. ASSUME NEW j \in cur, disp \in {"prepare", "agent"}, NEW s \in {"agent", "reply"}, Proceed(s)
      PROVE  UNCHANGED Promise!intake
  BY <1>1, <1>3 DEF Proceed, account, DispState
<1>4. ASSUME NEW j \in cur, PostReply(j) PROVE UNCHANGED Promise!intake
  BY <1>1, <1>4 DEF PostReply, DispState
<1>5. ASSUME NEW j \in cur, Prepare(j) \/ EndAgent(j)
      PROVE  [Promise!IntakeNext]_(Promise!intake)
  BY <1>3, <1>5, UpdatePromise DEF Prepare, EndAgent, Finish, Status, Completed, Waiting
<1>6. ASSUME NEW j \in cur, BeginReply(j) \/ RefuseReply(j) \/ EndReply(j)
      PROVE  [Promise!IntakeNext]_(Promise!intake)
  BY <1>6, UpdatePromise
  DEF BeginReply, RefuseReply, EndReply, Finish, Status, Completed, Waiting
<1> QED BY <1>2, <1>4, <1>5, <1>6, NextJobPromise DEF Dispatch

LEMMA StartPromise ==
  ASSUME JournalInv, StartWatch
  PROVE  Promise!Start
<1> DEFINE st == Recovered(status)
<1>0. JournalTypeOK /\ ~up /\ up' = TRUE /\ Save(jobs, st) /\ disp' = disp
  BY DEF JournalInv, StartWatch
<1>1. /\ st \in [Jobs -> Status]
      /\ \A j \in Jobs : /\ st[j] = "none" <=> status[j] = "none"
                         /\ st[j] \in Completed <=> status[j] \in Completed
  BY <1>0, RecoveredFacts DEF Completed
<1> HIDE DEF st
<1>2. Accepted' = Accepted /\ Unresolved(status)' = Unresolved(status)
  BY <1>0, <1>1, SaveFacts, SaveUnseen
<1>3. Held' = Held
  BY <1>0 DEF Held
<1> QED BY <1>0, <1>2, <1>3 DEF Promise!Start, Accepted, Held

LEMMA OperatePromise ==
  ASSUME JournalInv, Operate
  PROVE  Promise!Operator
<1> DEFINE rec == Recovered(status)
<1>1. PICK j \in Jobs, to \in Status \ {"none"} :
        /\ ~up /\ UNCHANGED <<up, disp>>
        /\ rec[j] \in Waiting
        /\ \E js : Save(js, [rec EXCEPT ![j] = to])
  <2>1. ASSUME NEW j \in Jobs, Retry(j)
        PROVE  /\ ~up /\ UNCHANGED <<up, disp>> /\ rec[j] \in Waiting
               /\ Save(jobs, [rec EXCEPT ![j] = "pending"])
    BY <2>1 DEF Retry, Command, loop, Waiting
  <2>2. ASSUME NEW j \in Jobs, NEW o \in Completed \cup {"failed"}, Reconcile(j, o)
        PROVE  /\ ~up /\ UNCHANGED <<up, disp>> /\ rec[j] \in Waiting
               /\ \E js : Save(js, [rec EXCEPT ![j] = o])
    BY <2>2 DEF Reconcile, Command, loop, SaveJob
  <2> QED BY <2>1, <2>2 DEF Operate, Status, Completed, Waiting
<1>2. JournalTypeOK
  BY DEF JournalInv
<1>3. /\ rec \in [Jobs -> Status]
      /\ \A k \in Jobs : /\ rec[k] = "none" <=> status[k] = "none"
                         /\ rec[k] \in Completed <=> status[k] \in Completed
      /\ j \in Unresolved(status)
  BY <1>1, <1>2, RecoveredFacts DEF Completed, Waiting, Unresolved
<1> HIDE DEF rec
<1> DEFINE st == [rec EXCEPT ![j] = to]
<1>4. st \in [Jobs -> Status]
  BY <1>3
<1>5. Saved(st)
  BY <1>1, <1>2, <1>4, SaveFacts
<1>6. /\ Accepted' = Accepted
      /\ Unresolved(status)' =
           IF to \in Completed THEN Unresolved(status) \ {j} ELSE Unresolved(status)
  BY <1>3, <1>4, <1>5, SaveOne
<1>7. Promise!Resolve
  BY <1>1, <1>3, <1>6 DEF Promise!Resolve, Accepted
<1>8. Held' = Held
  BY <1>1 DEF Held
<1> QED BY <1>1, <1>7, <1>8 DEF Promise!Operator, Held

\* The journal keeps its promise to the loops that fill it (JournalIntake): a
\* batch is taken as a whole or not at all, no unresolved job is lost by a save
\* or a restart, and there are never more than MaxPending of them.
THEOREM JournalKeepsPromise == JournalSpec => PromiseKept
<1>1. JournalInit => Promise!IntakeInit
  <2> SUFFICES ASSUME JournalInit PROVE Promise!IntakeInit
    OBVIOUS
  <2>1. Accepted = {} /\ Unresolved(status) = {} /\ Held = FALSE /\ up = TRUE
    BY DEF JournalInit, Accepted, Unresolved, Held
  <2> QED BY <2>1 DEF Promise!IntakeInit, Accepted, Held
<1>2. JournalInv /\ [JournalNext]_journal => [Promise!IntakeNext]_(Promise!intake)
  <2> SUFFICES ASSUME JournalInv, [JournalNext]_journal
               PROVE  [Promise!IntakeNext]_(Promise!intake)
    OBVIOUS
  <2>1. CASE UNCHANGED journal
    <3>1. UNCHANGED <<file, trims>> /\ Held' = Held /\ up' = up
      BY <2>1 DEF journal, account, loop, Held
    <3> QED BY <3>1, FileUnseen, Unseen
  <2>2. ASSUME NEW S \in SUBSET {m \in Messages : trims[m] <= MaxAgain}, AddMessages(S)
        PROVE  [Promise!IntakeNext]_(Promise!intake)
    BY <2>2, AddMessagesPromise
  <2>3. ASSUME NEW h \in Hints, AddHintFails(h) PROVE Promise!Stop
    BY <2>3, HaltPromise DEF AddHintFails, account
  <2>4. CASE StopWatch
    BY <2>4, HaltPromise DEF StopWatch, account, Promise!IntakeNext
  <2>5. CASE StartWatch
    BY <2>5, StartPromise DEF Promise!IntakeNext
  <2>6. CASE Operate
    BY <2>6, OperatePromise DEF Promise!IntakeNext
  <2> QED BY <2>1, <2>2, <2>3, <2>4, <2>5, <2>6, AddHintPromise, DispatchPromise
          DEF JournalNext, Promise!IntakeNext
<1> QED BY <1>1, <1>2, JournalInvariant, PTL DEF JournalSpec, PromiseKept, Promise!IntakeSpec

=============================================================================
