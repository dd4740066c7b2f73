--------------------------- MODULE RelationsProofs ---------------------------
(***************************************************************************)
(* The relation tables for any number of agents and overlapping calls:     *)
(* friendship rows stay symmetric, two agents never have requests pending  *)
(* with each other, and an open Unfriend keeps the rows it locked.  While   *)
(* calls come one at a time accepted requests are friendships; as long as   *)
(* nothing has failed either, the cached sets agree with the tables and     *)
(* blocks are enforced.                                                    *)
(***************************************************************************)
EXTENDS Relations, TLAPS

\* The cached sets, by name wherever a step leaves some of them alone.
USE DEF caches, friendCache, blockCache, DropFriendSet

LEMMA RevFacts ==
  ASSUME NEW p \in Pairs
  PROVE  Rev(p) \in Pairs /\ Rev(Rev(p)) = p /\ Rev(p) # p
  BY DEF Pairs, Rev

LEMMA BothFacts ==
  ASSUME NEW p \in Pairs, NEW q \in Pairs
  PROVE  Both(p) \subseteq Pairs /\ (q \in Both(p) <=> Rev(q) \in Both(p))
  BY DEF Pairs, Rev, Both

\* A call that returns leaves the types of the locals right.
LEMMA ReturnType ==
  ASSUME TypeOK, NEW c \in Calls, Return(c)
  PROVE  /\ pc' \in [Calls -> Steps]
         /\ job' \in [Calls -> Job \cup {NoJob}]
         /\ \A d \in Calls : pc'[d] # "idle" => job'[d] \in Job
         /\ snap' \in [Calls -> SUBSET Agents]
         /\ held' \in [Calls -> SUBSET Pairs]
  BY DEF Return, Goto, TypeOK, Steps

\* So does a call that goes on with its locals unchanged.
LEMMA GotoType ==
  ASSUME TypeOK, NEW c \in Calls, NEW s \in Steps, Goto(c, s), pc[c] # "idle", UNCHANGED Locals
  PROVE  /\ pc' \in [Calls -> Steps]
         /\ job' \in [Calls -> Job \cup {NoJob}]
         /\ \A d \in Calls : pc'[d] # "idle" => job'[d] \in Job
         /\ snap' \in [Calls -> SUBSET Agents]
         /\ held' \in [Calls -> SUBSET Pairs]
  BY DEF Goto, TypeOK, Locals

\* What an answer, positive or negative, does to the call.
AnswerEffect(c) ==
  \/ Return(c)
  \/ /\ job[c].check < 3
     /\ job' = [job EXCEPT ![c].check = @ + 1]
     /\ Goto(c, "exists") /\ UNCHANGED <<snap, held>>
  \/ Goto(c, "tx") /\ UNCHANGED Locals

LEMMA AnswersHaveEffect ==
  ASSUME NEW c, IsMember(c) \/ CheckFails(c)
  PROVE  AnswerEffect(c)
<1>1. CASE IsMember(c)
  BY <1>1 DEF IsMember, Answer, AnswerEffect
<1>2. CASE CheckFails(c)
  BY <1>2 DEF CheckFails, Answer, AnswerEffect
<1> QED BY <1>1, <1>2

LEMMA AnswerType ==
  ASSUME TypeOK, NEW c \in Calls, AnswerEffect(c), pc[c] # "idle"
  PROVE  /\ pc' \in [Calls -> Steps]
         /\ job' \in [Calls -> Job \cup {NoJob}]
         /\ \A d \in Calls : pc'[d] # "idle" => job'[d] \in Job
         /\ snap' \in [Calls -> SUBSET Agents]
         /\ held' \in [Calls -> SUBSET Pairs]
<1>1. CASE Return(c)
  BY <1>1, ReturnType
<1>2. CASE /\ job[c].check < 3
           /\ job' = [job EXCEPT ![c].check = @ + 1]
           /\ Goto(c, "exists") /\ UNCHANGED <<snap, held>>
  <2>1. job[c] \in Job
    BY DEF TypeOK
  <2>2. [job[c] EXCEPT !.check = @ + 1] \in Job
    BY <1>2, <2>1 DEF Job
  <2>3. job' = [job EXCEPT ![c] = [job[c] EXCEPT !.check = @ + 1]]
    BY <1>2
  <2> QED BY <1>2, <2>2, <2>3 DEF TypeOK, Goto, Steps
<1>3. CASE Goto(c, "tx") /\ UNCHANGED Locals
  BY <1>3, GotoType DEF Steps
<1> QED BY <1>1, <1>2, <1>3 DEF AnswerEffect

\* The agents of a call in progress.
LEMMA JobFacts ==
  ASSUME TypeOK, NEW c \in Calls, pc[c] # "idle"
  PROVE  /\ job[c] \in Job
         /\ job[c].pair \in Pairs
         /\ job[c].pair[1] \in Agents /\ job[c].pair[2] \in Agents
         /\ Owner(job[c]) \in Agents
         /\ Both(job[c].pair) \subseteq Pairs
<1>1. job[c] \in Job /\ job[c].pair \in Pairs
  BY DEF TypeOK, Job
<1>2. job[c].pair[1] \in Agents /\ job[c].pair[2] \in Agents
  BY <1>1 DEF Pairs
<1> QED BY <1>1, <1>2, BothFacts DEF Owner

\* A call in its checks, or after its transaction, leaves the tables alone; it
\* holds no rows, so an open Unfriend keeps its own.
LEMMA TablesUnchanged ==
  ASSUME TablesInv, TypeOK', UNCHANGED database, NEW c \in Calls,
         pc[c] \notin {"update", "commit"}, pc'[c] \notin {"update", "commit"},
         held'[c] \in {held[c], {}},
         \A d \in Calls : d # c => pc'[d] = pc[d] /\ job'[d] = job[d] /\ held'[d] = held[d]
  PROVE  TablesInv'
<1>1. FriendSymmetry' /\ NoMutualPending'
  BY DEF TablesInv, database, FriendSymmetry, NoMutualPending
<1>2. UnfriendOwnsRows'
  BY DEF TablesInv, UnfriendOwnsRows, database
<1> QED BY <1>1, <1>2 DEF TablesInv

LEMMA CheckTypes ==
  ASSUME TypeOK, NEW c \in Calls, CheckStep(c)
  PROVE  TypeOK'
<1>1. CASE CheckExists(c)
  <2>1. pc[c] # "idle" /\ UNCHANGED Locals
    BY <1>1 DEF CheckExists
  <2>2. \E s \in Steps : Goto(c, s)
    BY <1>1 DEF CheckExists, Steps
  <2> QED BY <1>1, <2>1, <2>2, GotoType DEF CheckExists, TypeOK, database, caches, Bounds
<1>2. CASE LoadSet(c)
  BY <1>2 DEF LoadSet, Goto, TypeOK, Steps, Loaded, database, caches, Bounds
<1>3. CASE ReplaceSet(c)
  <2>1. pc[c] # "idle" /\ Goto(c, "member") /\ "member" \in Steps /\ UNCHANGED Locals
    BY <1>3 DEF ReplaceSet, Steps
  <2>2. Owner(job[c]) \in Agents
    BY <2>1, JobFacts
  <2>3. /\ friendSet' \in [Agents -> SUBSET Agents]
        /\ blockSet' \in [Agents -> SUBSET Agents]
        /\ friendTTL' \subseteq Agents /\ blockTTL' \subseteq Agents
    BY <1>3, <2>2 DEF ReplaceSet, TypeOK
  <2> QED BY <1>3, <2>1, <2>3, GotoType DEF ReplaceSet, TypeOK, database, Bounds
<1>4. CASE IsMember(c)
  <2>1. AnswerEffect(c)
    BY <1>4, AnswersHaveEffect
  <2> QED BY <1>4, <2>1, AnswerType DEF IsMember, TypeOK, database, caches, Bounds
<1>5. CASE CheckFails(c)
  <2>1. AnswerEffect(c)
    BY <1>5, AnswersHaveEffect
  <2>2. faults' \in 0..MaxFaults
    BY <1>5, BoundsAssumption DEF CheckFails, TypeOK
  <2> QED BY <1>5, <2>1, <2>2, AnswerType DEF CheckFails, TypeOK, database, caches, Bounds
<1> QED BY <1>1, <1>2, <1>3, <1>4, <1>5 DEF CheckStep

\* A check changes no local but those of its own call, and opens no Unfriend.
LEMMA CheckLocals ==
  ASSUME TypeOK, NEW c \in Calls, CheckStep(c)
  PROVE  /\ UNCHANGED database
         /\ pc[c] \notin {"update", "commit"} /\ pc'[c] \notin {"update", "commit"}
         /\ held'[c] \in {held[c], {}}
         /\ \A d \in Calls : d # c => pc'[d] = pc[d] /\ job'[d] = job[d] /\ held'[d] = held[d]
<1>1. CASE CheckExists(c) \/ LoadSet(c) \/ ReplaceSet(c)
  BY <1>1 DEF CheckExists, LoadSet, ReplaceSet, Goto, Locals, TypeOK
<1>2. CASE IsMember(c) \/ CheckFails(c)
  <2>1. AnswerEffect(c)
    BY <1>2, AnswersHaveEffect
  <2>2. CASE Return(c)
    BY <1>2, <2>2 DEF IsMember, CheckFails, Return, Goto, TypeOK
  <2>3. CASE job' = [job EXCEPT ![c].check = @ + 1] /\ Goto(c, "exists") /\ UNCHANGED <<snap, held>>
    BY <1>2, <2>3 DEF IsMember, CheckFails, Goto, TypeOK
  <2>4. CASE Goto(c, "tx") /\ UNCHANGED Locals
    BY <1>2, <2>4 DEF IsMember, CheckFails, Goto, Locals, TypeOK
  <2> QED BY <2>1, <2>2, <2>3, <2>4 DEF AnswerEffect
<1> QED BY <1>1, <1>2 DEF CheckStep

LEMMA CacheTypes ==
  ASSUME TypeOK, NEW c \in Calls, CacheStep(c)
  PROVE  TypeOK'
<1>0. pc[c] # "idle"
  BY DEF CacheStep, AddBlocked, RemoveBlocked, InvalidateFrom, InvalidateTo, CacheWriteFails
<1>1. CASE AddBlocked(c)
  <2>1. blockSet' \in [Agents -> SUBSET Agents]
    BY <1>0, <1>1, JobFacts DEF AddBlocked, TypeOK
  <2> QED BY <1>0, <1>1, <2>1, GotoType DEF AddBlocked, TypeOK, Steps, database, Bounds
<1>2. CASE RemoveBlocked(c)
  <2>1. blockSet' \in [Agents -> SUBSET Agents] /\ blockTTL' \subseteq Agents
    BY <1>0, <1>2, JobFacts DEF RemoveBlocked, TypeOK
  <2> QED BY <1>2, <2>1, ReturnType DEF RemoveBlocked, TypeOK, database, Bounds
<1>3. CASE InvalidateFrom(c)
  BY <1>0, <1>3, JobFacts, GotoType DEF InvalidateFrom, TypeOK, Steps, database, Bounds
<1>4. CASE InvalidateTo(c)
  BY <1>0, <1>4, JobFacts, ReturnType DEF InvalidateTo, TypeOK, database, Bounds
<1>5. CASE CacheWriteFails(c)
  <2>1. faults' \in 0..MaxFaults
    BY <1>5, BoundsAssumption DEF CacheWriteFails, TypeOK
  <2>2. CASE Return(c)
    BY <1>5, <2>1, <2>2, ReturnType DEF CacheWriteFails, TypeOK, database, caches
  <2>3. CASE \E s \in Steps : Goto(c, s) /\ UNCHANGED Locals
    BY <1>0, <1>5, <2>1, <2>3, GotoType DEF CacheWriteFails, TypeOK, database, caches
  <2> QED BY <1>5, <2>2, <2>3 DEF CacheWriteFails, Steps
<1> QED BY <1>1, <1>2, <1>3, <1>4, <1>5 DEF CacheStep

LEMMA CacheLocals ==
  ASSUME TypeOK, NEW c \in Calls, CacheStep(c)
  PROVE  /\ UNCHANGED database
         /\ pc[c] \notin {"update", "commit"} /\ pc'[c] \notin {"update", "commit"}
         /\ held'[c] \in {held[c], {}}
         /\ \A d \in Calls : d # c => pc'[d] = pc[d] /\ job'[d] = job[d] /\ held'[d] = held[d]
<1>1. CASE AddBlocked(c) \/ InvalidateFrom(c)
  BY <1>1 DEF AddBlocked, InvalidateFrom, Goto, Locals, TypeOK
<1>2. CASE RemoveBlocked(c) \/ InvalidateTo(c)
  BY <1>2 DEF RemoveBlocked, InvalidateTo, Return, Goto, TypeOK
<1>3. CASE CacheWriteFails(c)
  BY <1>3 DEF CacheWriteFails, Return, Goto, Locals, TypeOK
<1> QED BY <1>1, <1>2, <1>3 DEF CacheStep

\* Adding or removing both rows of a pair keeps friendships symmetric.
LEMMA SymmetryKept ==
  ASSUME FriendSymmetry, friend \subseteq Pairs, NEW p \in Pairs,
         friend' \in {friend, friend \cup Both(p), friend \ Both(p)}
  PROVE  FriendSymmetry'
<1> SUFFICES ASSUME NEW q \in friend' PROVE Rev(q) \in friend'
  BY DEF FriendSymmetry
<1>1. q \in Pairs
  BY BothFacts
<1>2. q \in friend => Rev(q) \in friend
  BY DEF FriendSymmetry
<1>3. q \in Both(p) <=> Rev(q) \in Both(p)
  BY <1>1, BothFacts
<1> QED BY <1>2, <1>3

LEMMA SendTxStep ==
  ASSUME TablesInv, NEW c \in Calls, SendTx(c)
  PROVE  TablesInv'
<1> DEFINE out == job[c].pair
           in == Rev(out)
<1>0. TypeOK /\ pc[c] = "tx"
  BY DEF TablesInv, SendTx
<1>1. out \in Pairs /\ in \in Pairs /\ Rev(in) = out /\ in # out /\ Both(out) = {out, in}
  BY <1>0, JobFacts, RevFacts DEF Both
<1>2. held[c] = {}
  BY <1>0 DEF TablesInv, UnfriendOwnsRows
<1>a. CASE /\ req[in] = "pending" /\ out \notin friend
           /\ req' = [req EXCEPT ![in] = "accepted"]
           /\ friend' = friend \cup Both(out)
           /\ Goto(c, "drop1") /\ UNCHANGED Locals
  <2>1. TypeOK'
    <3>1. req' \in [Pairs -> Status] /\ friend' \subseteq Pairs
      BY <1>0, <1>1, <1>a DEF TypeOK, Status
    <3> QED BY <1>0, <1>a, <3>1, GotoType DEF SendTx, TypeOK, Steps, caches, Bounds
  <2>2. FriendSymmetry'
    BY <1>0, <1>1, <1>a, SymmetryKept DEF TablesInv, TypeOK
  <2>3. NoMutualPending'
    BY <1>0, <1>1, <1>a DEF TablesInv, NoMutualPending, TypeOK
  <2>4. UnfriendOwnsRows'
    BY <1>0, <1>1, <1>2, <1>a DEF TablesInv, UnfriendOwnsRows, TypeOK, Goto, Locals
  <2> QED BY <2>1, <2>2, <2>3, <2>4 DEF TablesInv
<1>b. CASE Return(c) /\ UNCHANGED <<friend, req>>
  <2>1. TypeOK'
    BY <1>0, <1>b, ReturnType DEF SendTx, TypeOK, caches, Bounds
  <2>2. pc'[c] = "idle" /\ held'[c] = {}
        /\ \A d \in Calls : d # c => pc'[d] = pc[d] /\ job'[d] = job[d] /\ held'[d] = held[d]
    BY <1>0, <1>b DEF Return, Goto, TypeOK
  <2> QED BY <1>0, <1>b, <2>1, <2>2, TablesUnchanged DEF SendTx, database
<1>c. CASE /\ req[in] # "pending" /\ ~RowLocked(out)
           /\ req' = [req EXCEPT ![out] = "pending"]
           /\ Goto(c, "drop1") /\ UNCHANGED <<friend, Locals>>
  <2>1. TypeOK'
    <3>1. req' \in [Pairs -> Status]
      BY <1>0, <1>1, <1>c DEF TypeOK, Status
    <3> QED BY <1>0, <1>c, <3>1, GotoType DEF SendTx, TypeOK, Steps, caches, Bounds
  <2>2. FriendSymmetry'
    BY <1>c DEF TablesInv, FriendSymmetry
  <2>3. NoMutualPending'
    <3> SUFFICES ASSUME NEW q \in Pairs PROVE ~(req'[q] = "pending" /\ req'[Rev(q)] = "pending")
      BY DEF NoMutualPending
    <3>1. CASE q = out
      BY <1>0, <1>1, <1>c, <3>1 DEF TypeOK
    <3>2. CASE q = in
      BY <1>0, <1>1, <1>c, <3>2 DEF TypeOK
    <3>3. CASE q # out /\ q # in
      <4>1. Rev(q) # out /\ Rev(q) \in Pairs
        BY <1>1, <3>3, RevFacts
      <4> QED BY <1>0, <1>c, <3>3, <4>1 DEF TablesInv, NoMutualPending, TypeOK
    <3> QED BY <3>1, <3>2, <3>3
  <2>4. UnfriendOwnsRows'
    BY <1>0, <1>1, <1>2, <1>c
    DEF TablesInv, UnfriendOwnsRows, RowLocked, TypeOK, Goto, Locals
  <2> QED BY <2>1, <2>2, <2>3, <2>4 DEF TablesInv
<1> QED BY <1>a, <1>b, <1>c DEF SendTx

\* A call that returns with the tables unchanged, from whatever step.
LEMMA ReturnKeeps ==
  ASSUME TablesInv, NEW c \in Calls, Return(c), UNCHANGED <<database, caches, Bounds>>
  PROVE  TablesInv'
<1>0. TypeOK
  BY DEF TablesInv
<1>1. TypeOK'
  BY <1>0, ReturnType DEF TypeOK, database, caches, Bounds
<1>2. FriendSymmetry' /\ NoMutualPending'
  BY DEF TablesInv, FriendSymmetry, NoMutualPending, database
<1>3. /\ pc'[c] = "idle" /\ held'[c] = {}
      /\ \A d \in Calls : d # c => pc'[d] = pc[d] /\ job'[d] = job[d] /\ held'[d] = held[d]
  BY <1>0 DEF Return, Goto, TypeOK
<1>4. UnfriendOwnsRows'
  BY <1>3 DEF TablesInv, UnfriendOwnsRows, database
<1> QED BY <1>1, <1>2, <1>4 DEF TablesInv

LEMMA HandleTxStep ==
  ASSUME TablesInv, NEW c \in Calls, HandleTx(c)
  PROVE  TablesInv'
<1> DEFINE p == job[c].pair
<1>0. TypeOK /\ pc[c] = "tx"
  BY DEF TablesInv, HandleTx
<1>1. p \in Pairs /\ Both(p) \subseteq Pairs
  BY <1>0, JobFacts
<1>2. held[c] = {}
  BY <1>0 DEF TablesInv, UnfriendOwnsRows
<1>a. CASE Return(c) /\ UNCHANGED <<friend, req>>
  BY <1>a, ReturnKeeps DEF HandleTx, database
<1>b. CASE /\ req[p] = "pending"
           /\ \E st \in {"accepted", "rejected", "cancelled"} : req' = [req EXCEPT ![p] = st]
           /\ friend' \in {friend, friend \cup Both(p)}
           /\ Goto(c, "drop1") /\ UNCHANGED Locals
  <2>0. PICK st \in {"accepted", "rejected", "cancelled"} : req' = [req EXCEPT ![p] = st]
    BY <1>b
  <2>1. TypeOK'
    <3>1. req' \in [Pairs -> Status] /\ friend' \subseteq Pairs
      BY <1>0, <1>1, <1>b, <2>0 DEF TypeOK, Status
    <3> QED BY <1>0, <1>b, <3>1, GotoType DEF HandleTx, TypeOK, Steps, caches, Bounds
  <2>2. FriendSymmetry'
    BY <1>0, <1>1, <1>b, SymmetryKept DEF TablesInv, TypeOK
  <2>3. NoMutualPending'
    BY <1>0, <1>1, <2>0, RevFacts DEF TablesInv, NoMutualPending, TypeOK
  <2>4. UnfriendOwnsRows'
    BY <1>0, <1>1, <1>2, <1>b, <2>0 DEF TablesInv, UnfriendOwnsRows, TypeOK, Goto, Locals
  <2> QED BY <2>1, <2>2, <2>3, <2>4 DEF TablesInv
<1>c. CASE /\ req[p] = "pending" /\ job[c].op = "accept"
           /\ req' = [req EXCEPT ![p] = "accepted"]
           /\ friend' = friend \cup Both(p)
           /\ Goto(c, "drop1") /\ UNCHANGED Locals
  BY <1>b, <1>c
<1>d. CASE /\ req[p] = "pending"
           /\ req' = [req EXCEPT ![p] = IF job[c].op = "reject" THEN "rejected" ELSE "cancelled"]
           /\ Goto(c, "drop1") /\ UNCHANGED <<friend, Locals>>
  BY <1>b, <1>d
<1> QED BY <1>a, <1>c, <1>d DEF HandleTx

LEMMA UnfriendDeleteStep ==
  ASSUME TablesInv, NEW c \in Calls, UnfriendDelete(c)
  PROVE  TablesInv'
<1> DEFINE p == job[c].pair
<1>0. TypeOK /\ pc[c] = "tx"
  BY DEF TablesInv, UnfriendDelete
<1>a. CASE Return(c)
  BY <1>a, ReturnKeeps DEF UnfriendDelete
<1>b. CASE p \in friend /\ Goto(c, "update") /\ UNCHANGED Locals
  <2>1. TypeOK'
    BY <1>0, <1>b, GotoType DEF UnfriendDelete, TypeOK, Steps, database, caches, Bounds
  <2>2. FriendSymmetry' /\ NoMutualPending'
    BY DEF TablesInv, FriendSymmetry, NoMutualPending, UnfriendDelete, database
  <2>3. /\ held[c] = {} /\ pc'[c] = "update"
        /\ \A d \in Calls : d # c => pc'[d] = pc[d]
        /\ UNCHANGED <<job, held, friend, req>>
    BY <1>0, <1>b DEF Goto, TypeOK, TablesInv, UnfriendOwnsRows, Locals, UnfriendDelete, database
  <2>4. \A d \in Calls : pc[d] \in {"update", "commit"} =>
          job[d].pair \notin Both(p) /\ p \notin Both(job[d].pair)
    <3> SUFFICES ASSUME NEW d \in Calls, pc[d] \in {"update", "commit"}
                 PROVE  job[d].pair \notin Both(p) /\ p \notin Both(job[d].pair)
      OBVIOUS
    <3>1. job[d].pair \notin Both(p)
      BY DEF UnfriendDelete, Unfriending
    <3>2. job[d].pair \in Pairs /\ p \in Pairs
      BY <1>0, JobFacts
    <3> QED BY <3>1, <3>2, RevFacts DEF Both
  <2>5. UnfriendOwnsRows'
    BY <1>b, <2>3, <2>4 DEF TablesInv, UnfriendOwnsRows
  <2> QED BY <2>1, <2>2, <2>5 DEF TablesInv
<1> QED BY <1>a, <1>b DEF UnfriendDelete

LEMMA UnfriendUpdateStep ==
  ASSUME TablesInv, NEW c \in Calls, UnfriendUpdate(c)
  PROVE  TablesInv'
<1>0. TypeOK /\ pc[c] = "update"
  BY DEF TablesInv, UnfriendUpdate
<1>1. Both(job[c].pair) \subseteq Pairs
  BY <1>0, JobFacts
<1>2. TypeOK'
  BY <1>0, <1>1 DEF UnfriendUpdate, TypeOK, Goto, Steps, database, caches, Bounds
<1>3. FriendSymmetry' /\ NoMutualPending'
  BY DEF TablesInv, FriendSymmetry, NoMutualPending, UnfriendUpdate, database
<1>4. UnfriendOwnsRows'
  BY <1>0 DEF TablesInv, UnfriendOwnsRows, UnfriendUpdate, TypeOK, Goto, database
<1> QED BY <1>2, <1>3, <1>4 DEF TablesInv

LEMMA UnfriendCommitStep ==
  ASSUME TablesInv, NEW c \in Calls, UnfriendCommit(c)
  PROVE  TablesInv'
<1> DEFINE p == job[c].pair
<1>0. TypeOK /\ pc[c] = "commit"
  BY DEF TablesInv, UnfriendCommit
<1>1. p \in Pairs
  BY <1>0, JobFacts
<1>2. TypeOK'
  <2>1. friend' \subseteq Pairs /\ req' \in [Pairs -> Status]
    BY <1>0 DEF UnfriendCommit, TypeOK, Status
  <2> QED BY <1>0, <2>1 DEF UnfriendCommit, TypeOK, Goto, Steps, caches, Bounds
<1>3. FriendSymmetry'
  BY <1>0, <1>1, SymmetryKept DEF TablesInv, TypeOK, UnfriendCommit
<1>4. NoMutualPending'
  BY RevFacts DEF TablesInv, NoMutualPending, UnfriendCommit
<1>5. /\ pc'[c] = "drop1" /\ held'[c] = {} /\ job' = job
      /\ \A d \in Calls : d # c => pc'[d] = pc[d] /\ held'[d] = held[d]
  BY <1>0 DEF UnfriendCommit, Goto, TypeOK
<1>6. ASSUME NEW d \in Calls, d # c, pc[d] \in {"update", "commit"}
      PROVE  job[d].pair \in friend' /\ (\A q \in held[d] : req'[q] = "accepted")
  <2>1. job[d].pair \in Pairs /\ job[d].pair \notin Both(p)
    BY <1>0, <1>6, JobFacts DEF TablesInv, UnfriendOwnsRows
  <2>2. \A q \in held[d] : q \in Pairs /\ q \notin Both(p)
    <3> SUFFICES ASSUME NEW q \in held[d] PROVE q \in Pairs /\ q \notin Both(p)
      OBVIOUS
    <3>1. q \in Pairs /\ q \in Both(job[d].pair)
      BY <1>0 DEF TablesInv, UnfriendOwnsRows, TypeOK
    <3> QED BY <1>1, <2>1, <3>1, RevFacts DEF Both
  <2>3. job[d].pair \in friend
    BY <1>6 DEF TablesInv, UnfriendOwnsRows
  <2>4. \A q \in held[c] : q \in Both(p)
    BY DEF TablesInv, UnfriendOwnsRows
  <2> QED BY <2>1, <2>2, <2>3, <2>4 DEF TablesInv, UnfriendOwnsRows, UnfriendCommit
<1>7. UnfriendOwnsRows'
  BY <1>5, <1>6 DEF TablesInv, UnfriendOwnsRows
<1> QED BY <1>2, <1>3, <1>4, <1>7 DEF TablesInv

LEMMA BlockTxStep ==
  ASSUME TablesInv, NEW c \in Calls, BlockTx(c)
  PROVE  TablesInv'
<1> DEFINE p == job[c].pair
<1>0. TypeOK /\ pc[c] = "tx"
  BY DEF TablesInv, BlockTx
<1>1. p \in Pairs /\ Both(p) \subseteq Pairs
  BY <1>0, JobFacts
<1>a. CASE Return(c) /\ UNCHANGED database
  BY <1>a, ReturnKeeps DEF BlockTx
<1>b. CASE /\ ~Unfriending(p)
           /\ block' = block \cup {p}
           /\ friend' = friend \ Both(p)
           /\ req' = [q \in Pairs |-> IF q \in Both(p) THEN Severed(req[q]) ELSE req[q]]
           /\ Goto(c, "sadd") /\ UNCHANGED Locals
  <2>0. \A q \in Pairs : req'[q] \in Status /\ (req'[q] = "pending" => req[q] = "pending")
    BY <1>0, <1>b DEF TypeOK, Severed, Status
  <2>1. TypeOK'
    <3>1. req' \in [Pairs -> Status] /\ friend' \subseteq Pairs /\ block' \subseteq Pairs
      BY <1>0, <1>1, <1>b, <2>0 DEF TypeOK
    <3> QED BY <1>0, <1>b, <3>1, GotoType DEF BlockTx, TypeOK, Steps, caches, Bounds
  <2>2. FriendSymmetry'
    BY <1>0, <1>1, <1>b, SymmetryKept DEF TablesInv, TypeOK
  <2>3. NoMutualPending'
    BY <2>0, RevFacts DEF TablesInv, NoMutualPending
  <2>4. /\ pc'[c] = "sadd" /\ held[c] = {} /\ UNCHANGED <<job, held>>
        /\ \A d \in Calls : d # c => pc'[d] = pc[d]
    BY <1>0, <1>b DEF Goto, TypeOK, Locals, TablesInv, UnfriendOwnsRows
  <2>5. ASSUME NEW d \in Calls, d # c, pc[d] \in {"update", "commit"}
        PROVE  job[d].pair \in friend' /\ (\A q \in held[d] : req'[q] = "accepted")
    <3>1. job[d].pair \in Pairs /\ job[d].pair \notin Both(p)
      BY <1>0, <1>b, <2>5, JobFacts DEF Unfriending
    <3>2. \A q \in held[d] : q \in Pairs /\ q \notin Both(p)
      <4> SUFFICES ASSUME NEW q \in held[d] PROVE q \in Pairs /\ q \notin Both(p)
        OBVIOUS
      <4>1. q \in Pairs /\ q \in Both(job[d].pair)
        BY <1>0 DEF TablesInv, UnfriendOwnsRows, TypeOK
      <4> QED BY <1>1, <3>1, <4>1, RevFacts DEF Both
    <3>3. job[d].pair \in friend
      BY <2>5 DEF TablesInv, UnfriendOwnsRows
    <3> QED BY <1>b, <3>1, <3>2, <3>3 DEF TablesInv, UnfriendOwnsRows
  <2>6. UnfriendOwnsRows'
    BY <2>4, <2>5 DEF TablesInv, UnfriendOwnsRows
  <2> QED BY <2>1, <2>2, <2>3, <2>6 DEF TablesInv
<1> QED BY <1>a, <1>b DEF BlockTx

LEMMA UnblockTxStep ==
  ASSUME TablesInv, NEW c \in Calls, UnblockTx(c)
  PROVE  TablesInv'
<1> DEFINE p == job[c].pair
<1>0. TypeOK /\ pc[c] = "tx"
  BY DEF TablesInv, UnblockTx
<1>1. p \in Pairs /\ Rev(p) \in Pairs
  BY <1>0, JobFacts, RevFacts
<1>a. CASE Return(c) /\ UNCHANGED database
  BY <1>a, ReturnKeeps DEF UnblockTx
<1>b. CASE /\ block' = block \ {p}
           /\ req' = IF req[Rev(p)] = "pending" THEN [req EXCEPT ![Rev(p)] = "cancelled"] ELSE req
           /\ Goto(c, "srem") /\ UNCHANGED <<friend, Locals>>
  <2>0. /\ req' \in [Pairs -> Status]
        /\ \A q \in Pairs : (req'[q] = "pending" => req[q] = "pending")
                           /\ (req[q] = "accepted" => req'[q] = "accepted")
    BY <1>0, <1>1, <1>b DEF TypeOK, Status
  <2>1. TypeOK'
    BY <1>0, <1>b, <2>0, GotoType DEF UnblockTx, TypeOK, Steps, caches, Bounds
  <2>2. FriendSymmetry'
    BY <1>b DEF TablesInv, FriendSymmetry
  <2>3. NoMutualPending'
    BY <2>0, RevFacts DEF TablesInv, NoMutualPending
  <2>4. /\ pc'[c] = "srem" /\ held[c] = {} /\ UNCHANGED <<job, held, friend>>
        /\ \A d \in Calls : d # c => pc'[d] = pc[d]
    BY <1>0, <1>b DEF Goto, TypeOK, Locals, TablesInv, UnfriendOwnsRows
  <2>5. UnfriendOwnsRows'
    BY <1>0, <2>0, <2>4 DEF TablesInv, UnfriendOwnsRows, TypeOK
  <2> QED BY <2>1, <2>2, <2>3, <2>5 DEF TablesInv
<1> QED BY <1>a, <1>b DEF UnblockTx

LEMMA BeginStep ==
  ASSUME TablesInv, NEW c \in Calls, NEW op \in Ops, NEW p \in Pairs, Begin(c, op, p)
  PROVE  TablesInv'
<1>0. TypeOK /\ pc[c] = "idle"
  BY DEF TablesInv, Begin
<1>1. [op |-> op, pair |-> p, check |-> 1] \in Job
  BY DEF Job
<1>2. calls' \in 0..MaxCalls
  BY <1>0, BoundsAssumption DEF Begin, TypeOK
<1>3. TypeOK'
  <2>1. overlapped' \in BOOLEAN
    BY <1>0 DEF Begin, TypeOK
  <2>2. /\ pc' \in [Calls -> Steps]
        /\ job' \in [Calls -> Job \cup {NoJob}]
        /\ (\A d \in Calls : pc[d] # "idle" => job[d] \in Job)'
    BY <1>0, <1>1 DEF Begin, Goto, TypeOK, Steps
  <2> QED BY <1>0, <1>2, <2>1, <2>2 DEF Begin, TypeOK, database, caches
<1>4. /\ pc'[c] \notin {"update", "commit"} /\ UNCHANGED <<database, held>>
      /\ \A d \in Calls : d # c => pc'[d] = pc[d] /\ job'[d] = job[d]
  BY <1>0 DEF Begin, Goto, TypeOK
<1> QED BY <1>0, <1>3, <1>4, TablesUnchanged

LEMMA ExpireStep ==
  ASSUME TablesInv, NEW a \in Agents, ExpireFriendSet(a) \/ ExpireBlockSet(a)
  PROVE  TablesInv'
<1>1. TypeOK'
  BY DEF TablesInv, ExpireFriendSet, ExpireBlockSet, TypeOK, database, Locals, Bounds
<1>2. UNCHANGED <<database, pc, Locals>>
  BY DEF ExpireFriendSet, ExpireBlockSet
<1>3. FriendSymmetry' /\ NoMutualPending' /\ UnfriendOwnsRows'
  BY <1>2 DEF TablesInv, FriendSymmetry, NoMutualPending, UnfriendOwnsRows, database, Locals
<1> QED BY <1>1, <1>3 DEF TablesInv

LEMMA TablesInit == Init => TablesInv
<1> SUFFICES ASSUME Init PROVE TablesInv
  OBVIOUS
<1>1. overlapped \in BOOLEAN /\ lapsed \in BOOLEAN
  BY DEF Init
<1>2. calls \in 0..MaxCalls /\ faults \in 0..MaxFaults
  BY BoundsAssumption DEF Init
<1>3. /\ friend = {} /\ block = {} /\ friendTTL = {} /\ blockTTL = {}
      /\ req \in [Pairs -> Status]
      /\ friendSet \in [Agents -> SUBSET Agents] /\ blockSet \in [Agents -> SUBSET Agents]
      /\ pc \in [Calls -> Steps] /\ \A c \in Calls : pc[c] = "idle"
      /\ job \in [Calls -> Job \cup {NoJob}]
      /\ snap \in [Calls -> SUBSET Agents] /\ held \in [Calls -> SUBSET Pairs]
  BY DEF Init, Status, Steps
<1>4. TypeOK
  BY <1>1, <1>2, <1>3 DEF TypeOK
<1>5. FriendSymmetry /\ NoMutualPending /\ UnfriendOwnsRows
  BY RevFacts DEF Init, FriendSymmetry, NoMutualPending, UnfriendOwnsRows
<1> QED BY <1>4, <1>5 DEF TablesInv

LEMMA TablesStep == TablesInv /\ [Next]_vars => TablesInv'
<1> SUFFICES ASSUME TablesInv, [Next]_vars PROVE TablesInv'
  OBVIOUS
<1>0. TypeOK
  BY DEF TablesInv
<1>1. ASSUME NEW c \in Calls, \E op \in Ops, p \in Pairs : Begin(c, op, p) PROVE TablesInv'
  BY <1>1, BeginStep
<1>2. ASSUME NEW c \in Calls, CheckStep(c) PROVE TablesInv'
  <2>1. TypeOK'
    BY <1>0, <1>2, CheckTypes
  <2> QED BY <1>0, <1>2, <2>1, CheckLocals, TablesUnchanged
<1>3. ASSUME NEW c \in Calls, TxStep(c) PROVE TablesInv'
  <2>1. CASE TxFails(c)
    BY <2>1, ReturnKeeps DEF TxFails
  <2> QED BY <1>3, <2>1, SendTxStep, HandleTxStep, UnfriendDeleteStep, UnfriendUpdateStep,
             UnfriendCommitStep, BlockTxStep, UnblockTxStep DEF TxStep, UnfriendStep
<1>4. ASSUME NEW c \in Calls, CacheStep(c) PROVE TablesInv'
  <2>1. TypeOK'
    BY <1>0, <1>4, CacheTypes
  <2> QED BY <1>0, <1>4, <2>1, CacheLocals, TablesUnchanged
<1>5. CASE UNCHANGED vars
  BY <1>5 DEF TablesInv, TypeOK, FriendSymmetry, NoMutualPending, UnfriendOwnsRows,
              vars, database, caches
<1> QED BY <1>1, <1>2, <1>3, <1>4, <1>5, ExpireStep DEF Next

\* However many agents and overlapping calls there are, and however commands
\* fail, the relation tables keep their inductive invariant.
THEOREM TablesInvariant == Spec => []TablesInv
<1> QED BY TablesInit, TablesStep, PTL DEF Spec

\* Friendship rows always come in pairs (CreateFriendRelation,
\* DeleteFriendRelation and BlockUser write both or neither).
THEOREM FriendshipSymmetric == Spec => []FriendSymmetry
<1>1. TablesInv => FriendSymmetry
  BY DEF TablesInv
<1> QED BY <1>1, TablesInvariant, PTL

\* SendFriendRequest never leaves two requests pending between two agents,
\* although the two calls may overlap with each other and with Unfriend.
THEOREM RequestsNotMutual == Spec => []NoMutualPending
<1>1. TablesInv => NoMutualPending
  BY DEF TablesInv
<1> QED BY <1>1, TablesInvariant, PTL

\* Unfriend, which takes no lock on the pair, finds at its commit the rows its
\* statements locked.
THEOREM UnfriendKeepsItsRows == Spec => []UnfriendOwnsRows
<1>1. TablesInv => UnfriendOwnsRows
  BY DEF TablesInv
<1> QED BY <1>1, TablesInvariant, PTL

-----------------------------------------------------------------------------
(* One call at a time *)

Alone(c) == \A d \in Calls : d # c => pc[d] = "idle"

FriendsOf(a) == {v \in Agents : <<a, v>> \in friend}

\* What Coherent says when no call but c is in progress.
FriendSetsFor(c) ==
  \A a \in Agents :
    \/ friendSet[a] \in {{}, FriendsOf(a)}
    \/ pc[c] \in {"sadd", "drop1"} /\ a \in {job[c].pair[1], job[c].pair[2]}
    \/ pc[c] = "drop2" /\ a = job[c].pair[2]

BlockSetsFor(c) ==
  /\ blockTTL = {}
  /\ \A p \in Pairs : p[2] \in blockSet[p[1]] <=>
       \/ p \in block /\ ~(pc[c] = "sadd" /\ job[c].pair = p)
       \/ pc[c] = "srem" /\ job[c].pair = p
  /\ \A a \in Agents : a \notin blockSet[a]

CoherentFor(c) ==
  /\ BlockedNotFriends
  /\ CallKnows(c) /\ FriendSetsFor(c) /\ BlockSetsFor(c)

LEMMA DueAlone ==
  ASSUME NEW c \in Calls, Alone(c), NEW steps, "idle" \notin steps, NEW p
  PROVE  Due(steps, p) <=> pc[c] \in steps /\ job[c].pair = p
  BY DEF Due, Alone

LEMMA DueAloneNext ==
  ASSUME NEW c \in Calls, Alone(c)', NEW steps, "idle" \notin steps, NEW p
  PROVE  Due(steps, p)' <=> pc'[c] \in steps /\ job'[c].pair = p
  BY DEF Due, Alone

\* The agents of a pair that is due are those of the call.
LEMMA CoherentAlone ==
  ASSUME TypeOK, NEW c \in Calls, Alone(c), Coherent
  PROVE  CoherentFor(c)
<1>1. CallKnows(c) /\ BlockedNotFriends
  BY DEF Coherent
<1>2. FriendSetsFor(c)
  <2> SUFFICES ASSUME NEW a \in Agents, NEW v \in Agents,
                      Due({"sadd", "drop1"}, <<a, v>>) \/ Due({"sadd", "drop1", "drop2"}, <<v, a>>)
               PROVE  \/ pc[c] \in {"sadd", "drop1"} /\ a \in {job[c].pair[1], job[c].pair[2]}
                      \/ pc[c] = "drop2" /\ a = job[c].pair[2]
    BY DEF Coherent, FriendSetsFollow, FriendSetsFor, FriendsOf
  <2>1. CASE Due({"sadd", "drop1"}, <<a, v>>)
    <3>1. pc[c] \in {"sadd", "drop1"} /\ job[c].pair = <<a, v>>
      BY <2>1, DueAlone
    <3> QED BY <3>1
  <2>2. CASE Due({"sadd", "drop1", "drop2"}, <<v, a>>)
    <3>1. pc[c] \in {"sadd", "drop1", "drop2"} /\ job[c].pair = <<v, a>>
      BY <2>2, DueAlone
    <3> QED BY <3>1
  <2> QED BY <2>1, <2>2
<1>3. BlockSetsFor(c)
  <2>1. \A p \in Pairs : /\ Due({"sadd"}, p) <=> pc[c] = "sadd" /\ job[c].pair = p
                         /\ Due({"srem"}, p) <=> pc[c] = "srem" /\ job[c].pair = p
    BY DueAlone
  <2> QED BY <2>1 DEF Coherent, BlockSetsFollow, BlockSetsFor
<1> QED BY <1>1, <1>2, <1>3 DEF CoherentFor

LEMMA CoherentAloneNext ==
  ASSUME TypeOK', NEW c \in Calls, Alone(c)', CoherentFor(c)'
  PROVE  Coherent'
<1>1. \A d \in Calls : CallKnows(d)'
  <2> SUFFICES ASSUME NEW d \in Calls, d # c PROVE CallKnows(d)'
    BY DEF CoherentFor
  <2>1. pc'[d] = "idle"
    BY DEF Alone
  <2> QED BY <2>1 DEF CallKnows
<1>2. FriendSetsFollow'
  <2> SUFFICES ASSUME NEW a \in Agents,
                      \/ pc'[c] \in {"sadd", "drop1"} /\ a \in {job'[c].pair[1], job'[c].pair[2]}
                      \/ pc'[c] = "drop2" /\ a = job'[c].pair[2]
               PROVE  \E v \in Agents : \/ Due({"sadd", "drop1"}, <<a, v>>)'
                                        \/ Due({"sadd", "drop1", "drop2"}, <<v, a>>)'
    BY DEF CoherentFor, FriendSetsFor, FriendSetsFollow, FriendsOf
  <2>1. /\ job'[c].pair \in Pairs /\ job'[c].pair = <<job'[c].pair[1], job'[c].pair[2]>>
        /\ job'[c].pair[1] \in Agents /\ job'[c].pair[2] \in Agents
    BY DEF TypeOK, Job, Pairs
  <2>2. CASE pc'[c] \in {"sadd", "drop1"} /\ a = job'[c].pair[1]
    BY <2>1, <2>2, DueAloneNext
  <2>3. CASE pc'[c] \in {"sadd", "drop1", "drop2"} /\ a = job'[c].pair[2]
    BY <2>1, <2>3, DueAloneNext
  <2> QED BY <2>2, <2>3
<1>3. BlockSetsFollow'
  <2>1. \A p \in Pairs : /\ Due({"sadd"}, p)' <=> pc'[c] = "sadd" /\ job'[c].pair = p
                         /\ Due({"srem"}, p)' <=> pc'[c] = "srem" /\ job'[c].pair = p
    BY DEF Due, Alone
  <2> QED BY <2>1 DEF CoherentFor, BlockSetsFollow, BlockSetsFor
<1> QED BY <1>1, <1>2, <1>3 DEF CoherentFor, Coherent

\* Steps that leave the tables and the sets alone, with no set to be adjusted
\* before or after.
Adjusting == {"sadd", "srem", "drop1", "drop2"}

LEMMA QuietAlone ==
  ASSUME NEW c \in Calls, CoherentFor(c), UNCHANGED <<database, caches>>,
         pc[c] \notin Adjusting, pc'[c] \notin Adjusting, CallKnows(c)'
  PROVE  CoherentFor(c)'
<1>0. UNCHANGED <<friend, block, req, friendSet, blockSet, blockTTL>>
  BY DEF database, caches
<1>1. BlockedNotFriends'
  BY <1>0 DEF CoherentFor, BlockedNotFriends
<1>2. FriendSetsFor(c)'
  BY <1>0 DEF CoherentFor, FriendSetsFor, FriendsOf, Adjusting
<1>3. BlockSetsFor(c)'
  BY <1>0 DEF CoherentFor, BlockSetsFor, Adjusting
<1> QED BY <1>1, <1>2, <1>3 DEF CoherentFor

LEMMA ReturnAlone ==
  ASSUME TypeOK, NEW c \in Calls, CoherentFor(c), UNCHANGED <<database, caches>>,
         pc[c] \notin Adjusting, Return(c)
  PROVE  CoherentFor(c)'
<1>1. pc'[c] = "idle"
  BY DEF Return, Goto, TypeOK
<1> QED BY <1>1, QuietAlone DEF CallKnows, Adjusting

\* A row of the block table has its member in the cached set of its owner, and
\* only such a row has, unless the set is about to be adjusted.
LEMMA BlockSetExact ==
  ASSUME TypeOK, NEW c \in Calls, CoherentFor(c), pc[c] \notin Adjusting, NEW p \in Pairs
  PROVE  p[2] \in blockSet[p[1]] <=> p \in block
  BY DEF CoherentFor, BlockSetsFor, Adjusting

\* Where a check looks, and for whom.
LEMMA CheckFacts ==
  ASSUME TypeOK, NEW c \in Calls, pc[c] # "idle"
  PROVE  /\ job[c].check \in 1..3
         /\ job[c].check = 1 => <<Owner(job[c]), Member(job[c])>> = job[c].pair
         /\ job[c].check = 2 => <<Owner(job[c]), Member(job[c])>> = Rev(job[c].pair)
         /\ job[c].check < 3 => Loaded(job[c]) = {v \in Agents : <<Owner(job[c]), v>> \in block}
         /\ job[c].check = 3 => Loaded(job[c]) = FriendsOf(Owner(job[c]))
         /\ job[c].check < 3 => Cached(job[c]) = blockSet[Owner(job[c])]
<1>1. job[c].check \in 1..3 /\ job[c].pair \in Pairs
  BY DEF TypeOK, Job
<1>2. job[c].pair = <<job[c].pair[1], job[c].pair[2]>>
  BY <1>1 DEF Pairs
<1>3. /\ job[c].check = 1 => <<Owner(job[c]), Member(job[c])>> = job[c].pair
      /\ job[c].check = 2 => <<Owner(job[c]), Member(job[c])>> = Rev(job[c].pair)
  BY <1>2 DEF Owner, Member, Rev
<1> QED BY <1>1, <1>3 DEF Loaded, Rows, Cached, FriendsOf

LEMMA CheckExistsAlone ==
  ASSUME TablesInv, NEW c \in Calls, CoherentFor(c), CheckExists(c)
  PROVE  CoherentFor(c)'
<1>0. TypeOK /\ pc[c] = "exists" /\ UNCHANGED <<database, caches, Locals>>
  BY DEF TablesInv, CheckExists
<1>1. pc'[c] = IF Cached(job[c]) = {} THEN "load" ELSE "member"
  BY <1>0 DEF CheckExists, Goto, TypeOK
<1>2. Cached(job[c]) = {} /\ job[c].check < 3 => Loaded(job[c]) = {}
  <2> SUFFICES ASSUME Cached(job[c]) = {}, job[c].check < 3,
                      NEW v \in Agents, <<Owner(job[c]), v>> \in block
               PROVE  FALSE
    BY <1>0, CheckFacts
  <2>1. <<Owner(job[c]), v>> \in Pairs
    BY <1>0 DEF TypeOK
  <2>2. v \in blockSet[Owner(job[c])]
    BY <1>0, <2>1, BlockSetExact DEF Adjusting
  <2> QED BY <1>0, <2>2, CheckFacts
<1>3. /\ job' = job /\ block' = block
      /\ Loaded(job[c])' = Loaded(job[c])
  BY <1>0 DEF Locals, database, Loaded, Rows, Owner
<1>4. CallKnows(c)'
  BY <1>0, <1>1, <1>2, <1>3 DEF CoherentFor, CallKnows
<1> QED BY <1>0, <1>1, <1>4, QuietAlone DEF Adjusting

LEMMA LoadSetAlone ==
  ASSUME TablesInv, NEW c \in Calls, CoherentFor(c), LoadSet(c)
  PROVE  CoherentFor(c)'
<1>0. TypeOK /\ pc[c] = "load" /\ UNCHANGED <<database, caches>> /\ job' = job /\ held' = held
  BY DEF TablesInv, LoadSet
<1>1. pc'[c] = "fill" /\ snap'[c] = Loaded(job[c])
  BY <1>0 DEF LoadSet, Goto, TypeOK
<1>2. block' = block /\ Loaded(job[c])' = Loaded(job[c])
  BY <1>0 DEF database, Loaded, Rows, Owner
<1>3. CallKnows(c)'
  BY <1>0, <1>1, <1>2 DEF CoherentFor, CallKnows
<1> QED BY <1>0, <1>1, <1>3, QuietAlone DEF Adjusting

LEMMA ReplaceSetAlone ==
  ASSUME TablesInv, NEW c \in Calls, CoherentFor(c), ReplaceSet(c)
  PROVE  CoherentFor(c)'
<1> DEFINE u == Owner(job[c])
<1>0. TypeOK /\ pc[c] = "fill" /\ UNCHANGED <<friend, block, req>> /\ job' = job
  BY DEF TablesInv, ReplaceSet, database, Locals
<1>1. pc'[c] = "member"
  BY <1>0 DEF ReplaceSet, Goto, TypeOK
<1>2. /\ u \in Agents /\ snap[c] = Loaded(job[c])
      /\ job[c].check < 3 => snap[c] = {}
  BY <1>0, JobFacts DEF CoherentFor, CallKnows
<1>3. BlockedNotFriends'
  BY <1>0 DEF CoherentFor, BlockedNotFriends
<1>4. CallKnows(c)'
  BY <1>0, <1>1 DEF CoherentFor, CallKnows
<1>5. CASE job[c].check = 3
  <2>1. friendSet' = [friendSet EXCEPT ![u] = FriendsOf(u)] /\ UNCHANGED <<blockSet, blockTTL>>
    BY <1>0, <1>2, <1>5, CheckFacts DEF ReplaceSet
  <2>2. FriendSetsFor(c)'
    <3>1. \A a \in Agents : FriendsOf(a)' = FriendsOf(a)
      BY <1>0 DEF FriendsOf
    <3>2. \A a \in Agents : friendSet'[a] \in {friendSet[a], FriendsOf(a)}
      BY <1>0, <1>2, <2>1 DEF TypeOK
    <3>3. \A a \in Agents : friendSet[a] \in {{}, FriendsOf(a)}
      BY <1>0 DEF CoherentFor, FriendSetsFor
    <3> QED BY <3>1, <3>2, <3>3 DEF FriendSetsFor
  <2>3. BlockSetsFor(c)'
    BY <1>0, <1>1, <2>1 DEF CoherentFor, BlockSetsFor
  <2> QED BY <1>3, <1>4, <2>2, <2>3 DEF CoherentFor
<1>6. CASE job[c].check # 3
  <2>0. job[c].check < 3
    BY <1>0, <1>6, CheckFacts
  <2>1. /\ blockSet' = [blockSet EXCEPT ![u] = {}] /\ UNCHANGED friendSet
        /\ blockTTL' = blockTTL \ {u}
    BY <1>2, <1>6, <2>0 DEF ReplaceSet
  <2>2. \A v \in Agents : <<u, v>> \notin block
    BY <1>0, <1>2, <2>0, CheckFacts
  <2>3. FriendSetsFor(c)'
    BY <1>0, <2>1 DEF CoherentFor, FriendSetsFor, FriendsOf
  <2>4. BlockSetsFor(c)'
    <3>1. ASSUME NEW p \in Pairs PROVE p[2] \in blockSet'[p[1]] <=> p \in block
      <4>1. p = <<p[1], p[2]>> /\ p[1] \in Agents /\ p[2] \in Agents
        BY DEF Pairs
      <4>2. p[2] \in blockSet[p[1]] <=> p \in block
        BY <1>0, BlockSetExact DEF Adjusting
      <4>3. p[1] = u => p \notin block
        BY <2>2, <4>1
      <4> QED BY <1>0, <2>1, <4>1, <4>2, <4>3 DEF TypeOK
    <3>2. blockTTL' = {} /\ \A a \in Agents : a \notin blockSet'[a]
      BY <1>0, <2>1 DEF CoherentFor, BlockSetsFor, TypeOK
    <3> QED BY <1>0, <1>1, <3>1, <3>2 DEF BlockSetsFor
  <2> QED BY <1>3, <1>4, <2>3, <2>4 DEF CoherentFor
<1> QED BY <1>5, <1>6

\* A negative answer is right about blocks.
LEMMA IsMemberAlone ==
  ASSUME TablesInv, NEW c \in Calls, CoherentFor(c), IsMember(c)
  PROVE  CoherentFor(c)'
<1> DEFINE p == job[c].pair
<1>0. TypeOK /\ pc[c] = "member" /\ UNCHANGED <<database, caches>> /\ block' = block
  BY DEF TablesInv, IsMember, database
<1>1. p \in Pairs /\ Rev(p) \in Pairs /\ job[c].check \in 1..3 /\ job[c] \in Job
  BY <1>0, JobFacts, RevFacts, CheckFacts
<1>2. Member(job[c]) \notin Cached(job[c]) =>
        /\ job[c].check = 1 => p \notin block
        /\ job[c].check = 2 => Rev(p) \notin block
  <2>1. /\ job[c].check = 1 => Owner(job[c]) = p[1] /\ Member(job[c]) = p[2]
        /\ job[c].check = 2 => Owner(job[c]) = Rev(p)[1] /\ Member(job[c]) = Rev(p)[2]
    BY DEF Owner, Member, Rev
  <2>2. (p[2] \in blockSet[p[1]] <=> p \in block)
        /\ (Rev(p)[2] \in blockSet[Rev(p)[1]] <=> Rev(p) \in block)
    BY <1>0, <1>1, BlockSetExact DEF Adjusting
  <2>3. job[c].check < 3 => Cached(job[c]) = blockSet[Owner(job[c])]
    BY <1>0, CheckFacts
  <2> QED BY <2>1, <2>2, <2>3
<1>3. /\ job[c].op = "apply"
      /\ job[c].check > 1 => p \notin block
      /\ job[c].check > 2 => Rev(p) \notin block
  BY <1>0 DEF CoherentFor, CallKnows
<1>4. CASE Return(c)
  BY <1>0, <1>4, ReturnAlone DEF Adjusting
<1>5. CASE /\ Member(job[c]) \notin Cached(job[c]) /\ job[c].check < 3
           /\ job' = [job EXCEPT ![c].check = @ + 1]
           /\ Goto(c, "exists")
  <2>1. pc'[c] = "exists"
    BY <1>0, <1>5 DEF Goto, TypeOK
  <2>2. job'[c].pair = p /\ job'[c].op = "apply" /\ job'[c].check = job[c].check + 1
    <3>1. job'[c] = [job[c] EXCEPT !.check = @ + 1]
      BY <1>0, <1>5 DEF TypeOK
    <3> QED BY <1>1, <1>3, <3>1 DEF Job
  <2>3. CallKnows(c)'
    BY <1>0, <1>1, <1>2, <1>3, <1>5, <2>1, <2>2 DEF CallKnows
  <2> QED BY <1>0, <2>1, <2>3, QuietAlone DEF Adjusting
<1>6. CASE job[c].check = 3 /\ Goto(c, "tx") /\ UNCHANGED Locals
  <2>1. pc'[c] = "tx" /\ job' = job
    BY <1>0, <1>6 DEF Goto, TypeOK, Locals
  <2>2. Both(p) \cap block = {}
    BY <1>3, <1>6 DEF Both
  <2>3. CallKnows(c)'
    BY <1>0, <2>1, <2>2 DEF CallKnows
  <2> QED BY <1>0, <2>1, <2>3, QuietAlone DEF Adjusting
<1> QED BY <1>4, <1>5, <1>6 DEF IsMember, Answer

\* A transaction on the pair of the call that leaves the block rows alone: the
\* friend sets of other agents stay right, those of the pair are dropped next.
LEMMA TxSets ==
  ASSUME TypeOK, NEW c \in Calls, CoherentFor(c), pc[c] \notin Adjusting, pc[c] # "idle",
         friend' \in {friend, friend \cup Both(job[c].pair), friend \ Both(job[c].pair)},
         UNCHANGED caches, job' = job, pc'[c] \in {"sadd", "drop1"}
  PROVE  FriendSetsFor(c)'
<1> DEFINE p == job[c].pair
<1> SUFFICES ASSUME NEW a \in Agents, a \notin {p[1], p[2]}
             PROVE  friendSet'[a] \in {{}, FriendsOf(a)'}
  BY DEF FriendSetsFor
<1>1. p \in Pairs /\ Both(p) = {<<p[1], p[2]>>, <<p[2], p[1]>>}
  <2>1. p \in Pairs
    BY JobFacts
  <2> QED BY <2>1 DEF Both, Rev, Pairs
<1>2. \A v \in Agents : <<a, v>> \in friend' <=> <<a, v>> \in friend
  BY <1>1
<1>3. FriendsOf(a)' = FriendsOf(a)
  BY <1>2 DEF FriendsOf
<1>4. friendSet[a] \in {{}, FriendsOf(a)}
  BY DEF CoherentFor, FriendSetsFor, Adjusting
<1> QED BY <1>3, <1>4 DEF caches

LEMMA TxBlockSets ==
  ASSUME NEW c \in Calls, CoherentFor(c), pc[c] \notin Adjusting,
         UNCHANGED <<caches, block>>, pc'[c] \notin {"sadd", "srem"}
  PROVE  BlockSetsFor(c)'
  BY DEF CoherentFor, BlockSetsFor, Adjusting, caches

LEMMA SendTxAlone ==
  ASSUME TablesInv, NEW c \in Calls, CoherentFor(c), SendTx(c)
  PROVE  CoherentFor(c)'
<1> DEFINE out == job[c].pair
           in == Rev(out)
<1>0. TypeOK /\ pc[c] = "tx" /\ UNCHANGED <<block, caches>>
  BY DEF TablesInv, SendTx
<1>1. out \in Pairs /\ in \in Pairs /\ Both(out) = {out, in}
  BY <1>0, JobFacts, RevFacts DEF Both
<1>2. Both(out) \cap block = {}
  BY <1>0 DEF CoherentFor, CallKnows, SendTx
<1>a. CASE Return(c) /\ UNCHANGED <<friend, req>>
  BY <1>0, <1>a, ReturnAlone DEF database, Adjusting
<1>b. CASE /\ \/ req' = [req EXCEPT ![in] = "accepted"] /\ friend' = friend \cup Both(out)
              \/ req' = [req EXCEPT ![out] = "pending"] /\ friend' = friend
           /\ Goto(c, "drop1") /\ UNCHANGED Locals
  <2>1. pc'[c] = "drop1" /\ job' = job
    BY <1>0, <1>b DEF Goto, TypeOK, Locals
  <2>2. BlockedNotFriends'
    BY <1>0, <1>2, <1>b DEF CoherentFor, BlockedNotFriends
  <2>3. FriendSetsFor(c)'
    BY <1>0, <1>b, <2>1, TxSets DEF Adjusting
  <2>4. BlockSetsFor(c)'
    BY <1>0, <2>1, TxBlockSets DEF Adjusting
  <2> QED BY <2>1, <2>2, <2>3, <2>4 DEF CoherentFor, CallKnows
<1> QED BY <1>a, <1>b DEF SendTx

LEMMA HandleTxAlone ==
  ASSUME TablesInv, NEW c \in Calls, CoherentFor(c), HandleTx(c)
  PROVE  CoherentFor(c)'
<1> DEFINE p == job[c].pair
<1>0. TypeOK /\ pc[c] = "tx" /\ UNCHANGED <<block, caches>>
  BY DEF TablesInv, HandleTx
<1>1. p \in Pairs /\ p \in Both(p)
  BY <1>0, JobFacts DEF Both
<1>a. CASE Return(c) /\ UNCHANGED <<friend, req>>
  BY <1>0, <1>a, ReturnAlone DEF database, Adjusting
<1>b. CASE /\ \/ /\ Both(p) \cap block = {}
                 /\ req' = [req EXCEPT ![p] = "accepted"] /\ friend' = friend \cup Both(p)
              \/ /\ \E st \in {"rejected", "cancelled"} : req' = [req EXCEPT ![p] = st]
                 /\ friend' = friend
           /\ Goto(c, "drop1") /\ UNCHANGED Locals
  <2>1. pc'[c] = "drop1" /\ job' = job
    BY <1>0, <1>b DEF Goto, TypeOK, Locals
  <2>2. BlockedNotFriends'
    BY <1>0, <1>b DEF CoherentFor, BlockedNotFriends
  <2>3. FriendSetsFor(c)'
    BY <1>0, <1>b, <2>1, TxSets DEF Adjusting
  <2>4. BlockSetsFor(c)'
    BY <1>0, <2>1, TxBlockSets DEF Adjusting
  <2> QED BY <2>1, <2>2, <2>3, <2>4 DEF CoherentFor, CallKnows
<1>c. CASE /\ ~(\E q \in Both(p) : q \in block)
           /\ req' = [req EXCEPT ![p] = "accepted"]
           /\ friend' = friend \cup Both(p)
           /\ Goto(c, "drop1") /\ UNCHANGED Locals
  <2>1. Both(p) \cap block = {}
    BY <1>c
  <2> QED BY <1>b, <1>c, <2>1
<1>d. CASE /\ req' = [req EXCEPT ![p] = IF job[c].op = "reject" THEN "rejected" ELSE "cancelled"]
           /\ Goto(c, "drop1") /\ UNCHANGED <<friend, Locals>>
  BY <1>b, <1>d
<1> QED BY <1>a, <1>c, <1>d DEF HandleTx

LEMMA UnfriendDeleteAlone ==
  ASSUME TablesInv, NEW c \in Calls, CoherentFor(c), UnfriendDelete(c)
  PROVE  CoherentFor(c)'
<1>0. TypeOK /\ pc[c] = "tx" /\ UNCHANGED <<database, caches>>
  BY DEF TablesInv, UnfriendDelete
<1>a. CASE Return(c)
  BY <1>0, <1>a, ReturnAlone DEF Adjusting
<1>b. CASE Goto(c, "update")
  <2>1. pc'[c] = "update"
    BY <1>0, <1>b DEF Goto, TypeOK
  <2> QED BY <1>0, <2>1, QuietAlone DEF CallKnows, Adjusting
<1> QED BY <1>a, <1>b DEF UnfriendDelete

LEMMA UnfriendUpdateAlone ==
  ASSUME TablesInv, NEW c \in Calls, CoherentFor(c), UnfriendUpdate(c)
  PROVE  CoherentFor(c)'
<1>0. TypeOK /\ pc[c] = "update" /\ UNCHANGED <<database, caches>> /\ job' = job /\ req' = req
  BY DEF TablesInv, UnfriendUpdate, database
<1>1. pc'[c] = "commit" /\ held'[c] = {q \in Both(job[c].pair) : req[q] = "accepted"}
  BY <1>0 DEF UnfriendUpdate, Goto, TypeOK
<1>2. CallKnows(c)'
  BY <1>0, <1>1 DEF CallKnows
<1> QED BY <1>0, <1>1, <1>2, QuietAlone DEF Adjusting

LEMMA UnfriendCommitAlone ==
  ASSUME TablesInv, NEW c \in Calls, CoherentFor(c), UnfriendCommit(c)
  PROVE  CoherentFor(c)'
<1> DEFINE p == job[c].pair
<1>0. TypeOK /\ pc[c] = "commit" /\ UNCHANGED <<block, caches, job>>
  BY DEF TablesInv, UnfriendCommit
<1>1. pc'[c] = "drop1" /\ friend' = friend \ Both(p)
  BY <1>0 DEF UnfriendCommit, Goto, TypeOK
<1>2. BlockedNotFriends'
  BY <1>0, <1>1 DEF CoherentFor, BlockedNotFriends
<1>3. FriendSetsFor(c)'
  BY <1>0, <1>1, TxSets DEF Adjusting
<1>4. BlockSetsFor(c)'
  BY <1>0, <1>1, TxBlockSets DEF Adjusting
<1> QED BY <1>1, <1>2, <1>3, <1>4 DEF CoherentFor, CallKnows

LEMMA BlockTxAlone ==
  ASSUME TablesInv, NEW c \in Calls, CoherentFor(c), BlockTx(c)
  PROVE  CoherentFor(c)'
<1> DEFINE p == job[c].pair
<1>0. TypeOK /\ pc[c] = "tx" /\ UNCHANGED caches
  BY DEF TablesInv, BlockTx
<1>1. p \in Pairs /\ p \in Both(p)
  BY <1>0, JobFacts DEF Both
<1>a. CASE Return(c) /\ UNCHANGED database
  BY <1>0, <1>a, ReturnAlone DEF Adjusting
<1>b. CASE /\ p \notin block /\ block' = block \cup {p}
           /\ friend' = friend \ Both(p)
           /\ req' = [q \in Pairs |-> IF q \in Both(p) THEN Severed(req[q]) ELSE req[q]]
           /\ Goto(c, "sadd") /\ UNCHANGED Locals
  <2>1. pc'[c] = "sadd" /\ job' = job
    BY <1>0, <1>b DEF Goto, TypeOK, Locals
  <2>2. BlockedNotFriends'
    BY <1>1, <1>b DEF CoherentFor, BlockedNotFriends
  <2>3. FriendSetsFor(c)'
    BY <1>0, <1>b, <2>1, TxSets DEF Adjusting
  <2>4. BlockSetsFor(c)'
    <3>1. ASSUME NEW q \in Pairs
          PROVE  q[2] \in blockSet'[q[1]] <=> q \in block' /\ q # p
      <4>1. q[2] \in blockSet[q[1]] <=> q \in block
        BY <1>0, BlockSetExact DEF Adjusting
      <4> QED BY <1>0, <1>b, <4>1 DEF caches
    <3> QED BY <1>0, <2>1, <3>1 DEF CoherentFor, BlockSetsFor, caches
  <2> QED BY <1>b, <2>1, <2>2, <2>3, <2>4 DEF CoherentFor, CallKnows
<1> QED BY <1>a, <1>b DEF BlockTx

LEMMA UnblockTxAlone ==
  ASSUME TablesInv, NEW c \in Calls, CoherentFor(c), UnblockTx(c)
  PROVE  CoherentFor(c)'
<1> DEFINE p == job[c].pair
<1>0. TypeOK /\ pc[c] = "tx" /\ UNCHANGED caches
  BY DEF TablesInv, UnblockTx
<1>1. p \in Pairs /\ Rev(p) \in Pairs
  BY <1>0, JobFacts, RevFacts
<1>a. CASE Return(c) /\ UNCHANGED database
  BY <1>0, <1>a, ReturnAlone DEF Adjusting
<1>b. CASE /\ p \in block /\ block' = block \ {p}
           /\ req' = IF req[Rev(p)] = "pending" THEN [req EXCEPT ![Rev(p)] = "cancelled"] ELSE req
           /\ Goto(c, "srem") /\ UNCHANGED <<friend, Locals>>
  <2>1. pc'[c] = "srem" /\ job' = job
    BY <1>0, <1>b DEF Goto, TypeOK, Locals
  <2>2. BlockedNotFriends'
    BY <1>b DEF CoherentFor, BlockedNotFriends
  <2>3. FriendSetsFor(c)'
    <3>1. \A a \in Agents : friendSet[a] \in {{}, FriendsOf(a)}
      BY <1>0 DEF CoherentFor, FriendSetsFor
    <3> QED BY <1>0, <1>b, <3>1 DEF FriendSetsFor, FriendsOf, caches
  <2>4. BlockSetsFor(c)'
    <3>1. ASSUME NEW q \in Pairs
          PROVE  q[2] \in blockSet'[q[1]] <=> q \in block' \/ q = p
      <4>1. q[2] \in blockSet[q[1]] <=> q \in block
        BY <1>0, BlockSetExact DEF Adjusting
      <4> QED BY <1>0, <1>b, <4>1 DEF caches
    <3> QED BY <1>0, <2>1, <3>1 DEF CoherentFor, BlockSetsFor, caches
  <2> QED BY <1>b, <2>1, <2>2, <2>3, <2>4 DEF CoherentFor, CallKnows
<1> QED BY <1>a, <1>b DEF UnblockTx

\* The steps after the commit.
LEMMA CacheAlone ==
  ASSUME TablesInv, NEW c \in Calls, CoherentFor(c), CacheStep(c), faults = 0, faults' = 0
  PROVE  CoherentFor(c)'
<1> DEFINE p == job[c].pair
<1>0. TypeOK /\ pc[c] \in Adjusting /\ UNCHANGED <<friend, block, req>>
  BY DEF TablesInv, CacheStep, AddBlocked, RemoveBlocked, InvalidateFrom, InvalidateTo,
         CacheWriteFails, Adjusting, database
<1>1. p \in Pairs /\ p[1] \in Agents /\ p[2] \in Agents /\ p[1] # p[2] /\ p = <<p[1], p[2]>>
  <2>1. p \in Pairs
    BY <1>0, JobFacts DEF Adjusting
  <2> QED BY <2>1 DEF Pairs
<1>2. BlockedNotFriends'
  BY <1>0 DEF CoherentFor, BlockedNotFriends
<1>3. \A a \in Agents : FriendsOf(a)' = FriendsOf(a)
  BY <1>0 DEF FriendsOf
<1>4. \A q \in Pairs : q[1] \in Agents /\ q[2] \in Agents /\ q = <<q[1], q[2]>>
  BY DEF Pairs
<1>5. CASE AddBlocked(c)
  <2>1. pc[c] = "sadd" /\ pc'[c] = "drop1" /\ job' = job /\ UNCHANGED <<friendSet, blockTTL>>
    BY <1>0, <1>5 DEF AddBlocked, Goto, TypeOK, Locals
  <2>2. FriendSetsFor(c)'
    BY <1>3, <2>1 DEF CoherentFor, FriendSetsFor
  <2>3. \A a \in Agents : blockSet'[a] = IF a = p[1] THEN blockSet[a] \cup {p[2]} ELSE blockSet[a]
    BY <1>0, <1>1, <1>5 DEF AddBlocked, TypeOK
  <2>4. \A q \in Pairs : q[2] \in blockSet'[q[1]] <=> q \in block
    <3> SUFFICES ASSUME NEW q \in Pairs PROVE q[2] \in blockSet'[q[1]] <=> q \in block
      OBVIOUS
    <3>1. q[2] \in blockSet[q[1]] <=> q \in block /\ q # p
      BY <2>1 DEF CoherentFor, BlockSetsFor
    <3>2. q = p <=> q[1] = p[1] /\ q[2] = p[2]
      BY <1>1, <1>4
    <3>3. p \in block
      BY <1>0, <1>5, <2>1 DEF CoherentFor, CallKnows
    <3> QED BY <1>4, <2>3, <3>1, <3>2, <3>3
  <2>5. blockTTL' = {} /\ \A a \in Agents : a \notin blockSet'[a]
    <3>1. blockTTL = {} /\ p[1] # p[2] /\ \A a \in Agents : a \notin blockSet[a]
      BY <1>1 DEF CoherentFor, BlockSetsFor
    <3>2. \A a \in Agents : a \notin blockSet'[a]
      BY <2>3, <3>1
    <3> QED BY <2>1, <3>1, <3>2
  <2>6. BlockSetsFor(c)'
    BY <1>0, <2>1, <2>4, <2>5 DEF BlockSetsFor
  <2> QED BY <1>2, <2>1, <2>2, <2>6 DEF CoherentFor, CallKnows
<1>6. CASE RemoveBlocked(c)
  <2>1. pc[c] = "srem" /\ pc'[c] = "idle" /\ UNCHANGED friendSet /\ blockTTL' \subseteq blockTTL
    BY <1>0, <1>6 DEF RemoveBlocked, Return, Goto, TypeOK
  <2>2. FriendSetsFor(c)'
    BY <1>3, <2>1 DEF CoherentFor, FriendSetsFor
  <2>3. \A a \in Agents : blockSet'[a] = IF a = p[1] THEN blockSet[a] \ {p[2]} ELSE blockSet[a]
    BY <1>0, <1>1, <1>6 DEF RemoveBlocked, TypeOK
  <2>4. \A q \in Pairs : q[2] \in blockSet'[q[1]] <=> q \in block
    <3> SUFFICES ASSUME NEW q \in Pairs PROVE q[2] \in blockSet'[q[1]] <=> q \in block
      OBVIOUS
    <3>1. q[2] \in blockSet[q[1]] <=> q \in block \/ q = p
      BY <2>1 DEF CoherentFor, BlockSetsFor
    <3>2. q = p <=> q[1] = p[1] /\ q[2] = p[2]
      BY <1>1, <1>4
    <3>3. p \notin block
      BY <1>0, <1>6, <2>1 DEF CoherentFor, CallKnows
    <3> QED BY <1>4, <2>3, <3>1, <3>2, <3>3
  <2>5. blockTTL' = {} /\ \A a \in Agents : a \notin blockSet'[a]
    <3>1. blockTTL = {} /\ p[1] # p[2] /\ \A a \in Agents : a \notin blockSet[a]
      BY <1>1 DEF CoherentFor, BlockSetsFor
    <3>2. \A a \in Agents : a \notin blockSet'[a]
      BY <2>3, <3>1
    <3> QED BY <2>1, <3>1, <3>2
  <2>6. BlockSetsFor(c)'
    BY <1>0, <2>1, <2>4, <2>5 DEF BlockSetsFor
  <2> QED BY <1>2, <2>1, <2>2, <2>6 DEF CoherentFor, CallKnows
<1>7. CASE InvalidateFrom(c)
  <2>1. /\ pc[c] = "drop1" /\ pc'[c] = "drop2" /\ job' = job /\ UNCHANGED <<blockSet, blockTTL>>
        /\ friendSet' = [friendSet EXCEPT ![p[1]] = {}]
    BY <1>0, <1>7 DEF InvalidateFrom, Goto, TypeOK, Locals
  <2>2. FriendSetsFor(c)'
    BY <1>0, <1>1, <1>3, <2>1 DEF CoherentFor, FriendSetsFor, TypeOK
  <2>3. BlockSetsFor(c)'
    BY <1>0, <2>1 DEF CoherentFor, BlockSetsFor
  <2> QED BY <1>2, <2>1, <2>2, <2>3 DEF CoherentFor, CallKnows
<1>8. CASE InvalidateTo(c)
  <2>1. /\ pc[c] = "drop2" /\ pc'[c] = "idle" /\ UNCHANGED <<blockSet, blockTTL>>
        /\ friendSet' = [friendSet EXCEPT ![p[2]] = {}]
    BY <1>0, <1>8 DEF InvalidateTo, Return, Goto, TypeOK
  <2>2. FriendSetsFor(c)'
    BY <1>0, <1>1, <1>3, <2>1 DEF CoherentFor, FriendSetsFor, TypeOK
  <2>3. BlockSetsFor(c)'
    BY <1>0, <2>1 DEF CoherentFor, BlockSetsFor
  <2> QED BY <1>2, <2>1, <2>2, <2>3 DEF CoherentFor, CallKnows
<1>9. ~CacheWriteFails(c)
  BY DEF CacheWriteFails
<1> QED BY <1>5, <1>6, <1>7, <1>8, <1>9 DEF CacheStep

\* A step of a call in progress is a step of that call only.
LEMMA StepGoes ==
  ASSUME NEW c \in Calls, CheckStep(c) \/ TxStep(c) \/ CacheStep(c)
  PROVE  /\ pc[c] # "idle" /\ overlapped' = overlapped /\ lapsed' = lapsed
         /\ faults' = faults \/ faults' = faults + 1
         /\ \E s : Goto(c, s)
<1>1. CASE CheckExists(c) \/ LoadSet(c) \/ ReplaceSet(c)
  BY <1>1 DEF CheckExists, LoadSet, ReplaceSet, Bounds
<1>2. CASE IsMember(c) \/ CheckFails(c)
  <2>1. AnswerEffect(c)
    BY <1>2, AnswersHaveEffect
  <2>2. \E s : Goto(c, s)
    BY <2>1 DEF AnswerEffect, Return
  <2> QED BY <1>2, <2>2 DEF IsMember, CheckFails, Bounds
<1>3. CASE SendTx(c)
  BY <1>3 DEF SendTx, Return, Bounds
<1>4. CASE HandleTx(c)
  BY <1>4 DEF HandleTx, Return, Bounds
<1>5. CASE UnfriendStep(c)
  BY <1>5 DEF UnfriendStep, UnfriendDelete, UnfriendUpdate, UnfriendCommit, Return, Bounds
<1>6. CASE BlockTx(c) \/ UnblockTx(c) \/ TxFails(c)
  BY <1>6 DEF BlockTx, UnblockTx, TxFails, Return, Bounds
<1>7. CASE AddBlocked(c) \/ RemoveBlocked(c) \/ InvalidateFrom(c) \/ InvalidateTo(c)
  BY <1>7 DEF AddBlocked, RemoveBlocked, InvalidateFrom, InvalidateTo, Return, Bounds
<1>8. CASE CacheWriteFails(c)
  BY <1>8 DEF CacheWriteFails, Return
<1> QED BY <1>1, <1>2, <1>3, <1>4, <1>5, <1>6, <1>7, <1>8 DEF CheckStep, TxStep, CacheStep

LEMMA CallAlone ==
  ASSUME TablesInv, NEW c \in Calls, CoherentFor(c), CheckStep(c) \/ TxStep(c) \/ CacheStep(c),
         faults = 0, faults' = 0
  PROVE  CoherentFor(c)'
<1>1. ~CheckFails(c)
  BY DEF CheckFails
<1>2. CASE TxFails(c)
  <2>1. TypeOK /\ pc[c] \notin Adjusting
    BY <1>2 DEF TxFails, Adjusting, TablesInv
  <2> QED BY <1>2, <2>1, ReturnAlone DEF TxFails
<1>3. CASE CheckStep(c)
  BY <1>1, <1>3, CheckExistsAlone, LoadSetAlone, ReplaceSetAlone, IsMemberAlone DEF CheckStep
<1>4. CASE TxStep(c)
  BY <1>2, <1>4, SendTxAlone, HandleTxAlone, UnfriendDeleteAlone, UnfriendUpdateAlone,
     UnfriendCommitAlone, BlockTxAlone, UnblockTxAlone DEF TxStep, UnfriendStep
<1> QED BY <1>3, <1>4, CacheAlone

\* A call that begins while none is in progress.
LEMMA BeginAlone ==
  ASSUME TablesInv, NEW c \in Calls, NEW op \in Ops, NEW p \in Pairs, Begin(c, op, p),
         Alone(c), CoherentFor(c)
  PROVE  CoherentFor(c)' /\ Alone(c)'
<1>0. TypeOK /\ pc[c] = "idle" /\ UNCHANGED <<database, caches>>
  BY DEF TablesInv, Begin
<1>1. /\ pc'[c] = IF op = "apply" THEN "exists" ELSE "tx"
      /\ job'[c] = [op |-> op, pair |-> p, check |-> 1]
      /\ \A d \in Calls : d # c => pc'[d] = pc[d]
  BY <1>0 DEF Begin, Goto, TypeOK
<1>2. job'[c].op = op /\ job'[c].check = 1
  BY <1>1
<1>3. CallKnows(c)'
  BY <1>1, <1>2 DEF CallKnows
<1> QED BY <1>0, <1>1, <1>3, QuietAlone DEF Adjusting, Alone

LEMMA ExpireAlone ==
  ASSUME TablesInv, Coherent, NEW a \in Agents, ExpireFriendSet(a) \/ ExpireBlockSet(a)
  PROVE  Coherent'
<1>0. ExpireFriendSet(a) /\ TypeOK
  BY DEF Coherent, BlockSetsFollow, ExpireBlockSet, TablesInv
<1>1. /\ friendSet' = [friendSet EXCEPT ![a] = {}]
      /\ UNCHANGED <<friend, block, req, blockSet, blockTTL, pc, job, snap, held>>
  BY <1>0 DEF ExpireFriendSet, database, Locals
<1>2. /\ \A steps, p : Due(steps, p)' <=> Due(steps, p)
      /\ \A c \in Calls : CallKnows(c)' <=> CallKnows(c)
  BY <1>1 DEF Due, CallKnows, Loaded, Rows, Owner
<1>3. FriendSetsFollow'
  <2> SUFFICES ASSUME NEW b \in Agents
               PROVE  \/ friendSet'[b] \in {{}, {v \in Agents : <<b, v>> \in friend'}}
                      \/ \E v \in Agents : \/ Due({"sadd", "drop1"}, <<b, v>>)'
                                           \/ Due({"sadd", "drop1", "drop2"}, <<v, b>>)'
    BY DEF FriendSetsFollow
  <2>1. friendSet'[b] \in {friendSet[b], {}}
    BY <1>0, <1>1 DEF TypeOK
  <2> QED BY <1>1, <1>2, <2>1 DEF Coherent, FriendSetsFollow
<1>4. BlockSetsFollow'
  BY <1>1, <1>2 DEF Coherent, BlockSetsFollow
<1>5. BlockedNotFriends'
  BY <1>1 DEF Coherent, BlockedNotFriends
<1> QED BY <1>2, <1>3, <1>4, <1>5 DEF Coherent

-----------------------------------------------------------------------------
(* Requests and friendships, while no two calls overlap *)

RequestsFor(c) ==
  /\ AcceptedAreFriends
  /\ pc[c] = "commit" => held[c] = {q \in Both(job[c].pair) : req[q] = "accepted"}

LEMMA RequestsAlone ==
  ASSUME NEW c \in Calls, Alone(c)
  PROVE  RequestsFollow <=> RequestsFor(c)
  BY DEF RequestsFollow, RequestsFor, Alone

LEMMA RequestsAloneNext ==
  ASSUME NEW c \in Calls, Alone(c)', RequestsFor(c)'
  PROVE  RequestsFollow'
  BY DEF RequestsFollow, RequestsFor, Alone

\* A step that leaves the rows alone and does not lead to Unfriend's commit.
LEMMA RequestsQuiet ==
  ASSUME NEW c \in Calls, RequestsFor(c), UNCHANGED <<friend, req>>, pc'[c] # "commit"
  PROVE  RequestsFor(c)'
  BY DEF RequestsFor, AcceptedAreFriends

LEMMA ReturnGoes ==
  ASSUME TypeOK, NEW c \in Calls, Return(c)
  PROVE  pc'[c] = "idle"
  BY DEF Return, Goto, TypeOK

LEMMA SendTxRequests ==
  ASSUME TypeOK, NEW c \in Calls, RequestsFor(c), SendTx(c)
  PROVE  RequestsFor(c)'
<1> DEFINE out == job[c].pair
           in == Rev(out)
<1>1. out \in Pairs /\ in \in Pairs /\ Both(out) = {out, in}
  BY JobFacts, RevFacts DEF Both, SendTx
<1>a. CASE Return(c) /\ UNCHANGED <<friend, req>>
  BY <1>a, ReturnGoes, RequestsQuiet
<1>b. CASE /\ \/ req' = [req EXCEPT ![in] = "accepted"] /\ friend' = friend \cup Both(out)
              \/ req' = [req EXCEPT ![out] = "pending"] /\ friend' = friend
           /\ Goto(c, "drop1")
  <2>1. pc'[c] = "drop1"
    BY <1>b DEF Goto, TypeOK
  <2>2. AcceptedAreFriends'
    BY <1>1, <1>b DEF RequestsFor, AcceptedAreFriends, TypeOK
  <2> QED BY <2>1, <2>2 DEF RequestsFor
<1> QED BY <1>a, <1>b DEF SendTx

LEMMA HandleTxRequests ==
  ASSUME TypeOK, NEW c \in Calls, RequestsFor(c), HandleTx(c)
  PROVE  RequestsFor(c)'
<1> DEFINE p == job[c].pair
<1>1. p \in Pairs /\ p \in Both(p)
  BY JobFacts DEF Both, HandleTx
<1>a. CASE Return(c) /\ UNCHANGED <<friend, req>>
  BY <1>a, ReturnGoes, RequestsQuiet
<1>b. CASE /\ \/ req' = [req EXCEPT ![p] = "accepted"] /\ friend' = friend \cup Both(p)
              \/ /\ \E st \in {"rejected", "cancelled"} : req' = [req EXCEPT ![p] = st]
                 /\ friend' = friend
           /\ Goto(c, "drop1")
  <2>1. pc'[c] = "drop1"
    BY <1>b DEF Goto, TypeOK
  <2>2. AcceptedAreFriends'
    BY <1>1, <1>b DEF RequestsFor, AcceptedAreFriends, TypeOK
  <2> QED BY <2>1, <2>2 DEF RequestsFor
<1>c. CASE /\ req' = [req EXCEPT ![p] = IF job[c].op = "reject" THEN "rejected" ELSE "cancelled"]
           /\ Goto(c, "drop1") /\ UNCHANGED <<friend, Locals>>
  BY <1>b, <1>c
<1> QED BY <1>a, <1>b, <1>c DEF HandleTx

LEMMA UnfriendRequests ==
  ASSUME TypeOK, NEW c \in Calls, RequestsFor(c), UnfriendStep(c)
  PROVE  RequestsFor(c)'
<1> DEFINE p == job[c].pair
<1>1. CASE UnfriendDelete(c)
  <2>1. pc'[c] # "commit"
    BY <1>1, ReturnGoes DEF UnfriendDelete, Goto, TypeOK
  <2> QED BY <1>1, <2>1, RequestsQuiet DEF UnfriendDelete, database
<1>2. CASE UnfriendUpdate(c)
  <2>1. /\ held'[c] = {q \in Both(p) : req[q] = "accepted"}
        /\ UNCHANGED <<friend, req, job>>
    BY <1>2 DEF UnfriendUpdate, database, TypeOK
  <2> QED BY <2>1 DEF RequestsFor, AcceptedAreFriends
<1>3. CASE UnfriendCommit(c)
  <2>1. pc'[c] = "drop1" /\ friend' = friend \ Both(p)
    BY <1>3 DEF UnfriendCommit, Goto, TypeOK
  <2>2. held[c] = {q \in Both(p) : req[q] = "accepted"}
    BY <1>3 DEF RequestsFor, UnfriendCommit
  <2>3. ASSUME NEW q \in Pairs, req'[q] = "accepted" PROVE q \in friend'
    <3>1. q \notin held[c] /\ req[q] = "accepted"
      BY <1>3, <2>3 DEF UnfriendCommit
    <3>2. q \in friend /\ q \notin Both(p)
      BY <2>2, <3>1 DEF RequestsFor, AcceptedAreFriends
    <3> QED BY <2>1, <3>2
  <2> QED BY <2>1, <2>3 DEF RequestsFor, AcceptedAreFriends
<1> QED BY <1>1, <1>2, <1>3 DEF UnfriendStep

LEMMA BlockRequests ==
  ASSUME TypeOK, NEW c \in Calls, RequestsFor(c), BlockTx(c) \/ UnblockTx(c)
  PROVE  RequestsFor(c)'
<1> DEFINE p == job[c].pair
<1>1. p \in Pairs /\ Rev(p) \in Pairs
  BY JobFacts, RevFacts DEF BlockTx, UnblockTx
<1>a. CASE Return(c) /\ UNCHANGED database
  BY <1>a, ReturnGoes, RequestsQuiet DEF database
<1>b. CASE /\ friend' = friend \ Both(p)
           /\ req' = [q \in Pairs |-> IF q \in Both(p) THEN Severed(req[q]) ELSE req[q]]
           /\ Goto(c, "sadd")
  <2>1. pc'[c] = "sadd"
    BY <1>b DEF Goto, TypeOK
  <2>2. ASSUME NEW q \in Pairs, req'[q] = "accepted" PROVE q \in friend'
    <3>1. q \notin Both(p)
      BY <1>b, <2>2 DEF Severed
    <3> QED BY <1>b, <2>2, <3>1 DEF RequestsFor, AcceptedAreFriends
  <2> QED BY <2>1, <2>2 DEF RequestsFor, AcceptedAreFriends
<1>c. CASE /\ req' = IF req[Rev(p)] = "pending" THEN [req EXCEPT ![Rev(p)] = "cancelled"] ELSE req
           /\ Goto(c, "srem") /\ friend' = friend
  <2>1. pc'[c] = "srem"
    BY <1>c DEF Goto, TypeOK
  <2>2. AcceptedAreFriends'
    BY <1>1, <1>c DEF RequestsFor, AcceptedAreFriends, TypeOK
  <2> QED BY <2>1, <2>2 DEF RequestsFor
<1> QED BY <1>a, <1>b, <1>c DEF BlockTx, UnblockTx

LEMMA CallRequests ==
  ASSUME TypeOK, NEW c \in Calls, RequestsFor(c), CheckStep(c) \/ TxStep(c) \/ CacheStep(c)
  PROVE  RequestsFor(c)'
<1>1. CASE CheckExists(c) \/ LoadSet(c) \/ ReplaceSet(c)
  <2>1. pc'[c] # "commit" /\ UNCHANGED <<friend, req>>
    BY <1>1 DEF CheckExists, LoadSet, ReplaceSet, Goto, TypeOK, database
  <2> QED BY <2>1, RequestsQuiet
<1>2. CASE IsMember(c) \/ CheckFails(c)
  <2>1. AnswerEffect(c) /\ UNCHANGED <<friend, req>>
    BY <1>2, AnswersHaveEffect DEF IsMember, CheckFails, database
  <2>2. pc'[c] # "commit"
    BY <2>1, ReturnGoes DEF AnswerEffect, Goto, TypeOK
  <2> QED BY <2>1, <2>2, RequestsQuiet
<1>3. CASE TxFails(c)
  BY <1>3, ReturnGoes, RequestsQuiet DEF TxFails, database
<1>4. CASE CacheStep(c)
  <2>1. UNCHANGED <<friend, req>>
    BY <1>4 DEF CacheStep, AddBlocked, RemoveBlocked, InvalidateFrom, InvalidateTo,
                CacheWriteFails, database
  <2>2. pc'[c] # "commit"
    BY <1>4, ReturnGoes DEF CacheStep, AddBlocked, RemoveBlocked, InvalidateFrom, InvalidateTo,
                            CacheWriteFails, Goto, TypeOK
  <2> QED BY <2>1, <2>2, RequestsQuiet
<1> QED BY <1>1, <1>2, <1>3, <1>4, SendTxRequests, HandleTxRequests, UnfriendRequests, BlockRequests
        DEF CheckStep, TxStep

-----------------------------------------------------------------------------
(* Friends and the requests that made them, while no friend set expires under *)
(* its reader                                                                 *)

FriendsFor(c) == FriendsWereAccepted /\ FriendCheckKnows(c)

LEMMA FriendsAlone ==
  ASSUME NEW c \in Calls, Alone(c)
  PROVE  FriendsFollow <=> FriendsFor(c)
  BY DEF FriendsFollow, FriendsFor, FriendCheckKnows, Alone

LEMMA FriendsAloneNext ==
  ASSUME NEW c \in Calls, Alone(c)', FriendsFor(c)'
  PROVE  FriendsFollow'
  BY DEF FriendsFollow, FriendsFor, FriendCheckKnows, Alone

\* A step that leaves the rows alone and leads neither to a read nor to the
\* transaction.
LEMMA FriendsQuiet ==
  ASSUME NEW c \in Calls, FriendsFor(c), UNCHANGED <<friend, req>>, pc'[c] \notin {"member", "tx"}
  PROVE  FriendsFor(c)'
  BY DEF FriendsFor, FriendsWereAccepted, FriendCheckKnows

\* The set that the friend check is about to read is right.
LEMMA CheckFriends ==
  ASSUME TablesInv, NEW c \in Calls, CoherentFor(c), FriendsFor(c), CheckStep(c), ~CheckFails(c)
  PROVE  FriendsFor(c)'
<1> DEFINE p == job[c].pair
<1>0. TypeOK /\ pc[c] # "idle" /\ UNCHANGED <<friend, req>>
  BY StepGoes, CheckLocals DEF TablesInv, database
<1>1. /\ job[c] \in Job /\ p \in Pairs /\ p[1] \in Agents /\ p[2] \in Agents
      /\ p = <<p[1], p[2]>>
  BY <1>0, JobFacts DEF Pairs
<1>2. job[c].check = 3 => /\ Owner(job[c]) = p[1] /\ Member(job[c]) = p[2]
                          /\ Cached(job[c]) = friendSet[p[1]]
                          /\ Loaded(job[c]) = FriendsOf(p[1])
  BY DEF Owner, Member, Cached, Loaded, Rows, FriendsOf
<1>3. FriendsWereAccepted'
  BY <1>0 DEF FriendsFor, FriendsWereAccepted
<1>4. CASE CheckExists(c)
  <2>1. /\ pc[c] = "exists" /\ job' = job /\ UNCHANGED friendSet
        /\ pc'[c] = IF Cached(job[c]) = {} THEN "load" ELSE "member"
    BY <1>0, <1>4 DEF CheckExists, Goto, Locals, TypeOK
  <2>2. friendSet[p[1]] \in {{}, FriendsOf(p[1])}
    BY <1>1, <2>1 DEF CoherentFor, FriendSetsFor
  <2> QED BY <1>0, <1>2, <1>3, <2>1, <2>2 DEF FriendsFor, FriendCheckKnows, FriendsOf
<1>5. CASE LoadSet(c)
  <2>1. pc'[c] = "fill"
    BY <1>0, <1>5 DEF LoadSet, Goto, TypeOK
  <2> QED BY <1>0, <2>1, FriendsQuiet
<1>6. CASE ReplaceSet(c)
  <2>1. pc[c] = "fill" /\ pc'[c] = "member" /\ job' = job
    BY <1>0, <1>6 DEF ReplaceSet, Goto, Locals, TypeOK
  <2>2. job[c].check = 3 => friendSet'[p[1]] = FriendsOf(p[1])
    <3>1. snap[c] = Loaded(job[c])
      BY <2>1 DEF CoherentFor, CallKnows
    <3> QED BY <1>0, <1>1, <1>2, <1>6, <3>1 DEF ReplaceSet, TypeOK
  <2> QED BY <1>0, <1>3, <2>1, <2>2 DEF FriendsFor, FriendCheckKnows, FriendsOf
<1>7. CASE IsMember(c)
  <2>1. CASE Return(c)
    BY <1>0, <2>1, ReturnGoes, FriendsQuiet
  <2>2. CASE Goto(c, "exists")
    BY <1>0, <2>2, FriendsQuiet DEF Goto, TypeOK
  <2>3. CASE /\ Member(job[c]) \notin Cached(job[c]) /\ job[c].check = 3
             /\ Goto(c, "tx") /\ UNCHANGED Locals
    <3>1. pc'[c] = "tx" /\ job' = job
      BY <1>0, <2>3 DEF Goto, Locals, TypeOK
    <3>2. friendSet[p[1]] = FriendsOf(p[1])
      BY <1>7, <2>3 DEF IsMember, FriendsFor, FriendCheckKnows, FriendsOf
    <3>3. <<p[1], p[2]>> \notin friend
      BY <1>1, <1>2, <2>3, <3>2 DEF FriendsOf
    <3> QED BY <1>0, <1>1, <1>3, <3>1, <3>3 DEF FriendsFor, FriendCheckKnows
  <2> QED BY <1>7, <2>1, <2>2, <2>3 DEF IsMember, Answer
<1> QED BY <1>4, <1>5, <1>6, <1>7 DEF CheckStep

\* A friendship starts with an accepted request and no other one is pending.
LEMMA FriendshipStarts ==
  ASSUME TablesInv, FriendsWereAccepted, NEW p \in Pairs, req[p] = "pending",
         req' = [req EXCEPT ![p] = "accepted"], friend' = friend \cup Both(p)
  PROVE  FriendsWereAccepted'
<1>1. Rev(p) \in Pairs /\ Rev(Rev(p)) = p /\ Rev(p) # p /\ friend \subseteq Pairs
      /\ req \in [Pairs -> Status] /\ req[Rev(p)] # "pending"
  BY RevFacts DEF TablesInv, TypeOK, NoMutualPending
<1>2. req'[p] = "accepted" /\ req'[Rev(p)] # "pending"
  BY <1>1
<1>3. ASSUME NEW q \in friend, q \notin Both(p)
      PROVE  req'[q] = req[q] /\ req'[Rev(q)] = req[Rev(q)]
  <2>1. q \in Pairs /\ Rev(q) \in Pairs /\ Rev(q) # p /\ q # p
    BY <1>1, <1>3, BothFacts, RevFacts DEF Both
  <2> QED BY <1>1, <2>1
<1> SUFFICES ASSUME NEW q \in friend'
             PROVE  /\ "accepted" \in {req'[q], req'[Rev(q)]}
                    /\ "pending" \notin {req'[q], req'[Rev(q)]}
  BY DEF FriendsWereAccepted
<1>4. CASE q \in Both(p)
  BY <1>1, <1>2, <1>4 DEF Both
<1>5. CASE q \notin Both(p)
  BY <1>3, <1>5 DEF FriendsWereAccepted
<1> QED BY <1>4, <1>5

\* Only requests of a pair that is not friends change, or of one that stops to be.
LEMMA OtherFriendships ==
  ASSUME TablesInv, FriendsWereAccepted, NEW p \in Pairs, friend' \subseteq friend,
         friend' \cap Both(p) = {}, \A q \in Pairs \ Both(p) : req'[q] = req[q]
  PROVE  FriendsWereAccepted'
<1> SUFFICES ASSUME NEW q \in friend'
             PROVE  req'[q] = req[q] /\ req'[Rev(q)] = req[Rev(q)]
  BY DEF FriendsWereAccepted
<1>1. q \in Pairs /\ Rev(q) \in Pairs /\ q \notin Both(p) /\ Rev(q) \notin Both(p)
  BY RevFacts, BothFacts DEF TablesInv, TypeOK
<1> QED BY <1>1

\* A pair with a pending request is not friends.
LEMMA PendingNotFriends ==
  ASSUME TablesInv, FriendsWereAccepted, NEW p \in Pairs, req[p] = "pending"
  PROVE  friend \cap Both(p) = {}
<1>1. Rev(Rev(p)) = p
  BY RevFacts
<1> QED BY <1>1 DEF FriendsWereAccepted, Both

LEMMA TxFriends ==
  ASSUME TablesInv, NEW c \in Calls, FriendsFor(c), TxStep(c)
  PROVE  FriendsFor(c)'
<1> DEFINE p == job[c].pair
<1>0. TypeOK /\ pc[c] # "idle" /\ FriendsWereAccepted
  BY StepGoes DEF TablesInv, FriendsFor
<1>1. p \in Pairs /\ Rev(p) \in Pairs /\ Rev(Rev(p)) = p /\ Both(p) = {p, Rev(p)}
      /\ Both(p) \subseteq Pairs /\ req \in [Pairs -> Status]
  BY <1>0, JobFacts, RevFacts DEF Both, TypeOK
<1>2. ASSUME FriendsWereAccepted', pc'[c] \notin {"member", "tx"} PROVE FriendsFor(c)'
  BY <1>2 DEF FriendsFor, FriendCheckKnows
<1>3. ASSUME Return(c), UNCHANGED <<friend, req>> PROVE FriendsFor(c)'
  BY <1>0, <1>3, ReturnGoes, FriendsQuiet
<1>4. ASSUME NEW s \in Steps, Goto(c, s) PROVE pc'[c] = s
  BY <1>0, <1>4 DEF Goto, TypeOK
<1>5. CASE SendTx(c)
  <2>0. p \notin friend /\ Rev(p) \notin friend
    <3>1. p \notin friend
      BY <1>5 DEF SendTx, FriendsFor, FriendCheckKnows
    <3> QED BY <1>1, <3>1 DEF TablesInv, FriendSymmetry
  <2>1. CASE Return(c) /\ UNCHANGED <<friend, req>>
    BY <1>3, <2>1
  <2>2. CASE /\ req[Rev(p)] = "pending"
             /\ req' = [req EXCEPT ![Rev(p)] = "accepted"]
             /\ friend' = friend \cup Both(p)
             /\ Goto(c, "drop1")
    <3>1. Both(Rev(p)) = Both(p)
      BY <1>1 DEF Both
    <3>2. FriendsWereAccepted'
      BY <1>0, <1>1, <2>2, <3>1, FriendshipStarts
    <3> QED BY <1>2, <1>4, <2>2, <3>2 DEF Steps
  <2>3. CASE /\ req' = [req EXCEPT ![p] = "pending"] /\ Goto(c, "drop1") /\ friend' = friend
    <3>1. FriendsWereAccepted'
      BY <1>0, <1>1, <2>0, <2>3, OtherFriendships
    <3> QED BY <1>2, <1>4, <2>3, <3>1 DEF Steps
  <2> QED BY <1>5, <2>1, <2>2, <2>3 DEF SendTx
<1>6. CASE HandleTx(c)
  <2>1. CASE Return(c) /\ UNCHANGED <<friend, req>>
    BY <1>3, <2>1
  <2>2. CASE /\ req[p] = "pending" /\ req' = [req EXCEPT ![p] = "accepted"]
             /\ friend' = friend \cup Both(p) /\ Goto(c, "drop1")
    <3>1. FriendsWereAccepted'
      BY <1>0, <1>1, <2>2, FriendshipStarts
    <3> QED BY <1>2, <1>4, <2>2, <3>1 DEF Steps
  <2>3. CASE /\ req[p] = "pending" /\ friend' = friend /\ Goto(c, "drop1")
             /\ req' = [req EXCEPT ![p] = IF job[c].op = "reject" THEN "rejected" ELSE "cancelled"]
    <3>1. friend \cap Both(p) = {} /\ \A q \in Pairs \ Both(p) : req'[q] = req[q]
      BY <1>0, <1>1, <2>3, PendingNotFriends
    <3>2. FriendsWereAccepted'
      BY <1>0, <1>1, <2>3, <3>1, OtherFriendships
    <3> QED BY <1>2, <1>4, <2>3, <3>2 DEF Steps
  <2> QED BY <1>6, <2>1, <2>2, <2>3 DEF HandleTx
<1>7. CASE UnfriendStep(c)
  <2>1. CASE UnfriendDelete(c) \/ UnfriendUpdate(c)
    <3>1. UNCHANGED <<friend, req>> /\ pc'[c] \notin {"member", "tx"}
      BY <1>0, <2>1, ReturnGoes DEF UnfriendDelete, UnfriendUpdate, database, Goto, TypeOK
    <3> QED BY <3>1, FriendsQuiet
  <2>2. CASE UnfriendCommit(c)
    <3>1. friend' = friend \ Both(p) /\ \A q \in Pairs \ Both(p) : req'[q] = req[q]
      BY <2>2 DEF UnfriendCommit, TablesInv, UnfriendOwnsRows
    <3>2. FriendsWereAccepted'
      BY <1>0, <1>1, <3>1, OtherFriendships
    <3> QED BY <1>2, <1>4, <2>2, <3>2 DEF UnfriendCommit, Steps
  <2> QED BY <1>7, <2>1, <2>2 DEF UnfriendStep
<1>8. CASE BlockTx(c)
  <2>1. CASE Return(c) /\ UNCHANGED database
    BY <1>3, <2>1 DEF database
  <2>2. CASE /\ friend' = friend \ Both(p) /\ Goto(c, "sadd")
             /\ req' = [q \in Pairs |-> IF q \in Both(p) THEN Severed(req[q]) ELSE req[q]]
    <3>1. FriendsWereAccepted'
      BY <1>0, <1>1, <2>2, OtherFriendships
    <3> QED BY <1>2, <1>4, <2>2, <3>1 DEF Steps
  <2> QED BY <1>8, <2>1, <2>2 DEF BlockTx
<1>9. CASE UnblockTx(c)
  <2>1. CASE Return(c) /\ UNCHANGED database
    BY <1>3, <2>1 DEF database
  <2>2. CASE /\ req[Rev(p)] = "pending" /\ req' = [req EXCEPT ![Rev(p)] = "cancelled"]
             /\ Goto(c, "srem") /\ friend' = friend
    <3>1. friend \cap Both(Rev(p)) = {} /\ \A q \in Pairs \ Both(Rev(p)) : req'[q] = req[q]
      BY <1>0, <1>1, <2>2, PendingNotFriends DEF Both
    <3>2. FriendsWereAccepted'
      BY <1>0, <1>1, <2>2, <3>1, OtherFriendships
    <3> QED BY <1>2, <1>4, <2>2, <3>2 DEF Steps
  <2>3. CASE UNCHANGED <<friend, req>> /\ Goto(c, "srem")
    BY <1>4, <2>3, FriendsQuiet DEF Steps
  <2> QED BY <1>9, <2>1, <2>2, <2>3 DEF UnblockTx
<1>10. CASE TxFails(c)
  BY <1>3, <1>10 DEF TxFails, database
<1> QED BY <1>5, <1>6, <1>7, <1>8, <1>9, <1>10 DEF TxStep

LEMMA CallFriends ==
  ASSUME TablesInv, NEW c \in Calls, CoherentFor(c), FriendsFor(c),
         CheckStep(c) \/ TxStep(c) \/ CacheStep(c), faults = 0, faults' = 0
  PROVE  FriendsFor(c)'
<1>1. ~CheckFails(c)
  BY DEF CheckFails
<1>2. CASE CacheStep(c)
  <2>0. TypeOK
    BY DEF TablesInv
  <2>1. UNCHANGED <<friend, req>>
    BY <1>2, <2>0, CacheLocals DEF database
  <2>2. pc'[c] \notin {"member", "tx"}
    BY <1>2, <2>0, ReturnGoes DEF CacheStep, AddBlocked, RemoveBlocked, InvalidateFrom,
                                  InvalidateTo, CacheWriteFails, Goto, TypeOK
  <2> QED BY <2>1, <2>2, FriendsQuiet
<1> QED BY <1>1, <1>2, CheckFriends, TxFriends

LEMMA BeginFriends ==
  ASSUME TypeOK, NEW c \in Calls, NEW op \in Ops, NEW p \in Pairs, Begin(c, op, p), FriendsFor(c)
  PROVE  FriendsFor(c)'
<1>1. /\ pc'[c] = IF op = "apply" THEN "exists" ELSE "tx"
      /\ job'[c] = [op |-> op, pair |-> p, check |-> 1]
      /\ UNCHANGED <<friend, req>>
  BY DEF Begin, Goto, TypeOK, database
<1>2. job'[c].op = op
  BY <1>1
<1> QED BY <1>1, <1>2 DEF FriendsFor, FriendsWereAccepted, FriendCheckKnows

\* A set that expires with nobody about to read it misleads nobody.
LEMMA ExpireFriends ==
  ASSUME TypeOK, FriendsFollow, NEW a \in Agents, ExpireFriendSet(a) \/ ExpireBlockSet(a),
         ~lapsed'
  PROVE  FriendsFollow'
<1>1. UNCHANGED <<friend, req, pc, job>>
  BY DEF ExpireFriendSet, ExpireBlockSet, database, Locals
<1>2. ASSUME NEW c \in Calls, pc[c] = "member", job[c].check = 3
      PROVE  friendSet'[job[c].pair[1]] = friendSet[job[c].pair[1]]
  <2>1. CASE ExpireFriendSet(a)
    <3>1. job[c].pair[1] \in Agents
      BY <1>2, JobFacts
    <3>2. job[c].pair[1] # a
      <4>1. ~Reading(a)
        BY <2>1, Zenon DEF ExpireFriendSet
      <4>2. Owner(job[c]) = job[c].pair[1]
        BY <1>2 DEF Owner
      <4> QED BY <1>2, <4>1, <4>2 DEF Reading
    <3> QED BY <2>1, <3>1, <3>2 DEF ExpireFriendSet, TypeOK
  <2>2. CASE ExpireBlockSet(a)
    BY <2>2 DEF ExpireBlockSet
  <2> QED BY <2>1, <2>2
<1> QED BY <1>1, <1>2 DEF FriendsFollow, FriendsWereAccepted, FriendCheckKnows

\* Every write of a friend set gives it an expiry, or drops it.
LEMMA FriendSetsGetExpiry ==
  ASSUME TypeOK, FriendSetsExpire, [Next]_vars
  PROVE  FriendSetsExpire'
<1>1. ASSUME UNCHANGED <<friendSet, friendTTL>> PROVE FriendSetsExpire'
  BY <1>1 DEF FriendSetsExpire
<1>2. ASSUME NEW a \in Agents, DropFriendSet(a) PROVE FriendSetsExpire'
  BY <1>2 DEF FriendSetsExpire, TypeOK
<1>3. ASSUME NEW c \in Calls, CheckStep(c) PROVE FriendSetsExpire'
  <2>1. CASE CheckExists(c) \/ LoadSet(c) \/ IsMember(c) \/ CheckFails(c)
    BY <1>1, <2>1 DEF CheckExists, LoadSet, IsMember, CheckFails
  <2>2. CASE ReplaceSet(c)
    <3>1. Owner(job[c]) \in Agents
      BY <2>2, JobFacts DEF ReplaceSet
    <3> QED BY <1>1, <2>2, <3>1 DEF ReplaceSet, FriendSetsExpire, TypeOK
  <2> QED BY <1>3, <2>1, <2>2 DEF CheckStep
<1>4. ASSUME NEW c \in Calls, TxStep(c) PROVE FriendSetsExpire'
  BY <1>1, <1>4 DEF TxStep, SendTx, HandleTx, UnfriendStep, UnfriendDelete, UnfriendUpdate,
                    UnfriendCommit, BlockTx, UnblockTx, TxFails
<1>5. ASSUME NEW c \in Calls, CacheStep(c) PROVE FriendSetsExpire'
  <2>1. pc[c] # "idle"
    BY <1>5, StepGoes
  <2>2. job[c].pair[1] \in Agents /\ job[c].pair[2] \in Agents
    BY <2>1, JobFacts
  <2> QED BY <1>1, <1>2, <1>5, <2>2 DEF CacheStep, AddBlocked, RemoveBlocked, InvalidateFrom,
                                        InvalidateTo, CacheWriteFails
<1>6. ASSUME NEW c \in Calls, NEW op \in Ops, NEW p \in Pairs, Begin(c, op, p)
      PROVE  FriendSetsExpire'
  BY <1>1, <1>6 DEF Begin
<1>7. ASSUME NEW a \in Agents, ExpireFriendSet(a) \/ ExpireBlockSet(a) PROVE FriendSetsExpire'
  BY <1>1, <1>2, <1>7 DEF ExpireFriendSet, ExpireBlockSet
<1>8. CASE UNCHANGED vars
  BY <1>1, <1>8 DEF vars
<1> QED BY <1>3, <1>4, <1>5, <1>6, <1>7, <1>8 DEF Next

LEMMA OthersIdle ==
  ASSUME SingleCall, ~overlapped, NEW c \in Calls, pc[c] # "idle"
  PROVE  Alone(c)
  BY DEF SingleCall, Alone

LEMMA RelationsInit == Init => RelationsInv
<1> SUFFICES ASSUME Init PROVE RelationsInv
  OBVIOUS
<1>1. TablesInv
  BY TablesInit
<1>2. \A c \in Calls : pc[c] = "idle"
  BY DEF Init
<1>3. SingleCall
  BY <1>2 DEF SingleCall
<1>4. Coherent
  <2>1. BlockedNotFriends
    BY DEF Init, BlockedNotFriends
  <2>2. \A c \in Calls : CallKnows(c)
    BY <1>2 DEF CallKnows
  <2>3. FriendSetsFollow
    BY DEF Init, FriendSetsFollow
  <2>4. BlockSetsFollow
    <3>1. \A p \in Pairs : ~Due({"srem"}, p)
      BY <1>2 DEF Due
    <3>2. block = {} /\ blockTTL = {} /\ \A a \in Agents : blockSet[a] = {}
      BY DEF Init
    <3>3. \A p \in Pairs : p[1] \in Agents
      BY DEF Pairs
    <3> QED BY <3>1, <3>2, <3>3 DEF BlockSetsFollow
  <2> QED BY <2>1, <2>2, <2>3, <2>4 DEF Coherent
<1>5. RequestsFollow
  BY <1>2 DEF Init, RequestsFollow, AcceptedAreFriends
<1>6. FriendsFollow /\ FriendSetsExpire
  BY <1>2 DEF Init, FriendsFollow, FriendsWereAccepted, FriendCheckKnows, FriendSetsExpire
<1> QED BY <1>1, <1>3, <1>4, <1>5, <1>6 DEF RelationsInv

LEMMA RelationsStep == RelationsInv /\ [Next]_vars => RelationsInv'
<1> SUFFICES ASSUME RelationsInv, [Next]_vars PROVE RelationsInv'
  OBVIOUS
<1>0. /\ TablesInv /\ TablesInv' /\ TypeOK /\ TypeOK' /\ SingleCall
      /\ FriendSetsExpire'
  BY TablesStep, FriendSetsGetExpiry DEF RelationsInv, TablesInv
<1>1. ASSUME NEW c \in Calls, NEW op \in Ops, NEW p \in Pairs, Begin(c, op, p)
      PROVE  /\ SingleCall' /\ (~overlapped' => RequestsFollow') /\ (OneAtATime' => Coherent')
             /\ OneAtATime' /\ ~lapsed' => FriendsFollow'
  <2>1. CASE \E d \in Calls : pc[d] # "idle"
    BY <1>1, <2>1 DEF Begin, SingleCall, OneAtATime
  <2>2. CASE \A d \in Calls : pc[d] = "idle"
    <3>1. Alone(c) /\ faults' = faults /\ overlapped' = overlapped
      BY <1>0, <1>1, <2>2 DEF Alone, Begin, TypeOK
    <3>2. Alone(c)'
      BY <1>0, <1>1, <3>1 DEF Alone, Begin, Goto, TypeOK
    <3>3. ASSUME OneAtATime' PROVE Coherent'
      <4>1. Coherent
        BY <3>1, <3>3 DEF RelationsInv, OneAtATime
      <4>2. CoherentFor(c)
        BY <1>0, <3>1, <4>1, CoherentAlone
      <4>3. CoherentFor(c)'
        BY <1>0, <1>1, <3>1, <4>2, BeginAlone
      <4> QED BY <1>0, <3>2, <4>3, CoherentAloneNext
    <3>4. ASSUME ~overlapped' PROVE RequestsFollow'
      <4>1. RequestsFor(c)
        BY <3>1, <3>4, RequestsAlone DEF RelationsInv
      <4>2. pc'[c] # "commit" /\ UNCHANGED <<friend, req>>
        BY <1>0, <1>1 DEF Begin, Goto, TypeOK, database
      <4> QED BY <3>2, <4>1, <4>2, RequestsQuiet, RequestsAloneNext
    <3>5. ASSUME OneAtATime', ~lapsed' PROVE FriendsFollow'
      <4>1. FriendsFollow
        BY <1>1, <3>1, <3>5 DEF RelationsInv, OneAtATime, Begin
      <4>2. FriendsFor(c)'
        BY <1>0, <1>1, <3>1, <4>1, FriendsAlone, BeginFriends
      <4> QED BY <3>2, <4>2, FriendsAloneNext
    <3> QED BY <3>2, <3>3, <3>4, <3>5 DEF SingleCall, Alone
  <2> QED BY <2>1, <2>2
<1>2. ASSUME NEW c \in Calls, CheckStep(c) \/ TxStep(c) \/ CacheStep(c)
      PROVE  /\ SingleCall' /\ (~overlapped' => RequestsFollow') /\ (OneAtATime' => Coherent')
             /\ OneAtATime' /\ ~lapsed' => FriendsFollow'
  <2>1. /\ pc[c] # "idle" /\ overlapped' = overlapped /\ lapsed' = lapsed
        /\ faults' = faults \/ faults' = faults + 1
    BY <1>2, StepGoes
  <2>2. \A d \in Calls : d # c => pc'[d] = pc[d]
    <3>1. PICK s : Goto(c, s)
      BY <1>2, StepGoes
    <3> QED BY <1>0, <3>1 DEF Goto, TypeOK
  <2>3. ASSUME ~overlapped PROVE Alone(c) /\ Alone(c)'
    <3>1. Alone(c)
      BY <1>0, <2>1, <2>3, OthersIdle
    <3> QED BY <2>2, <3>1 DEF Alone
  <2>4. SingleCall'
    BY <2>1, <2>3 DEF SingleCall, Alone
  <2>5. ASSUME OneAtATime' PROVE Coherent'
    <3>1. OneAtATime /\ faults = 0 /\ faults' = 0 /\ ~overlapped
      BY <1>0, <2>1, <2>5 DEF OneAtATime, TypeOK
    <3>2. Alone(c) /\ Alone(c)' /\ Coherent
      BY <2>3, <3>1 DEF RelationsInv
    <3>3. CoherentFor(c)
      BY <1>0, <3>2, CoherentAlone
    <3>4. CoherentFor(c)'
      BY <1>0, <1>2, <3>1, <3>3, CallAlone
    <3> QED BY <1>0, <3>2, <3>4, CoherentAloneNext
  <2>6. ASSUME ~overlapped' PROVE RequestsFollow'
    <3>1. Alone(c) /\ Alone(c)' /\ RequestsFollow
      BY <2>1, <2>3, <2>6 DEF RelationsInv
    <3>2. RequestsFor(c)'
      BY <1>0, <1>2, <3>1, RequestsAlone, CallRequests
    <3> QED BY <3>1, <3>2, RequestsAloneNext
  <2>7. ASSUME OneAtATime', ~lapsed' PROVE FriendsFollow'
    <3>1. OneAtATime /\ faults = 0 /\ faults' = 0 /\ ~overlapped /\ ~lapsed
      BY <1>0, <2>1, <2>7 DEF OneAtATime, TypeOK
    <3>2. Alone(c) /\ Alone(c)' /\ Coherent /\ FriendsFollow
      BY <2>3, <3>1 DEF RelationsInv
    <3>3. CoherentFor(c) /\ FriendsFor(c)
      BY <1>0, <3>2, CoherentAlone, FriendsAlone
    <3>4. FriendsFor(c)'
      BY <1>0, <1>2, <3>1, <3>3, CallFriends
    <3> QED BY <3>2, <3>4, FriendsAloneNext
  <2> QED BY <2>4, <2>5, <2>6, <2>7
<1>3. ASSUME NEW a \in Agents, ExpireFriendSet(a) \/ ExpireBlockSet(a)
      PROVE  /\ SingleCall' /\ (~overlapped' => RequestsFollow') /\ (OneAtATime' => Coherent')
             /\ OneAtATime' /\ ~lapsed' => FriendsFollow'
  <2>1. UNCHANGED <<pc, overlapped, faults, friend, req, held, job>>
    BY <1>3 DEF ExpireFriendSet, ExpireBlockSet, Bounds, Locals, database
  <2>2. RequestsFollow => RequestsFollow'
    BY <2>1 DEF RequestsFollow, AcceptedAreFriends
  <2>3. ~lapsed' => ~lapsed
    BY <1>3 DEF ExpireFriendSet, ExpireBlockSet, Bounds
  <2>4. OneAtATime' /\ ~lapsed' => FriendsFollow'
    BY <1>0, <1>3, <2>1, <2>3, ExpireFriends DEF RelationsInv, OneAtATime
  <2> QED BY <1>0, <1>3, <2>1, <2>2, <2>4, ExpireAlone DEF RelationsInv, OneAtATime, SingleCall
<1>4. CASE UNCHANGED vars
  <2>1. UNCHANGED <<friend, block, req, friendSet, blockSet, blockTTL, pc, job, snap, held,
                    overlapped, lapsed, faults>>
    BY <1>4 DEF vars, database
  <2>2. SingleCall' /\ (OneAtATime' <=> OneAtATime)
    BY <1>0, <2>1 DEF SingleCall, OneAtATime
  <2>3. /\ \A steps, p : Due(steps, p)' <=> Due(steps, p)
        /\ \A c \in Calls : CallKnows(c)' <=> CallKnows(c)
    BY <2>1 DEF Due, CallKnows, Loaded, Rows, Owner
  <2>4. Coherent => Coherent'
    BY <2>1, <2>3 DEF Coherent, BlockedNotFriends, FriendSetsFollow,
                      BlockSetsFollow
  <2>5. RequestsFollow => RequestsFollow'
    BY <2>1 DEF RequestsFollow, AcceptedAreFriends
  <2>6. FriendsFollow => FriendsFollow'
    BY <2>1 DEF FriendsFollow, FriendsWereAccepted, FriendCheckKnows
  <2> QED BY <1>0, <2>1, <2>2, <2>4, <2>5, <2>6 DEF RelationsInv
<1> QED BY <1>0, <1>1, <1>2, <1>3, <1>4 DEF Next, RelationsInv

\* The whole inductive invariant, the tables under any overlap and the caches
\* while calls come one at a time.
THEOREM RelationsInvariant == Spec => []RelationsInv
<1> QED BY RelationsInit, RelationsStep, PTL DEF Spec

\* While calls come one at a time and nothing fails, a block ends a friendship
\* and none starts under it: SendFriendRequest accepts an incoming request
\* without looking at the block rows, and relies on its cached checks.
THEOREM BlocksEndFriendships == Spec => []BlockedNotFriendsAlone
<1>1. RelationsInv => BlockedNotFriendsAlone
  BY DEF RelationsInv, Coherent, BlockedNotFriendsAlone
<1> QED BY <1>1, RelationsInvariant, PTL

\* While calls come one at a time, whatever fails, no request stays accepted when
\* its friendship ends (Unfriend, BlockUser).
THEOREM AcceptedRequestsAreFriends == Spec => []AcceptedAreFriendsAlone
<1>1. RelationsInv => AcceptedAreFriendsAlone
  BY DEF RelationsInv, RequestsFollow, AcceptedAreFriendsAlone
<1> QED BY <1>1, RelationsInvariant, PTL

\* While calls come one at a time, nothing fails and no friend set expires under
\* its reader, SendFriendRequest asks no friend again: its friend check sees only
\* the cached set, and its transaction does not look at the friendship.
THEOREM FriendsNotAskedAgain == Spec => []FriendsWereAcceptedAlone
<1>1. RelationsInv => FriendsWereAcceptedAlone
  BY DEF RelationsInv, FriendsFollow, FriendsWereAcceptedAlone
<1> QED BY <1>1, RelationsInvariant, PTL

\* While calls come one at a time and nothing fails, what the calls leave in Redis
\* is what a load from the tables would give, for any number of agents.
THEOREM CachesAgreeWithTables == Spec => []CachesCoherent
<1>1. RelationsInv => CachesCoherent
  <2> SUFFICES ASSUME RelationsInv, OneAtATime, \A c \in Calls : pc[c] = "idle",
                      NEW a \in Agents
               PROVE  /\ friendSet[a] # {} => friendSet[a] = {v \in Agents : <<a, v>> \in friend}
                      /\ blockSet[a] # {} => blockSet[a] = {v \in Agents : <<a, v>> \in block}
    BY DEF CachesCoherent
  <2>0. TypeOK /\ Coherent
    BY DEF RelationsInv, TablesInv
  <2>1. \A p : /\ ~Due({"sadd", "drop1"}, p) /\ ~Due({"sadd", "drop1", "drop2"}, p)
               /\ ~Due({"sadd"}, p) /\ ~Due({"srem"}, p)
    BY DEF Due
  <2>2. friendSet[a] \in {{}, {v \in Agents : <<a, v>> \in friend}}
    BY <2>0, <2>1 DEF Coherent, FriendSetsFollow
  <2>3. ASSUME NEW v \in Agents PROVE v \in blockSet[a] <=> <<a, v>> \in block
    <3>1. CASE a = v
      BY <2>0, <3>1 DEF Coherent, BlockSetsFollow, TypeOK, Pairs
    <3>2. CASE a # v
      <4>1. <<a, v>> \in Pairs
        BY <3>2 DEF Pairs
      <4>2. <<a, v>>[2] \in blockSet[<<a, v>>[1]] <=> <<a, v>> \in block
        BY <2>0, <2>1, <4>1 DEF Coherent, BlockSetsFollow
      <4> QED BY <4>2
    <3> QED BY <3>1, <3>2
  <2>4. blockSet[a] = {v \in Agents : <<a, v>> \in block}
    BY <2>0, <2>3 DEF TypeOK
  <2> QED BY <2>2, <2>4
<1> QED BY <1>1, RelationsInvariant, PTL

\* Only the transaction of SendFriendRequest makes a request pending.
LEMMA OnlySendTxAsks ==
  ASSUME TablesInv, [Next]_vars, NEW p \in Pairs, req[p] # "pending", req'[p] = "pending"
  PROVE  \E c \in Calls : SendTx(c) /\ job[c].pair = p
<1>0. TypeOK
  BY DEF TablesInv
<1>1. ASSUME UNCHANGED database PROVE FALSE
  BY <1>1 DEF database
<1>2. ASSUME NEW c \in Calls, CheckStep(c) \/ CacheStep(c) PROVE FALSE
  BY <1>0, <1>1, <1>2, CheckLocals, CacheLocals
<1>3. ASSUME NEW c \in Calls, SendTx(c) PROVE job[c].pair = p
  <2>1. Rev(job[c].pair) \in Pairs /\ job[c].pair \in Pairs
    BY <1>0, <1>3, JobFacts, RevFacts DEF SendTx
  <2> QED BY <1>0, <1>3, <2>1 DEF SendTx, TypeOK
<1>4. ASSUME NEW c \in Calls, HandleTx(c) PROVE FALSE
  <2>1. job[c].pair \in Pairs
    BY <1>0, <1>4, JobFacts DEF HandleTx
  <2> QED BY <1>0, <1>4, <2>1 DEF HandleTx, TypeOK
<1>5. ASSUME NEW c \in Calls, UnfriendStep(c) PROVE FALSE
  BY <1>1, <1>5 DEF UnfriendStep, UnfriendDelete, UnfriendUpdate, UnfriendCommit
<1>6. ASSUME NEW c \in Calls, BlockTx(c) PROVE FALSE
  <2>1. CASE UNCHANGED database
    BY <1>1, <2>1
  <2>2. CASE req' = [q \in Pairs |-> IF q \in Both(job[c].pair) THEN Severed(req[q]) ELSE req[q]]
    <3>1. Severed(req[p]) # "pending"
      BY DEF Severed
    <3> QED BY <2>2, <3>1
  <2> QED BY <1>6, <2>1, <2>2 DEF BlockTx
<1>7. ASSUME NEW c \in Calls, UnblockTx(c) PROVE FALSE
  <2>1. Rev(job[c].pair) \in Pairs
    BY <1>0, <1>7, JobFacts, RevFacts DEF UnblockTx
  <2> QED BY <1>0, <1>1, <1>7, <2>1 DEF UnblockTx, TypeOK
<1>8. ASSUME NEW c \in Calls, TxFails(c) \/ \E op \in Ops, q \in Pairs : Begin(c, op, q) PROVE FALSE
  BY <1>1, <1>8 DEF TxFails, Begin
<1>9. ASSUME NEW a \in Agents, ExpireFriendSet(a) \/ ExpireBlockSet(a) PROVE FALSE
  BY <1>1, <1>9 DEF ExpireFriendSet, ExpireBlockSet
<1>10. ~UNCHANGED vars
  BY <1>1 DEF vars
<1> QED BY <1>2, <1>3, <1>4, <1>5, <1>6, <1>7, <1>8, <1>9, <1>10 DEF Next, TxStep

\* While calls come one at a time and nothing fails, the cached checks that
\* SendFriendRequest makes before its transaction are as good as the rows: a
\* blocked agent's request is never stored.
THEOREM BlocksAreEnforced == Spec => BlockEnforcedAlone
<1>1. RelationsInv /\ [Next]_vars =>
        [OneAtATime => \A p \in Pairs :
           Rev(p) \in block /\ req[p] # "pending" => req'[p] # "pending"]_vars
  <2> SUFFICES ASSUME RelationsInv, [Next]_vars, OneAtATime, NEW p \in Pairs,
                      Rev(p) \in block, req[p] # "pending", req'[p] = "pending"
               PROVE  FALSE
    OBVIOUS
  <2>1. PICK c \in Calls : SendTx(c) /\ job[c].pair = p
    BY OnlySendTxAsks DEF RelationsInv
  <2>2. Both(p) \cap block = {}
    BY <2>1 DEF RelationsInv, Coherent, CallKnows, SendTx
  <2> QED BY <2>2 DEF Both
<1> QED BY <1>1, RelationsInvariant, PTL DEF Spec, BlockEnforcedAlone

=============================================================================
