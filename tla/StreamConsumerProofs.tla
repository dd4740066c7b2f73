------------------------ MODULE StreamConsumerProofs ------------------------
(***************************************************************************)
(* The consumer group for any number of replicas and messages: with timely *)
(* refreshes one replica at a time handles a message, no message is        *)
(* acknowledged before it is settled, and no message is handed to handlers *)
(* more often than its retry budget allows.                                *)
(***************************************************************************)
EXTENDS StreamConsumer, FiniteSetTheorems, TLAPS

USE MsgsAssumption, ParametersAssumption

LEMMA OldestSubset == ASSUME NEW S PROVE Oldest(S) \subseteq S
  BY DEF Oldest

LEMMA GroupInit == Init => GroupInv
<1> SUFFICES ASSUME Init PROVE GroupInv
  OBVIOUS
<1>1. TypeOK
  BY DEF Init, TypeOK, DispState, TaskState
<1>2. LeaseOwnsEntry /\ DispatcherInv /\ VerdictInv /\ AckedIsSettled
  BY DEF Init, LeaseOwnsEntry, DispatcherInv, VerdictInv, AckedIsSettled
<1> QED BY <1>1, <1>2 DEF GroupInv

-----------------------------------------------------------------------------
(* The dispatcher *)

LEMMA PollStep ==
  ASSUME GroupInv, NEW r \in Replicas, Poll(r)
  PROVE  GroupInv'
<1> DEFINE found == Oldest({m \in Msgs : entry[m] = "pending" /\ m \in idle}) \ Active(r)
           over == {m \in found : count[m] >= MaxRetries}
<1>0. TypeOK /\ disp[r] = "poll" /\ UNCHANGED <<log, batch, task, live, history, faults>>
  BY DEF GroupInv, Poll
<1>1. \A m \in found : m \in Msgs /\ task[r][m] = "none" /\ entry[m] = "pending"
  BY OldestSubset DEF Active
<1>2. /\ disp' \in [Replicas -> DispState] /\ \A q \in Replicas : q # r => disp'[q] = disp[q]
      /\ fresh' \subseteq Replicas
  BY <1>0 DEF Poll, Goto, TypeOK, DispState
<1>3. \/ UNCHANGED <<listed, spent>>
      \/ /\ listed' = [listed EXCEPT ![r] = found]
         /\ spent' = [spent EXCEPT ![r] = over]
         /\ disp'[r] = "claim"
  BY <1>0 DEF Poll, Goto, TypeOK
<1>a. found \in SUBSET Msgs /\ over \in SUBSET Msgs
  BY <1>1
<1>b. \A m \in over : m \in found /\ count[m] = MaxRetries
  <2> SUFFICES ASSUME NEW m \in over PROVE count[m] = MaxRetries
    OBVIOUS
  <2>1. count[m] \in 0..MaxRetries /\ count[m] >= MaxRetries
    BY <1>0, <1>1 DEF TypeOK
  <2> QED BY <2>1
<1> HIDE DEF found, over
<1>4. TypeOK'
  <2>1. listed' \in [Replicas -> SUBSET Msgs] /\ spent' \in [Replicas -> SUBSET Msgs]
    <3>1. CASE UNCHANGED <<listed, spent>>
      BY <1>0, <3>1 DEF TypeOK
    <3>2. ASSUME NEW S \in SUBSET Msgs, NEW f \in [Replicas -> SUBSET Msgs]
          PROVE  [f EXCEPT ![r] = S] \in [Replicas -> SUBSET Msgs]
      OBVIOUS
    <3>3. listed \in [Replicas -> SUBSET Msgs] /\ spent \in [Replicas -> SUBSET Msgs]
      BY <1>0 DEF TypeOK
    <3> QED BY <1>a, <1>3, <3>1, <3>2, <3>3
  <2> QED BY <1>0, <1>2, <2>1 DEF TypeOK, log, history
<1>5. LeaseOwnsEntry' /\ VerdictInv' /\ AckedIsSettled'
  BY <1>0 DEF GroupInv, LeaseOwnsEntry, VerdictInv, AckedIsSettled, Owns, log, history
<1>6. DispatcherInv'
  <2> SUFFICES ASSUME NEW q \in Replicas, NEW m \in Msgs
               PROVE  /\ m \in batch[q] => disp'[q] \in {"triage", "lease"}
                      /\ m \in listed'[q] => task[q][m] = "none" /\ disp'[q] = "claim"
                      /\ m \in spent'[q] => entry[m] # "unread" /\ count[m] = MaxRetries
    BY <1>0 DEF GroupInv, DispatcherInv, log
  <2>1. m \in batch[q] => q # r
    BY <1>0 DEF GroupInv, DispatcherInv
  <2>2. CASE q # r
    BY <1>0, <1>2, <1>3, <2>2 DEF GroupInv, DispatcherInv, TypeOK
  <2>3. CASE q = r /\ UNCHANGED <<listed, spent>>
    BY <1>0, <2>1, <2>3 DEF GroupInv, DispatcherInv
  <2>4. CASE q = r /\ listed' = [listed EXCEPT ![r] = found]
             /\ spent' = [spent EXCEPT ![r] = over]
             /\ disp'[r] = "claim"
    <3>1. listed'[r] = found /\ spent'[r] = over
      BY <1>0, <2>4 DEF TypeOK
    <3> QED BY <1>1, <1>b, <2>1, <2>4, <3>1
  <2> QED BY <1>3, <2>2, <2>3, <2>4
<1> QED BY <1>4, <1>5, <1>6 DEF GroupInv

\* A claim takes only idle entries, and an entry under a believed lease is not
\* idle.
LEMMA ClaimStep ==
  ASSUME GroupInv, NEW r \in Replicas, Claim(r)
  PROVE  GroupInv'
<1> DEFINE claimed == {m \in listed[r] : entry[m] = "pending" /\ m \in idle}
<1>0. TypeOK /\ disp[r] = "claim" /\ UNCHANGED <<entry, dead, fresh, task, live, history>>
  BY DEF GroupInv, Claim
<1>1. \A m \in claimed : m \in Msgs /\ task[r][m] = "none"
  BY <1>0 DEF GroupInv, DispatcherInv, TypeOK
<1>2. /\ owner' = [m \in Msgs |-> IF m \in claimed THEN r ELSE owner[m]]
      /\ count' = [m \in Msgs |->
                    IF m \in claimed /\ count[m] < MaxRetries THEN count[m] + 1 ELSE count[m]]
      /\ idle' = idle \ claimed
      /\ listed' = [listed EXCEPT ![r] = {}]
  BY DEF Claim
<1>a. claimed \subseteq Msgs
  BY <1>1
<1>3. /\ disp' \in [Replicas -> DispState] /\ \A q \in Replicas : q # r => disp'[q] = disp[q]
      /\ faults' \in 0..MaxFaults
  <2>1. /\ disp' \in [Replicas -> DispState] /\ \A q \in Replicas : q # r => disp'[q] = disp[q]
    BY <1>0 DEF Claim, Goto, TypeOK, DispState
  <2>2. faults' \in 0..MaxFaults
    BY <1>0 DEF Claim, Fault, TypeOK
  <2> QED BY <2>1, <2>2
<1>4. \/ batch' = [batch EXCEPT ![r] = claimed] /\ disp'[r] = "triage" /\ UNCHANGED spent
      \/ spent' = [spent EXCEPT ![r] = {}] /\ UNCHANGED batch
  BY <1>0 DEF Claim, Goto, TypeOK
<1>5. \A m \in Msgs : count'[m] \in 0..MaxRetries /\ (count[m] = MaxRetries => count'[m] = MaxRetries)
  BY <1>0, <1>2 DEF TypeOK
<1>6. TypeOK'
  <2>1. /\ batch' \in [Replicas -> SUBSET Msgs] /\ spent' \in [Replicas -> SUBSET Msgs]
        /\ listed' \in [Replicas -> SUBSET Msgs] /\ idle' \subseteq Msgs
        /\ owner' \in [Msgs -> Replicas \cup {Gone}]
    <3> HIDE DEF claimed
    <3> QED BY <1>0, <1>a, <1>2, <1>4 DEF TypeOK
  <2>2. count' \in [Msgs -> 0..MaxRetries]
    BY <1>2, <1>5
  <2> QED BY <1>0, <1>3, <2>1, <2>2 DEF TypeOK, history
<1>7. LeaseOwnsEntry'
  BY <1>0, <1>1, <1>2 DEF GroupInv, LeaseOwnsEntry, Owns, history
<1>8. VerdictInv' /\ AckedIsSettled'
  BY <1>0, <1>5 DEF GroupInv, VerdictInv, AckedIsSettled, history
<1>9. DispatcherInv'
  <2> SUFFICES ASSUME NEW q \in Replicas, NEW m \in Msgs
               PROVE  /\ m \in batch'[q] => task[q][m] = "none" /\ disp'[q] \in {"triage", "lease"}
                      /\ m \in listed'[q] => task[q][m] = "none" /\ disp'[q] = "claim"
                      /\ m \in spent'[q] => entry[m] # "unread" /\ count'[m] = MaxRetries
    BY <1>0 DEF GroupInv, DispatcherInv
  <2>1. m \in spent'[q] => m \in spent[q]
    BY <1>0, <1>4 DEF TypeOK
  <2>2. m \in spent'[q] => entry[m] # "unread" /\ count'[m] = MaxRetries
    BY <1>5, <2>1 DEF GroupInv, DispatcherInv
  <2>3. CASE q # r
    BY <1>0, <1>2, <1>3, <1>4, <2>2, <2>3 DEF GroupInv, DispatcherInv, TypeOK
  <2>4. CASE q = r
    <3>1. m \notin batch[r]
      BY <1>0 DEF GroupInv, DispatcherInv
    <3> QED BY <1>0, <1>1, <1>2, <1>4, <2>2, <2>4, <3>1 DEF TypeOK
  <2> QED BY <2>3, <2>4
<1> QED BY <1>6, <1>7, <1>8, <1>9 DEF GroupInv

\* What an owner-fenced script does, whether it ran or failed.
FencedEffect(r, m) ==
  AckOwned(r, m) \/ DeadLetterAndAckOwned(r, m) \/ UNCHANGED <<entry, dead>>

LEMMA FencedFacts ==
  ASSUME TypeOK, NEW r \in Replicas, NEW m \in Msgs, FencedEffect(r, m)
  PROVE  /\ entry' \in [Msgs -> {"unread", "pending", "acked"}]
         /\ dead' \subseteq Msgs /\ dead \subseteq dead'
         /\ \A n \in Msgs : entry'[n] # entry[n] => n = m /\ Owns(r, m) /\ entry'[n] = "acked"
         /\ \A n \in Msgs : entry[n] # "unread" <=> entry'[n] # "unread"
  BY DEF FencedEffect, AckOwned, DeadLetterAndAckOwned, Owns, TypeOK

\* A fenced script keeps the leases when nobody has one on the message it acts
\* on as owner, and keeps what is acknowledged settled when that message is.
LEMMA FencedLease ==
  ASSUME GroupInv, NEW r \in Replicas, NEW m \in Msgs, FencedEffect(r, m),
         UNCHANGED <<owner, idle>>,
         \A q \in Replicas : live'[q] \subseteq live[q],
         UNCHANGED late,
         \A q \in Replicas : m \notin late /\ Owns(r, m) => m \notin live'[q]
  PROVE  LeaseOwnsEntry'
<1> SUFFICES ASSUME NEW q \in Replicas, NEW n \in Msgs \ late, n \in live'[q]
             PROVE  Owns(q, n)' /\ n \notin idle'
  BY DEF LeaseOwnsEntry
<1>0. TypeOK
  BY DEF GroupInv
<1>1. Owns(q, n) /\ n \notin idle
  BY DEF GroupInv, LeaseOwnsEntry
<1>2. entry'[n] # entry[n] => n = m /\ Owns(r, m)
  BY <1>0, FencedFacts
<1>3. entry'[n] = entry[n]
  BY <1>2
<1> QED BY <1>1, <1>3 DEF Owns

LEMMA FencedSettled ==
  ASSUME GroupInv, NEW r \in Replicas, NEW m \in Msgs, FencedEffect(r, m),
         UNCHANGED <<count, verdicts>>,
         entry'[m] = "acked" =>
           \/ entry[m] = "acked" \/ "success" \in verdicts[m]
           \/ DeadLetter /\ m \in dead'
           \/ ~DeadLetter /\ ("failure" \in verdicts[m] \/ count[m] = MaxRetries)
  PROVE  AckedIsSettled'
<1> SUFFICES ASSUME NEW n \in Msgs, entry'[n] = "acked"
             PROVE  \/ "success" \in verdicts[n]
                    \/ DeadLetter /\ n \in dead'
                    \/ ~DeadLetter /\ ("failure" \in verdicts[n] \/ count[n] = MaxRetries)
  BY DEF AckedIsSettled
<1>0. TypeOK
  BY DEF GroupInv
<1>1. CASE entry[n] = "acked"
  BY <1>0, <1>1, FencedFacts DEF GroupInv, AckedIsSettled
<1>2. CASE entry[n] # "acked"
  <2>1. n = m
    BY <1>0, <1>2, FencedFacts
  <2> QED BY <1>2, <2>1
<1> QED BY <1>1, <1>2

\* The rest of a batch is let go when a script fails, and goes on otherwise.
LEMMA ExhaustStep ==
  ASSUME GroupInv, NEW r \in Replicas, NEW m \in Msgs, Exhaust(r, m) \/ ExhaustFails(r, m)
  PROVE  GroupInv'
<1>0. /\ TypeOK /\ disp[r] = "triage" /\ m \in batch[r] /\ m \in spent[r]
      /\ UNCHANGED <<owner, idle, count, fresh, listed, task, live, history>>
  BY DEF GroupInv, Exhaust, ExhaustFails, First
<1>1. FencedEffect(r, m)
  BY DEF Exhaust, ExhaustFails, FencedEffect
<1>2. /\ disp' \in [Replicas -> DispState] /\ \A q \in Replicas : q # r => disp'[q] = disp[q]
      /\ faults' \in 0..MaxFaults
  <2>1. /\ disp' \in [Replicas -> DispState] /\ \A q \in Replicas : q # r => disp'[q] = disp[q]
    <3>1. disp \in [Replicas -> DispState] /\ "poll" \in DispState
      BY <1>0 DEF TypeOK, DispState
    <3>2. UNCHANGED disp \/ disp' = [disp EXCEPT ![r] = "poll"]
      BY DEF Exhaust, ExhaustFails, Goto
    <3> QED BY <3>1, <3>2
  <2>2. faults' \in 0..MaxFaults
    <3>1. faults \in 0..MaxFaults /\ (UNCHANGED faults \/ (faults < MaxFaults /\ faults' = faults + 1))
      BY <1>0 DEF Exhaust, ExhaustFails, Fault, TypeOK
    <3> QED BY <3>1
  <2> QED BY <2>1, <2>2
<1>3. /\ batch' \in [Replicas -> SUBSET Msgs] /\ spent' \in [Replicas -> SUBSET Msgs]
      /\ \A q \in Replicas : batch'[q] \subseteq batch[q] /\ spent'[q] \subseteq spent[q]
      /\ batch'[r] # {} => disp'[r] = "triage"
  <2>0. batch \in [Replicas -> SUBSET Msgs] /\ spent \in [Replicas -> SUBSET Msgs]
    BY <1>0 DEF TypeOK
  <2>1. CASE batch' = [batch EXCEPT ![r] = @ \ {m}] /\ UNCHANGED <<spent, disp>>
    BY <1>0, <2>0, <2>1
  <2>2. CASE batch' = [batch EXCEPT ![r] = {}] /\ spent' = [spent EXCEPT ![r] = {}]
    BY <2>0, <2>2
  <2> QED BY <2>1, <2>2 DEF Exhaust, ExhaustFails
<1>4. TypeOK'
  BY <1>0, <1>1, <1>2, <1>3, FencedFacts DEF TypeOK, history
<1>5. ASSUME m \notin late, Owns(r, m), NEW q \in Replicas, m \in live[q] PROVE FALSE
  <2>1. Owns(q, m)
    BY <1>5 DEF GroupInv, LeaseOwnsEntry
  <2>2. q = r
    BY <1>5, <2>1 DEF Owns
  <2> QED BY <1>0, <1>5, <2>2 DEF GroupInv, DispatcherInv
<1>6. LeaseOwnsEntry'
  BY <1>0, <1>1, <1>5, FencedLease DEF history
<1>7. DispatcherInv'
  <2> SUFFICES ASSUME NEW q \in Replicas, NEW n \in Msgs
               PROVE  /\ n \in live[q] => task[q][n] # "none"
                      /\ task[q][n] # "none" => entry'[n] # "unread"
                      /\ n \in batch'[q] => task[q][n] = "none" /\ disp'[q] \in {"triage", "lease"}
                      /\ n \in listed[q] => task[q][n] = "none" /\ disp'[q] = "claim"
                      /\ n \in spent'[q] => entry'[n] # "unread" /\ count[n] = MaxRetries
    BY <1>0 DEF DispatcherInv
  <2>1. entry'[n] # "unread" <=> entry[n] # "unread"
    BY <1>0, <1>1, FencedFacts
  <2>2. n \in listed[q] => q # r
    BY <1>0 DEF GroupInv, DispatcherInv
  <2> QED BY <1>2, <1>3, <2>1, <2>2 DEF GroupInv, DispatcherInv
<1>8. VerdictInv'
  BY <1>0 DEF GroupInv, VerdictInv, history
<1>9. AckedIsSettled'
  <2>1. entry'[m] = "acked" => entry[m] = "acked" \/ (DeadLetter /\ m \in dead') \/ (~DeadLetter /\ count[m] = MaxRetries)
    <3>1. count[m] = MaxRetries
      BY <1>0 DEF GroupInv, DispatcherInv
    <3>2. CASE DeadLetter
      BY <1>0, <3>2 DEF Exhaust, ExhaustFails, AckOwned, DeadLetterAndAckOwned, TypeOK
    <3> QED BY <3>1, <3>2
  <2> QED BY <1>0, <1>1, <2>1, FencedSettled DEF GroupInv, history
<1> QED BY <1>4, <1>6, <1>7, <1>8, <1>9 DEF GroupInv

\* Steps that only move the dispatcher along.
LEMMA EndTriageStep ==
  ASSUME GroupInv, NEW r \in Replicas, EndTriage(r)
  PROVE  GroupInv'
<1>0. TypeOK /\ disp[r] = "triage" /\ UNCHANGED <<log, listed, batch, task, live, history, faults>>
  BY DEF GroupInv, EndTriage
<1>1. /\ disp' \in [Replicas -> DispState] /\ \A q \in Replicas : q # r => disp'[q] = disp[q]
      /\ fresh' \subseteq Replicas
      /\ spent' \in [Replicas -> SUBSET Msgs] /\ \A q \in Replicas : spent'[q] \subseteq spent[q]
      /\ batch[r] # {} => disp'[r] = "lease"
  BY <1>0 DEF EndTriage, Goto, TypeOK, DispState
<1>2. TypeOK'
  BY <1>0, <1>1 DEF TypeOK, log, history
<1>3. LeaseOwnsEntry' /\ VerdictInv' /\ AckedIsSettled'
  BY <1>0 DEF GroupInv, LeaseOwnsEntry, VerdictInv, AckedIsSettled, Owns, log, history
<1>4. DispatcherInv'
  <2>1. \A m \in Msgs : m \notin listed[r]
    BY <1>0 DEF GroupInv, DispatcherInv
  <2> QED BY <1>0, <1>1, <2>1 DEF GroupInv, DispatcherInv, log
<1> QED BY <1>2, <1>3, <1>4 DEF GroupInv

LEMMA CommandFailsStep ==
  ASSUME GroupInv, NEW r \in Replicas, CommandFails(r)
  PROVE  GroupInv'
<1>0. /\ TypeOK /\ disp[r] \in {"claim", "read"} /\ faults' \in 0..MaxFaults
      /\ UNCHANGED <<log, fresh, batch, task, live, history>>
  BY DEF GroupInv, CommandFails, Fault, TypeOK
<1>1. /\ disp' \in [Replicas -> DispState] /\ \A q \in Replicas : q # r => disp'[q] = disp[q]
      /\ spent' \in [Replicas -> SUBSET Msgs] /\ \A q \in Replicas : spent'[q] \subseteq spent[q]
      /\ listed' \in [Replicas -> SUBSET Msgs] /\ \A q \in Replicas : listed'[q] \subseteq listed[q]
      /\ listed'[r] = {}
  BY <1>0 DEF CommandFails, Goto, TypeOK, DispState
<1>2. TypeOK'
  BY <1>0, <1>1 DEF TypeOK, log, history
<1>3. LeaseOwnsEntry' /\ VerdictInv' /\ AckedIsSettled'
  BY <1>0 DEF GroupInv, LeaseOwnsEntry, VerdictInv, AckedIsSettled, Owns, log, history
<1>4. DispatcherInv'
  <2>1. \A m \in Msgs : m \notin batch[r]
    BY <1>0 DEF GroupInv, DispatcherInv
  <2> QED BY <1>0, <1>1, <2>1 DEF GroupInv, DispatcherInv, log
<1> QED BY <1>2, <1>3, <1>4 DEF GroupInv

LEMMA EndLeaseSendStep ==
  ASSUME GroupInv, NEW r \in Replicas, EndLease(r) \/ EndSend(r)
  PROVE  GroupInv'
<1>0. /\ TypeOK /\ disp[r] \in {"lease", "send"}
      /\ UNCHANGED <<log, fresh, listed, spent, batch, task, live, history, faults>>
  BY DEF GroupInv, EndLease, EndSend
<1>1. /\ disp' \in [Replicas -> DispState] /\ \A q \in Replicas : q # r => disp'[q] = disp[q]
  BY <1>0 DEF EndLease, EndSend, Goto, TypeOK, DispState
<1>2. TypeOK'
  BY <1>0, <1>1 DEF TypeOK, log, history
<1>3. LeaseOwnsEntry' /\ VerdictInv' /\ AckedIsSettled'
  BY <1>0 DEF GroupInv, LeaseOwnsEntry, VerdictInv, AckedIsSettled, Owns, log, history
<1>4. \A m \in Msgs : m \notin listed[r] /\ m \notin batch[r]
  BY <1>0 DEF GroupInv, DispatcherInv, EndLease, EndSend
<1>5. DispatcherInv'
  BY <1>0, <1>1, <1>4 DEF GroupInv, DispatcherInv, log
<1> QED BY <1>2, <1>3, <1>5 DEF GroupInv

LEMMA ReadFreshStep ==
  ASSUME GroupInv, NEW r \in Replicas, ReadFresh(r)
  PROVE  GroupInv'
<1> DEFINE new == Oldest({m \in Msgs : entry[m] = "unread"})
<1>0. TypeOK /\ disp[r] = "read" /\ UNCHANGED <<dead, fresh, listed, spent, task, live, history>>
  BY DEF GroupInv, ReadFresh
<1>1. new \in SUBSET Msgs /\ \A m \in new : entry[m] = "unread"
  BY OldestSubset
<1>2. /\ entry' = [m \in Msgs |-> IF m \in new THEN "pending" ELSE entry[m]]
      /\ owner' = [m \in Msgs |-> IF m \in new THEN r ELSE owner[m]]
      /\ count' = [m \in Msgs |-> IF m \in new THEN 1 ELSE count[m]]
      /\ idle' = idle \ new
  BY DEF ReadFresh
<1>3. /\ disp' \in [Replicas -> DispState] /\ \A q \in Replicas : q # r => disp'[q] = disp[q]
      /\ faults' \in 0..MaxFaults
      /\ \/ batch' = [batch EXCEPT ![r] = new] /\ disp'[r] = "lease"
         \/ UNCHANGED batch
  <2>0. /\ disp \in [Replicas -> DispState] /\ faults \in 0..MaxFaults
        /\ "lease" \in DispState /\ "poll" \in DispState
    BY <1>0 DEF TypeOK, DispState
  <2>1. CASE batch' = [batch EXCEPT ![r] = new] /\ Goto(r, "lease") /\ UNCHANGED faults
    BY <2>0, <2>1 DEF Goto
  <2>2. CASE Fault /\ Goto(r, "poll") /\ UNCHANGED batch
    BY <2>0, <2>2 DEF Goto, Fault
  <2> QED BY <2>1, <2>2 DEF ReadFresh
<1> HIDE DEF new
<1>4. TypeOK'
  <2>1. count' \in [Msgs -> 0..MaxRetries]
    BY <1>0, <1>2 DEF TypeOK
  <2>2. /\ entry' \in [Msgs -> {"unread", "pending", "acked"}]
        /\ owner' \in [Msgs -> Replicas \cup {Gone}] /\ idle' \subseteq Msgs
    BY <1>0, <1>2 DEF TypeOK
  <2>3. batch' \in [Replicas -> SUBSET Msgs]
    BY <1>0, <1>1, <1>3 DEF TypeOK
  <2> QED BY <1>0, <1>3, <2>1, <2>2, <2>3 DEF TypeOK, history
<1>5. LeaseOwnsEntry'
  BY <1>0, <1>1, <1>2 DEF GroupInv, LeaseOwnsEntry, Owns, history
<1>6. VerdictInv' /\ AckedIsSettled'
  BY <1>0, <1>1, <1>2 DEF GroupInv, VerdictInv, AckedIsSettled, history
<1>7. DispatcherInv'
  <2> SUFFICES ASSUME NEW q \in Replicas, NEW m \in Msgs
               PROVE  /\ m \in live[q] => task[q][m] # "none"
                      /\ task[q][m] # "none" => entry'[m] # "unread"
                      /\ m \in batch'[q] => task[q][m] = "none" /\ disp'[q] \in {"triage", "lease"}
                      /\ m \in listed[q] => task[q][m] = "none" /\ disp'[q] = "claim"
                      /\ m \in spent[q] => entry'[m] # "unread" /\ count'[m] = MaxRetries
    BY <1>0 DEF DispatcherInv
  <2>1. m \in new => \A p \in Replicas : task[p][m] = "none" /\ m \notin spent[p]
    BY <1>1 DEF GroupInv, DispatcherInv
  <2>2. q = r => m \notin batch[q] /\ m \notin listed[q]
    BY <1>0 DEF GroupInv, DispatcherInv
  <2>3. m \in batch'[q] => m \in batch[q] \/ (q = r /\ m \in new /\ disp'[q] = "lease")
    BY <1>0, <1>3 DEF TypeOK
  <2> QED BY <1>2, <1>3, <2>1, <2>2, <2>3 DEF GroupInv, DispatcherInv
<1> QED BY <1>4, <1>5, <1>6, <1>7 DEF GroupInv

\* Changing one task, adding or removing one lease.
LEMMA TaskChange ==
  ASSUME NEW f \in [Replicas -> [Msgs -> TaskState]], NEW r \in Replicas, NEW m \in Msgs,
         NEW st \in TaskState, NEW g, g = [f EXCEPT ![r][m] = st]
  PROVE  /\ g \in [Replicas -> [Msgs -> TaskState]]
         /\ \A q \in Replicas, n \in Msgs : g[q][n] = IF q = r /\ n = m THEN st ELSE f[q][n]
  OBVIOUS

LEMMA LiveChange ==
  ASSUME NEW f \in [Replicas -> SUBSET Msgs], NEW r \in Replicas, NEW m \in Msgs,
         NEW g, \/ g = [f EXCEPT ![r] = @ \cup {m}]
                \/ g = [f EXCEPT ![r] = @ \ {m}]
  PROVE  /\ g \in [Replicas -> SUBSET Msgs]
         /\ \A q \in Replicas, n \in Msgs : <<q, n>> # <<r, m>> => (n \in g[q] <=> n \in f[q])
         /\ g = [f EXCEPT ![r] = @ \ {m}] => m \notin g[r]
<1>1. CASE g = [f EXCEPT ![r] = @ \cup {m}]
  BY <1>1
<1>2. CASE g = [f EXCEPT ![r] = @ \ {m}]
  BY <1>2
<1> QED BY <1>1, <1>2

LEMMA StartLeaseStep ==
  ASSUME GroupInv, NEW r \in Replicas, NEW m \in Msgs, StartLease(r, m) \/ StartLeaseFails(r, m)
  PROVE  GroupInv'
<1>0. /\ TypeOK /\ disp[r] = "lease" /\ m \in batch[r]
      /\ batch' = [batch EXCEPT ![r] = @ \ {m}]
      /\ UNCHANGED <<entry, owner, count, dead, disp, fresh, listed, spent, history>>
  BY DEF GroupInv, StartLease, StartLeaseFails, First
<1>1. \/ /\ Owns(r, m) /\ idle' = idle \ {m}
         /\ task' = [task EXCEPT ![r][m] = "leased"]
         /\ live' = [live EXCEPT ![r] = @ \cup {m}]
      \/ UNCHANGED <<task, live>> /\ idle' \subseteq idle
  BY DEF StartLease, StartLeaseFails
<1>2. batch' \in [Replicas -> SUBSET Msgs] /\ \A q \in Replicas : batch'[q] \subseteq batch[q]
  BY <1>0 DEF TypeOK
<1>2a. m \notin batch'[r]
  BY <1>0 DEF TypeOK
<1>3. /\ task' \in [Replicas -> [Msgs -> TaskState]] /\ live' \in [Replicas -> SUBSET Msgs]
      /\ \A q \in Replicas, n \in Msgs : <<q, n>> # <<r, m>> =>
           task'[q][n] = task[q][n] /\ (n \in live'[q] <=> n \in live[q])
      /\ \/ Owns(r, m) /\ m \notin idle' /\ task'[r][m] = "leased"
         \/ task'[r][m] = task[r][m] /\ (m \in live'[r] <=> m \in live[r])
  <2>0. task \in [Replicas -> [Msgs -> TaskState]] /\ live \in [Replicas -> SUBSET Msgs]
    BY <1>0 DEF TypeOK
  <2>1. CASE UNCHANGED <<task, live>>
    BY <2>0, <2>1
  <2>2. CASE /\ Owns(r, m) /\ idle' = idle \ {m}
             /\ task' = [task EXCEPT ![r][m] = "leased"]
             /\ live' = [live EXCEPT ![r] = @ \cup {m}]
    <3>1. "leased" \in TaskState
      BY DEF TaskState
    <3>2. /\ task' \in [Replicas -> [Msgs -> TaskState]]
          /\ \A q \in Replicas, n \in Msgs :
               task'[q][n] = IF q = r /\ n = m THEN "leased" ELSE task[q][n]
      BY <2>0, <2>2, <3>1, TaskChange
    <3>3. /\ live' \in [Replicas -> SUBSET Msgs]
          /\ \A q \in Replicas, n \in Msgs : <<q, n>> # <<r, m>> => (n \in live'[q] <=> n \in live[q])
      BY <2>0, <2>2, LiveChange
    <3> QED BY <2>2, <3>2, <3>3
  <2> QED BY <1>1, <2>1, <2>2
<1>4. faults' \in 0..MaxFaults /\ idle' \subseteq idle
  BY <1>0, <1>1 DEF StartLease, StartLeaseFails, Fault, TypeOK
<1>5. TypeOK'
  BY <1>0, <1>2, <1>3, <1>4 DEF TypeOK, history
<1>6. LeaseOwnsEntry'
  <2> SUFFICES ASSUME NEW q \in Replicas, NEW n \in Msgs \ late, n \in live'[q]
               PROVE  Owns(q, n)' /\ n \notin idle'
    BY <1>0 DEF LeaseOwnsEntry, history
  <2>1. CASE n \in live[q]
    BY <1>0, <1>4, <2>1 DEF GroupInv, LeaseOwnsEntry, Owns
  <2>2. CASE n \notin live[q]
    BY <1>0, <1>3, <2>2 DEF Owns
  <2> QED BY <2>1, <2>2
<1>7. VerdictInv' /\ AckedIsSettled'
  <2>1. \A q \in Replicas, n \in Msgs : task'[q][n] = task[q][n] \/ task'[q][n] = "leased"
    BY <1>3
  <2> QED BY <1>0, <2>1 DEF GroupInv, VerdictInv, AckedIsSettled, history
<1>8. DispatcherInv'
  <2>1. m \notin listed[r] /\ task[r][m] = "none"
    BY <1>0 DEF GroupInv, DispatcherInv
  <2>2. Owns(r, m) => entry[m] # "unread"
    BY DEF Owns
  <2> SUFFICES ASSUME NEW q \in Replicas, NEW n \in Msgs
               PROVE  /\ n \in live'[q] => task'[q][n] # "none"
                      /\ task'[q][n] # "none" => entry[n] # "unread"
                      /\ n \in batch'[q] => task'[q][n] = "none" /\ disp[q] \in {"triage", "lease"}
                      /\ n \in listed[q] => task'[q][n] = "none" /\ disp[q] = "claim"
                      /\ n \in spent[q] => entry[n] # "unread" /\ count[n] = MaxRetries
    BY <1>0 DEF DispatcherInv
  <2>3. CASE <<q, n>> # <<r, m>>
    BY <1>2, <1>3, <2>3 DEF GroupInv, DispatcherInv
  <2>4. CASE q = r /\ n = m
    BY <1>2a, <1>3, <2>1, <2>2, <2>4 DEF GroupInv, DispatcherInv
  <2> QED BY <2>3, <2>4
<1> QED BY <1>5, <1>6, <1>7, <1>8 DEF GroupInv

-----------------------------------------------------------------------------
(* Workers, leases, time and crashes *)

\* A step that opens no task and no lease and leaves the pending list alone.
LEMMA LocalStep ==
  ASSUME GroupInv, TypeOK', UNCHANGED <<entry, owner, count, dead, dispatcher, late>>,
         idle' \subseteq idle,
         \A q \in Replicas, n \in Msgs :
           /\ n \in live'[q] => n \in live[q] /\ task'[q][n] # "none"
           /\ task'[q][n] # "none" => task[q][n] # "none"
           /\ task'[q][n] \in {"success", "failure"} => task'[q][n] \in verdicts'[n],
         \A n \in Msgs : verdicts[n] \subseteq verdicts'[n]
  PROVE  GroupInv'
<1>1. LeaseOwnsEntry'
  BY DEF GroupInv, LeaseOwnsEntry, Owns
<1>2. DispatcherInv'
  BY DEF GroupInv, DispatcherInv, dispatcher
<1>3. VerdictInv'
  BY DEF VerdictInv
<1>4. AckedIsSettled'
  BY DEF GroupInv, AckedIsSettled
<1> QED BY <1>1, <1>2, <1>3, <1>4 DEF GroupInv

LEMMA SendStep ==
  ASSUME GroupInv, NEW r \in Replicas, NEW m \in Msgs, Send(r, m)
  PROVE  GroupInv'
<1>0. TypeOK /\ task[r][m] = "leased" /\ UNCHANGED <<log, dispatcher, live, history, faults>>
  BY DEF GroupInv, Send, First, Leased
<1>1. /\ task' \in [Replicas -> [Msgs -> TaskState]]
      /\ \A q \in Replicas, n \in Msgs : task'[q][n] = IF q = r /\ n = m THEN "queued" ELSE task[q][n]
  BY <1>0 DEF Send, TypeOK, TaskState
<1>2. TypeOK'
  BY <1>0, <1>1 DEF TypeOK, log, dispatcher, history
<1> QED BY <1>0, <1>1, <1>2, LocalStep DEF GroupInv, DispatcherInv, VerdictInv, log, history

\* What a worker leaves of a task: its next state, and the lease or none.
LEMMA TaskTypes ==
  ASSUME TypeOK, NEW r \in Replicas, NEW m \in Msgs, NEW st \in TaskState,
         \/ task' = [task EXCEPT ![r][m] = st] /\ UNCHANGED live /\ st # "none"
         \/ Close(r, m) /\ st = "none"
  PROVE  /\ task' \in [Replicas -> [Msgs -> TaskState]] /\ live' \in [Replicas -> SUBSET Msgs]
         /\ \A q \in Replicas, n \in Msgs :
              /\ task'[q][n] = IF q = r /\ n = m THEN st ELSE task[q][n]
              /\ n \in live'[q] => n \in live[q]
         /\ st = "none" => m \notin live'[r]
<1>0. task \in [Replicas -> [Msgs -> TaskState]] /\ live \in [Replicas -> SUBSET Msgs]
  BY DEF TypeOK
<1>1. task' = [task EXCEPT ![r][m] = st]
  BY DEF Close
<1>2. /\ task' \in [Replicas -> [Msgs -> TaskState]]
      /\ \A q \in Replicas, n \in Msgs : task'[q][n] = IF q = r /\ n = m THEN st ELSE task[q][n]
  BY <1>0, <1>1, TaskChange
<1>3. CASE live' = [live EXCEPT ![r] = @ \ {m}]
  <2>1. /\ live' \in [Replicas -> SUBSET Msgs]
        /\ \A q \in Replicas, n \in Msgs : <<q, n>> # <<r, m>> => (n \in live'[q] <=> n \in live[q])
        /\ m \notin live'[r]
    BY <1>0, <1>3, LiveChange
  <2> QED BY <1>2, <2>1
<1>4. CASE UNCHANGED live /\ st # "none"
  BY <1>0, <1>2, <1>4
<1> QED BY <1>3, <1>4 DEF Close

LEMMA StartHandlerStep ==
  ASSUME GroupInv, NEW r \in Replicas, NEW m \in Msgs, StartHandler(r, m)
  PROVE  GroupInv'
<1>0. TypeOK /\ task[r][m] = "queued" /\ UNCHANGED <<log, dispatcher, verdicts, late, faults>>
  BY DEF GroupInv, StartHandler
<1>1. PICK st \in {"running", "none"} :
        \/ task' = [task EXCEPT ![r][m] = st] /\ UNCHANGED live /\ st # "none"
        \/ Close(r, m) /\ st = "none"
  BY DEF StartHandler
<1>2. st \in TaskState
  BY DEF TaskState
<1>3. attempts' \in [Msgs -> Nat]
  <2>1. attempts \in [Msgs -> Nat]
    BY <1>0 DEF TypeOK
  <2>2. UNCHANGED attempts \/ attempts' = [attempts EXCEPT ![m] = @ + 1]
    BY DEF StartHandler
  <2> QED BY <2>1, <2>2
<1>4. TypeOK'
  BY <1>0, <1>1, <1>2, <1>3, TaskTypes DEF TypeOK, log, dispatcher, history
<1>5. \A q \in Replicas, n \in Msgs :
        /\ n \in live'[q] => n \in live[q] /\ task'[q][n] # "none"
        /\ task'[q][n] # "none" => task[q][n] # "none"
        /\ task'[q][n] \in {"success", "failure"} => task'[q][n] \in verdicts'[n]
  BY <1>0, <1>1, <1>2, TaskTypes DEF GroupInv, DispatcherInv, VerdictInv
<1> QED BY <1>0, <1>4, <1>5, LocalStep DEF log

LEMMA EndHandlerStep ==
  ASSUME GroupInv, NEW r \in Replicas, NEW m \in Msgs,
         NEW result \in {"success", "failure", "retry"}, EndHandler(r, m, result)
  PROVE  GroupInv'
<1>0. TypeOK /\ task[r][m] = "running" /\ UNCHANGED <<log, dispatcher, attempts, late, faults>>
  BY DEF GroupInv, EndHandler
<1>1. PICK st \in {"success", "failure", "none"} :
        /\ \/ task' = [task EXCEPT ![r][m] = st] /\ UNCHANGED live /\ st # "none"
           \/ Close(r, m) /\ st = "none"
        /\ st # "none" => st = result
  BY DEF EndHandler
<1>2. st \in TaskState
  BY DEF TaskState
<1>3. /\ verdicts' \in [Msgs -> SUBSET {"success", "failure"}]
      /\ \A n \in Msgs : verdicts[n] \subseteq verdicts'[n]
      /\ result # "retry" => result \in verdicts'[m]
  BY <1>0 DEF EndHandler, TypeOK
<1>4. TypeOK'
  BY <1>0, <1>1, <1>2, <1>3, TaskTypes DEF TypeOK, log, dispatcher, history
<1>5. \A q \in Replicas, n \in Msgs :
        /\ n \in live'[q] => n \in live[q] /\ task'[q][n] # "none"
        /\ task'[q][n] # "none" => task[q][n] # "none"
        /\ task'[q][n] \in {"success", "failure"} => task'[q][n] \in verdicts'[n]
  BY <1>0, <1>1, <1>2, <1>3, TaskTypes DEF GroupInv, DispatcherInv, VerdictInv
<1> QED BY <1>0, <1>3, <1>4, <1>5, LocalStep DEF log

LEMMA SettleStep ==
  ASSUME GroupInv, NEW r \in Replicas, NEW m \in Msgs, Settle(r, m) \/ SettleFails(r, m)
  PROVE  GroupInv'
<1>0. /\ TypeOK /\ task[r][m] \in {"success", "failure"} /\ Close(r, m)
      /\ UNCHANGED <<owner, idle, count, dispatcher, history>>
  BY DEF GroupInv, Settle, SettleFails, log
<1>1. FencedEffect(r, m)
  BY DEF Settle, SettleFails, FencedEffect, log
<1>2. faults' \in 0..MaxFaults
  BY <1>0 DEF Settle, SettleFails, Fault, TypeOK
<1>3. "none" \in TaskState
  BY DEF TaskState
<1>4. /\ task' \in [Replicas -> [Msgs -> TaskState]] /\ live' \in [Replicas -> SUBSET Msgs]
      /\ \A q \in Replicas, n \in Msgs :
           /\ task'[q][n] = IF q = r /\ n = m THEN "none" ELSE task[q][n]
           /\ n \in live'[q] => n \in live[q]
      /\ m \notin live'[r]
  BY <1>0, <1>3, TaskTypes
<1>5. TypeOK'
  BY <1>0, <1>1, <1>2, <1>4, FencedFacts DEF TypeOK, dispatcher, history
<1>6. LeaseOwnsEntry'
  <2>1. ASSUME NEW q \in Replicas, m \notin late, Owns(r, m) PROVE m \notin live'[q]
    <3>1. CASE q = r
      BY <1>4, <3>1
    <3>2. CASE q # r
      BY <1>4, <2>1, <3>2 DEF GroupInv, LeaseOwnsEntry, Owns
    <3> QED BY <3>1, <3>2
  <2>2. \A q \in Replicas : live'[q] \subseteq live[q]
    BY <1>4
  <2> QED BY <1>0, <1>1, <2>1, <2>2, FencedLease DEF history
<1>7. DispatcherInv'
  <2>1. \A n \in Msgs : entry'[n] # "unread" <=> entry[n] # "unread"
    BY <1>0, <1>1, FencedFacts
  <2>2. UNCHANGED <<count, disp, listed, spent, batch>>
    BY <1>0 DEF dispatcher
  <2> SUFFICES ASSUME NEW q \in Replicas, NEW n \in Msgs
               PROVE  /\ n \in live'[q] => task'[q][n] # "none"
                      /\ task'[q][n] # "none" => entry'[n] # "unread"
                      /\ n \in batch[q] => task'[q][n] = "none" /\ disp[q] \in {"triage", "lease"}
                      /\ n \in listed[q] => task'[q][n] = "none" /\ disp[q] = "claim"
                      /\ n \in spent[q] => entry'[n] # "unread" /\ count[n] = MaxRetries
    BY <2>2 DEF DispatcherInv
  <2>3. CASE q = r /\ n = m
    BY <1>4, <2>1, <2>3 DEF GroupInv, DispatcherInv
  <2>4. CASE ~(q = r /\ n = m)
    BY <1>4, <2>1, <2>4 DEF GroupInv, DispatcherInv
  <2> QED BY <2>3, <2>4
<1>8. VerdictInv'
  <2> SUFFICES ASSUME NEW q \in Replicas, NEW n \in Msgs, task'[q][n] \in {"success", "failure"}
               PROVE  task'[q][n] \in verdicts[n]
    BY <1>0 DEF VerdictInv, history
  <2>1. task'[q][n] = task[q][n]
    BY <1>4
  <2> QED BY <2>1 DEF GroupInv, VerdictInv
<1>9. AckedIsSettled'
  <2>1. task[r][m] \in verdicts[m]
    BY <1>0 DEF GroupInv, VerdictInv
  <2>2. CASE task[r][m] = "success"
    BY <1>0, <1>1, <2>1, <2>2, FencedSettled DEF history
  <2>3. CASE task[r][m] = "failure" /\ ~DeadLetter
    BY <1>0, <1>1, <2>1, <2>3, FencedSettled DEF history
  <2>4. CASE task[r][m] = "failure" /\ DeadLetter
    <3>1. entry'[m] = "acked" => entry[m] = "acked" \/ m \in dead'
      BY <1>0, <2>4 DEF Settle, SettleFails, DeadLetterAndAckOwned, TypeOK, log
    <3> QED BY <1>0, <1>1, <2>4, <3>1, FencedSettled DEF history
  <2> QED BY <1>0, <2>2, <2>3, <2>4
<1> QED BY <1>5, <1>6, <1>7, <1>8, <1>9 DEF GroupInv

LEMMA RefreshStep ==
  ASSUME GroupInv, NEW r \in Replicas, NEW m \in Msgs, LeaseStep(r, m)
  PROVE  GroupInv'
<1>0. TypeOK /\ UNCHANGED <<entry, owner, count, dead, dispatcher, task, history>>
  BY DEF GroupInv, LeaseStep, Refresh, RefreshFails, log
<1>1. faults' \in 0..MaxFaults /\ idle' \subseteq idle
  BY <1>0 DEF LeaseStep, Refresh, RefreshFails, Fault, TypeOK, log
<1>2. live' \in [Replicas -> SUBSET Msgs] /\ \A q \in Replicas : live'[q] \subseteq live[q]
  <2>0. live \in [Replicas -> SUBSET Msgs]
    BY <1>0 DEF TypeOK
  <2>1. CASE live' = [live EXCEPT ![r] = @ \ {m}]
    BY <2>0, <2>1
  <2>2. CASE UNCHANGED live
    BY <2>0, <2>2
  <2> QED BY <2>1, <2>2 DEF LeaseStep, Refresh, RefreshFails
<1>3. TypeOK'
  BY <1>0, <1>1, <1>2 DEF TypeOK, dispatcher, history
<1> QED BY <1>0, <1>1, <1>2, <1>3, LocalStep DEF GroupInv, DispatcherInv, VerdictInv, history

\* Time passes for an entry nobody has a lease on, or its lease is late.
LEMMA AgeStep ==
  ASSUME GroupInv, NEW m \in Msgs, Age(m)
  PROVE  GroupInv'
<1>0. /\ TypeOK /\ idle' = idle \cup {m}
      /\ UNCHANGED <<entry, owner, count, dead, dispatcher, task, live, verdicts, attempts, faults>>
  BY DEF GroupInv, Age
<1>a. late' \subseteq Msgs /\ late \subseteq late'
  BY <1>0 DEF Age, TypeOK
<1>1. TypeOK'
  BY <1>0, <1>a DEF TypeOK, dispatcher
<1>2. LeaseOwnsEntry'
  <2>1. ASSUME m \notin late', NEW q \in Replicas PROVE m \notin live[q]
    BY <1>a, <2>1 DEF Age, GroupInv, LeaseOwnsEntry, Owns
  <2> SUFFICES ASSUME NEW q \in Replicas, NEW n \in Msgs \ late', n \in live[q]
               PROVE  Owns(q, n)' /\ n \notin idle'
    BY <1>0 DEF LeaseOwnsEntry
  <2>2. Owns(q, n) /\ n \notin idle
    BY <1>a DEF GroupInv, LeaseOwnsEntry
  <2>3. n # m
    BY <2>1
  <2> QED BY <1>0, <2>2, <2>3 DEF Owns
<1>3. DispatcherInv' /\ VerdictInv' /\ AckedIsSettled'
  BY <1>0 DEF GroupInv, DispatcherInv, VerdictInv, AckedIsSettled, dispatcher, history
<1> QED BY <1>1, <1>2, <1>3 DEF GroupInv

LEMMA CrashStep ==
  ASSUME GroupInv, NEW r \in Replicas, Crash(r)
  PROVE  GroupInv'
<1>0. TypeOK /\ UNCHANGED <<entry, idle, count, dead, history>>
  BY DEF GroupInv, Crash
<1>1. /\ owner' = [m \in Msgs |-> IF owner[m] = r THEN Gone ELSE owner[m]]
      /\ owner' \in [Msgs -> Replicas \cup {Gone}] /\ faults' \in 0..MaxFaults
      /\ disp' \in [Replicas -> DispState] /\ fresh' \subseteq Replicas
      /\ \A q \in Replicas : q # r => disp'[q] = disp[q]
  BY <1>0 DEF Crash, Fault, Goto, TypeOK, DispState
<1>2. /\ listed' \in [Replicas -> SUBSET Msgs] /\ spent' \in [Replicas -> SUBSET Msgs]
      /\ batch' \in [Replicas -> SUBSET Msgs] /\ live' \in [Replicas -> SUBSET Msgs]
      /\ listed'[r] = {} /\ spent'[r] = {} /\ batch'[r] = {} /\ live'[r] = {}
      /\ \A q \in Replicas : q # r =>
           listed'[q] = listed[q] /\ spent'[q] = spent[q] /\ batch'[q] = batch[q] /\ live'[q] = live[q]
  BY <1>0 DEF Crash, TypeOK
<1>3. /\ task' \in [Replicas -> [Msgs -> TaskState]]
      /\ \A m \in Msgs : task'[r][m] = "none"
      /\ \A q \in Replicas : q # r => task'[q] = task[q]
  BY <1>0 DEF Crash, TypeOK, TaskState
<1>4. TypeOK'
  BY <1>0, <1>1, <1>2, <1>3 DEF TypeOK, history
<1>5. LeaseOwnsEntry'
  <2> SUFFICES ASSUME NEW q \in Replicas, NEW m \in Msgs, m \notin late, m \in live'[q]
               PROVE  entry[m] = "pending" /\ owner'[m] = q /\ m \notin idle
    BY <1>0 DEF LeaseOwnsEntry, Owns, history
  <2>1. q # r /\ m \in live[q]
    BY <1>2
  <2>2. entry[m] = "pending" /\ owner[m] = q /\ m \notin idle
    BY <2>1 DEF GroupInv, LeaseOwnsEntry, Owns
  <2> QED BY <1>1, <2>1, <2>2
<1>6. DispatcherInv'
  <2> SUFFICES ASSUME NEW q \in Replicas, NEW m \in Msgs
               PROVE  /\ m \in live'[q] => task'[q][m] # "none"
                      /\ task'[q][m] # "none" => entry[m] # "unread"
                      /\ m \in batch'[q] => task'[q][m] = "none" /\ disp'[q] \in {"triage", "lease"}
                      /\ m \in listed'[q] => task'[q][m] = "none" /\ disp'[q] = "claim"
                      /\ m \in spent'[q] => entry[m] # "unread" /\ count[m] = MaxRetries
    BY <1>0 DEF DispatcherInv
  <2>1. CASE q = r
    BY <1>2, <1>3, <2>1
  <2>2. CASE q # r
    BY <1>1, <1>2, <1>3, <2>2 DEF GroupInv, DispatcherInv
  <2> QED BY <2>1, <2>2
<1>7. VerdictInv'
  <2> SUFFICES ASSUME NEW q \in Replicas, NEW m \in Msgs, task'[q][m] \in {"success", "failure"}
               PROVE  task'[q][m] \in verdicts[m]
    BY <1>0 DEF VerdictInv, history
  <2>1. q # r
    BY <1>3
  <2>2. task'[q][m] = task[q][m]
    BY <1>3, <2>1
  <2> QED BY <2>2 DEF GroupInv, VerdictInv
<1>8. AckedIsSettled'
  BY <1>0 DEF GroupInv, AckedIsSettled, history
<1> QED BY <1>4, <1>5, <1>6, <1>7, <1>8 DEF GroupInv

LEMMA GroupStep == GroupInv /\ [Next]_vars => GroupInv'
<1> SUFFICES ASSUME GroupInv, [Next]_vars PROVE GroupInv'
  OBVIOUS
<1>1. ASSUME NEW r \in Replicas, DispatcherStep(r) PROVE GroupInv'
  BY <1>1, PollStep, ClaimStep, EndTriageStep, ReadFreshStep, CommandFailsStep,
     EndLeaseSendStep, ExhaustStep,
     StartLeaseStep, SendStep DEF DispatcherStep
<1>2. ASSUME NEW r \in Replicas, NEW m \in Msgs, WorkerStep(r, m) PROVE GroupInv'
  BY <1>2, StartHandlerStep, EndHandlerStep, SettleStep DEF WorkerStep
<1>3. CASE UNCHANGED vars
  BY <1>3 DEF GroupInv, TypeOK, LeaseOwnsEntry, DispatcherInv, VerdictInv, AckedIsSettled, Owns,
              vars, log, dispatcher, history
<1> QED BY <1>1, <1>2, <1>3, RefreshStep, AgeStep, CrashStep DEF Next

-----------------------------------------------------------------------------
(* The retry budget *)

LEMMA SubsetCard ==
  ASSUME NEW S \in SUBSET Replicas, NEW T \in SUBSET S
  PROVE  /\ Cardinality(T) \in Nat /\ Cardinality(S) \in Nat /\ Cardinality(Replicas) \in Nat
         /\ Cardinality(T) <= Cardinality(S) /\ Cardinality(S) <= Cardinality(Replicas)
<1>1. IsFiniteSet(S) /\ Cardinality(S) <= Cardinality(Replicas)
  BY FS_Subset
<1>2. IsFiniteSet(T) /\ Cardinality(T) <= Cardinality(S)
  BY <1>1, FS_Subset
<1> QED BY <1>1, <1>2, FS_CardinalityType

\* One replica less, one replica more.
LEMMA LessCard ==
  ASSUME NEW S \in SUBSET Replicas, NEW r \in S, NEW T \in SUBSET (S \ {r})
  PROVE  Cardinality(T) + 1 <= Cardinality(S)
<1>1. IsFiniteSet(S)
  BY FS_Subset
<1>2. Cardinality(S \ {r}) = Cardinality(S) - 1
  BY <1>1, FS_RemoveElement
<1>3. Cardinality(T) <= Cardinality(S \ {r}) /\ Cardinality(T) \in Nat /\ Cardinality(S) \in Nat
  BY SubsetCard
<1> QED BY <1>2, <1>3

LEMMA MoreCard ==
  ASSUME NEW S \in SUBSET Replicas, NEW r \in Replicas, NEW T \in SUBSET (S \cup {r})
  PROVE  Cardinality(T) <= Cardinality(S) + 1
<1>1. IsFiniteSet(S) /\ Cardinality(S) \in Nat
  BY FS_Subset, SubsetCard
<1>2. Cardinality(S \cup {r}) <= Cardinality(S) + 1 /\ S \cup {r} \in SUBSET Replicas
  <2>1. Cardinality(S \cup {r}) = IF r \in S THEN Cardinality(S) ELSE Cardinality(S) + 1
    BY <1>1, FS_AddElement
  <2> QED BY <1>1, <2>1
<1>3. /\ Cardinality(T) <= Cardinality(S \cup {r})
      /\ Cardinality(T) \in Nat /\ Cardinality(S \cup {r}) \in Nat
  BY <1>2, SubsetCard
<1> QED BY <1>1, <1>2, <1>3

LEMMA LikelySets ==
  ASSUME NEW m
  PROVE  /\ Likely(m) \in SUBSET Replicas /\ Listing(m) \in SUBSET Replicas
         /\ Likely(m)' \in SUBSET Replicas /\ Listing(m)' \in SUBSET Replicas
  BY DEF Likely, Listing

SpentListed == \A r \in Replicas : spent[r] # {} => disp[r] \in {"claim", "triage"}

BudgetFor(m) ==
  /\ entry[m] = "unread" => attempts[m] = 0 /\ Likely(m) = {} /\ Listing(m) = {}
  /\ count[m] < MaxRetries => attempts[m] + Cardinality(Likely(m)) <= count[m]
  /\ count[m] = MaxRetries =>
       attempts[m] + Cardinality(Likely(m)) + Cardinality(Listing(m)) <= AttemptLimit

LEMMA BudgetNumbers ==
  ASSUME TypeOK, NEW m \in Msgs
  PROVE  /\ attempts[m] \in Nat /\ count[m] \in 0..MaxRetries
         /\ Cardinality(Likely(m)) \in Nat /\ Cardinality(Listing(m)) \in Nat
         /\ AttemptLimit = MaxRetries + Cardinality(Replicas) - 1
         /\ Cardinality(Replicas) \in Nat
<1>1. attempts[m] \in Nat /\ count[m] \in 0..MaxRetries
  BY DEF TypeOK
<1>2. Cardinality(Likely(m)) \in Nat /\ Cardinality(Listing(m)) \in Nat /\ Cardinality(Replicas) \in Nat
  BY LikelySets, SubsetCard
<1> QED BY <1>1, <1>2 DEF AttemptLimit

\* A step that adds no replica to either set and starts no handler.
LEMMA BudgetKept ==
  ASSUME TypeOK, NEW m \in Msgs, BudgetFor(m),
         attempts'[m] = attempts[m], count'[m] = count[m],
         entry'[m] = "unread" => entry[m] = "unread",
         Likely(m)' \subseteq Likely(m),
         Listing(m)' \subseteq Listing(m) \/ (count[m] < MaxRetries /\ entry[m] # "unread")
  PROVE  BudgetFor(m)'
<1>1. /\ Cardinality(Likely(m)') <= Cardinality(Likely(m))
      /\ Cardinality(Likely(m)') \in Nat /\ Cardinality(Listing(m)') \in Nat
  BY LikelySets, SubsetCard
<1>2. Listing(m)' \subseteq Listing(m) => Cardinality(Listing(m)') <= Cardinality(Listing(m))
  BY LikelySets, SubsetCard
<1>3. entry'[m] = "unread" => attempts'[m] = 0 /\ Likely(m)' = {} /\ Listing(m)' = {}
  BY DEF BudgetFor
<1>4. count'[m] < MaxRetries => attempts'[m] + Cardinality(Likely(m)') <= count'[m]
  BY <1>1, BudgetNumbers DEF BudgetFor
<1>5. count'[m] = MaxRetries =>
        attempts'[m] + Cardinality(Likely(m)') + Cardinality(Listing(m)') <= AttemptLimit
  BY <1>1, <1>2, BudgetNumbers DEF BudgetFor
<1> QED BY <1>3, <1>4, <1>5 DEF BudgetFor, AttemptLimit

\* The same for a step of one replica.
OthersKeep(r) ==
  \A q \in Replicas : q # r => /\ batch'[q] = batch[q] /\ spent'[q] = spent[q]
                               /\ listed'[q] = listed[q] /\ task'[q] = task[q]

LEMMA LocalBudget ==
  ASSUME TypeOK, NEW r \in Replicas, NEW m \in Msgs, BudgetFor(m), OthersKeep(r),
         attempts'[m] = attempts[m], count'[m] = count[m],
         entry'[m] = "unread" => entry[m] = "unread",
         r \in Likely(m)' => r \in Likely(m),
         r \in Listing(m)' => r \in Listing(m) \/ (count[m] < MaxRetries /\ entry[m] # "unread")
  PROVE  BudgetFor(m)'
<1>1. Likely(m)' \subseteq Likely(m)
  BY DEF Likely, OthersKeep
<1>2. Listing(m)' \subseteq Listing(m) \/ (count[m] < MaxRetries /\ entry[m] # "unread")
  BY DEF Listing, OthersKeep
<1> QED BY <1>1, <1>2, BudgetKept

\* A step that changes neither sets nor counters.
LEMMA SameBudget ==
  ASSUME StreamInv, UNCHANGED <<count, batch, spent, listed, task, attempts, disp>>,
         \A m \in Msgs : entry'[m] = "unread" => entry[m] = "unread"
  PROVE  BudgetInv'
<1>1. ASSUME NEW m \in Msgs PROVE BudgetFor(m)'
  <2>1. TypeOK /\ BudgetFor(m)
    BY DEF StreamInv, GroupInv, BudgetInv, BudgetFor
  <2>2. Likely(m)' = Likely(m) /\ Listing(m)' = Listing(m)
    BY DEF Likely, Listing
  <2> QED BY <2>1, <2>2, BudgetKept
<1>2. SpentListed'
  BY DEF StreamInv, BudgetInv, SpentListed
<1> QED BY <1>1, <1>2 DEF BudgetInv, SpentListed, BudgetFor

\* What the parts of the invariant say of a replica where it stands.
LEMMA InHandFacts ==
  ASSUME StreamInv, NEW r \in Replicas
  PROVE  /\ TypeOK /\ SpentListed /\ \A m \in Msgs : BudgetFor(m)
         /\ disp[r] \notin {"triage", "lease"} => batch[r] = {}
         /\ disp[r] # "claim" => listed[r] = {}
         /\ disp[r] \notin {"claim", "triage"} => spent[r] = {}
         /\ \A m \in batch[r] : task[r][m] = "none"
         /\ \A m \in spent[r] : count[m] = MaxRetries
<1>1. TypeOK /\ SpentListed /\ \A m \in Msgs : BudgetFor(m)
  BY DEF StreamInv, GroupInv, BudgetInv, SpentListed, BudgetFor
<1>2. batch[r] \subseteq Msgs /\ listed[r] \subseteq Msgs /\ spent[r] \subseteq Msgs
  BY <1>1 DEF TypeOK
<1> QED BY <1>1, <1>2 DEF StreamInv, GroupInv, DispatcherInv, SpentListed

LEMMA BudgetParts ==
  ASSUME SpentListed', \A m \in Msgs : BudgetFor(m)'
  PROVE  BudgetInv'
  BY DEF BudgetInv, SpentListed, BudgetFor

LEMMA PollBudget ==
  ASSUME StreamInv, NEW r \in Replicas, Poll(r)
  PROVE  BudgetInv'
<1> DEFINE found == Oldest({m \in Msgs : entry[m] = "pending" /\ m \in idle}) \ Active(r)
           over == {m \in found : count[m] >= MaxRetries}
<1>0. /\ TypeOK /\ SpentListed /\ disp[r] = "poll" /\ UNCHANGED <<entry, count, batch, task, attempts>>
      /\ batch[r] = {} /\ listed[r] = {} /\ spent[r] = {}
  BY InHandFacts DEF Poll, log, history
<1>1. \A m \in found : m \in Msgs /\ entry[m] = "pending"
  BY OldestSubset
<1>2. \/ UNCHANGED <<listed, spent>> /\ disp' = [disp EXCEPT ![r] = "read"]
      \/ /\ listed' = [listed EXCEPT ![r] = found]
         /\ spent' = [spent EXCEPT ![r] = over]
         /\ disp' = [disp EXCEPT ![r] = "claim"]
  BY DEF Poll, Goto
<1>3. \A m \in found \ over : count[m] < MaxRetries
  <2> SUFFICES ASSUME NEW m \in found, ~(count[m] >= MaxRetries) PROVE count[m] < MaxRetries
    OBVIOUS
  <2>1. count[m] \in 0..MaxRetries
    BY <1>0, <1>1 DEF TypeOK
  <2> QED BY <2>1
<1> HIDE DEF found, over
<1>4. SpentListed'
  BY <1>0, <1>2 DEF SpentListed, TypeOK
<1>5. OthersKeep(r)
  BY <1>0, <1>2 DEF OthersKeep, TypeOK
<1>6. ASSUME NEW m \in Msgs PROVE BudgetFor(m)'
  <2>1. r \in Likely(m)' => r \in Likely(m)
    BY <1>0 DEF Likely
  <2>2. r \in Listing(m)' => m \in found \ over
    <3>1. listed'[r] \ spent'[r] \in {{}, found \ over}
      BY <1>0, <1>2 DEF TypeOK
    <3> QED BY <3>1 DEF Listing
  <2>3. BudgetFor(m)
    BY InHandFacts
  <2> QED BY <1>0, <1>1, <1>3, <1>5, <2>1, <2>2, <2>3, LocalBudget
<1> QED BY <1>4, <1>6, BudgetParts

\* Steps of the dispatcher that only let go of what it has in hand.
LEMMA LetGoBudget ==
  ASSUME StreamInv, NEW r \in Replicas, OthersKeep(r),
         \A q \in Replicas : q # r => disp'[q] = disp[q],
         UNCHANGED <<count, attempts>>,
         \A m \in Msgs : entry'[m] = "unread" => entry[m] = "unread",
         spent'[r] = {} \/ (spent'[r] = spent[r] /\ disp'[r] = disp[r]),
         \A m \in Msgs : (r \in Likely(m)' => r \in Likely(m)) /\ (r \in Listing(m)' => r \in Listing(m))
  PROVE  BudgetInv'
<1>1. SpentListed'
  BY InHandFacts DEF SpentListed, OthersKeep
<1>2. ASSUME NEW m \in Msgs PROVE BudgetFor(m)'
  BY InHandFacts, LocalBudget
<1> QED BY <1>1, <1>2, BudgetParts

LEMMA ExhaustBudget ==
  ASSUME StreamInv, NEW r \in Replicas, NEW n \in Msgs, Exhaust(r, n) \/ ExhaustFails(r, n)
  PROVE  BudgetInv'
<1>0. TypeOK /\ disp[r] = "triage" /\ UNCHANGED <<count, listed, task, attempts>>
  BY InHandFacts DEF Exhaust, ExhaustFails, history
<1>1. \A m \in Msgs : entry'[m] = "unread" => entry[m] = "unread"
  BY <1>0 DEF Exhaust, ExhaustFails, AckOwned, DeadLetterAndAckOwned, TypeOK
<1>2. \/ /\ batch' = [batch EXCEPT ![r] = batch[r] \ {n}] /\ UNCHANGED <<spent, disp>>
      \/ /\ batch' = [batch EXCEPT ![r] = {}] /\ spent' = [spent EXCEPT ![r] = {}]
         /\ disp' = [disp EXCEPT ![r] = "poll"]
  BY DEF Exhaust, ExhaustFails, Goto
<1>3. OthersKeep(r) /\ \A q \in Replicas : q # r => disp'[q] = disp[q]
  BY <1>0, <1>2 DEF OthersKeep, TypeOK
<1>4. spent'[r] = {} \/ (spent'[r] = spent[r] /\ disp'[r] = disp[r])
  BY <1>0, <1>2 DEF TypeOK
<1>5. batch'[r] \ spent'[r] \subseteq batch[r] \ spent[r] /\ listed[r] = {}
  BY <1>0, <1>2, InHandFacts DEF TypeOK
<1>6. ASSUME NEW m \in Msgs
      PROVE  (r \in Likely(m)' => r \in Likely(m)) /\ (r \in Listing(m)' => r \in Listing(m))
  BY <1>0, <1>5 DEF Likely, Listing
<1> QED BY <1>0, <1>1, <1>3, <1>4, <1>6, LetGoBudget

LEMMA DispatcherBudget ==
  ASSUME StreamInv, NEW r \in Replicas,
         EndTriage(r) \/ CommandFails(r) \/ EndLease(r) \/ EndSend(r)
  PROVE  BudgetInv'
<1>0. TypeOK /\ UNCHANGED <<entry, count, batch, task, attempts>>
  BY InHandFacts DEF EndTriage, CommandFails, EndLease, EndSend, log, history
<1>1. \/ /\ disp[r] = "triage" /\ batch[r] \cap spent[r] = {} /\ listed' = listed
         /\ spent' = [spent EXCEPT ![r] = {}]
      \/ /\ disp[r] \in {"claim", "read"}
         /\ listed' = [listed EXCEPT ![r] = {}] /\ spent' = [spent EXCEPT ![r] = {}]
      \/ disp[r] \in {"lease", "send"} /\ UNCHANGED <<listed, spent>>
  BY DEF EndTriage, CommandFails, EndLease, EndSend
<1>2. \E s : Goto(r, s)
  BY DEF EndTriage, CommandFails, EndLease, EndSend
<1>3. OthersKeep(r) /\ \A q \in Replicas : q # r => disp'[q] = disp[q]
  BY <1>0, <1>1, <1>2 DEF OthersKeep, TypeOK, Goto
<1>4. spent'[r] = {}
  BY <1>0, <1>1, InHandFacts DEF TypeOK
<1>5. /\ batch[r] \subseteq batch[r] \ spent[r]
      /\ listed'[r] \subseteq listed[r] \ spent[r]
  BY <1>0, <1>1, InHandFacts DEF TypeOK
<1>6. ASSUME NEW m \in Msgs
      PROVE  (r \in Likely(m)' => r \in Likely(m)) /\ (r \in Listing(m)' => r \in Listing(m))
  BY <1>0, <1>4, <1>5 DEF Likely, Listing
<1> QED BY <1>0, <1>3, <1>4, <1>6, LetGoBudget

LEMMA StartLeaseBudget ==
  ASSUME StreamInv, NEW r \in Replicas, NEW n \in Msgs, StartLease(r, n) \/ StartLeaseFails(r, n)
  PROVE  BudgetInv'
<1>0. /\ TypeOK /\ disp[r] = "lease" /\ n \in batch[r] /\ spent[r] = {} /\ listed[r] = {}
      /\ UNCHANGED <<entry, count, disp, listed, spent, attempts>>
  BY InHandFacts DEF StartLease, StartLeaseFails, First, history
<1>1. /\ batch' = [batch EXCEPT ![r] = batch[r] \ {n}]
      /\ task' = task \/ task' = [task EXCEPT ![r][n] = "leased"]
  BY DEF StartLease, StartLeaseFails
<1>2. OthersKeep(r)
  BY <1>0, <1>1 DEF OthersKeep, TypeOK
<1>3. ASSUME NEW m \in Msgs
      PROVE  (r \in Likely(m)' => r \in Likely(m)) /\ (r \in Listing(m)' => r \in Listing(m))
  <2>1. m # n => task'[r][m] = task[r][m]
    BY <1>0, <1>1 DEF TypeOK
  <2>2. batch'[r] \subseteq batch[r]
    BY <1>0, <1>1 DEF TypeOK
  <2> QED BY <1>0, <2>1, <2>2 DEF Likely, Listing
<1> QED BY <1>0, <1>2, <1>3, LetGoBudget

\* A message handed to the workers, or done with, or let go by a crash.
LEMMA TaskBudget ==
  ASSUME StreamInv, NEW r \in Replicas, NEW n \in Msgs,
         UNCHANGED <<count, disp, batch, listed, spent, attempts>>,
         \A m \in Msgs : entry'[m] = "unread" => entry[m] = "unread",
         \/ task[r][n] = "leased" /\ task' = [task EXCEPT ![r][n] = "queued"]
         \/ \E s \in {"none", "success", "failure"} : task' = [task EXCEPT ![r][n] = s]
  PROVE  BudgetInv'
<1>0. TypeOK
  BY InHandFacts
<1>1. OthersKeep(r)
  BY <1>0 DEF OthersKeep, TypeOK
<1>2. ASSUME NEW m \in Msgs
      PROVE  (r \in Likely(m)' => r \in Likely(m)) /\ (r \in Listing(m)' => r \in Listing(m))
  <2>1. \/ task'[r][m] = task[r][m] \/ task'[r][m] \in {"none", "success", "failure"}
        \/ task[r][m] = "leased"
    BY <1>0 DEF TypeOK
  <2> QED BY <2>1 DEF Likely, Listing
<1> QED BY <1>1, <1>2, LetGoBudget

LEMMA WorkerBudget ==
  ASSUME StreamInv, NEW r \in Replicas, NEW n \in Msgs,
         \/ Send(r, n) \/ Settle(r, n) \/ SettleFails(r, n)
         \/ \E result \in {"success", "failure", "retry"} : EndHandler(r, n, result)
  PROVE  BudgetInv'
<1>0. TypeOK
  BY InHandFacts
<1>1. \A m \in Msgs : entry'[m] = "unread" => entry[m] = "unread"
  BY <1>0 DEF Send, Settle, SettleFails, EndHandler, log, AckOwned, DeadLetterAndAckOwned, TypeOK
<1>2. UNCHANGED <<count, disp, batch, listed, spent, attempts>>
  BY DEF Send, Settle, SettleFails, EndHandler, log, dispatcher, history
<1>3. \/ task[r][n] = "leased" /\ task' = [task EXCEPT ![r][n] = "queued"]
      \/ \E s \in {"none", "success", "failure"} : task' = [task EXCEPT ![r][n] = s]
  BY DEF Send, Settle, SettleFails, EndHandler, Close, First, Leased
<1> QED BY <1>1, <1>2, <1>3, TaskBudget

\* A run starts: the replica is no longer one that may start it.
LEMMA StartHandlerBudget ==
  ASSUME StreamInv, NEW r \in Replicas, NEW n \in Msgs, StartHandler(r, n)
  PROVE  BudgetInv'
<1>0. /\ TypeOK /\ task[r][n] = "queued"
      /\ UNCHANGED <<entry, count, disp, batch, listed, spent>>
  BY InHandFacts DEF StartHandler, log, dispatcher
<1>1. CASE task' = [task EXCEPT ![r][n] = "none"] /\ UNCHANGED attempts
  BY <1>0, <1>1, TaskBudget
<1>2. CASE /\ task' = [task EXCEPT ![r][n] = "running"]
           /\ attempts' = [attempts EXCEPT ![n] = @ + 1]
  <2>1. SpentListed'
    BY <1>0, InHandFacts DEF SpentListed
  <2>2. ASSUME NEW m \in Msgs, m # n PROVE BudgetFor(m)'
    <3>1. Likely(m)' = Likely(m) /\ Listing(m)' = Listing(m)
      BY <1>0, <1>2, <2>2 DEF Likely, Listing, TypeOK
    <3>2. attempts'[m] = attempts[m]
      BY <1>0, <1>2, <2>2 DEF TypeOK
    <3> QED BY <1>0, <3>1, <3>2, InHandFacts, BudgetKept
  <2>3. BudgetFor(n)'
    <3>1. Listing(n)' = Listing(n)
      BY <1>0 DEF Listing
    <3>2. r \in Likely(n) /\ Likely(n)' \subseteq Likely(n) \ {r}
      <4>1. n \notin batch[r]
        BY <1>0, InHandFacts
      <4>2. \A q \in Replicas : task'[q][n] = IF q = r THEN "running" ELSE task[q][n]
        BY <1>0, <1>2 DEF TypeOK
      <4> QED BY <1>0, <4>1, <4>2 DEF Likely
    <3>3. Cardinality(Likely(n)') + 1 <= Cardinality(Likely(n)) /\ Cardinality(Likely(n)') \in Nat
      BY <3>2, LikelySets, LessCard, SubsetCard
    <3>4. attempts'[n] = attempts[n] + 1 /\ BudgetFor(n) /\ entry[n] # "unread"
      <4>1. BudgetFor(n) /\ attempts'[n] = attempts[n] + 1
        BY <1>0, <1>2, InHandFacts DEF TypeOK
      <4> QED BY <3>2, <4>1 DEF BudgetFor
    <3>5. count'[n] < MaxRetries => attempts'[n] + Cardinality(Likely(n)') <= count'[n]
      <4>1. count[n] < MaxRetries => attempts[n] + Cardinality(Likely(n)) <= count[n]
        BY <3>4 DEF BudgetFor
      <4>2. attempts[n] \in Nat /\ count[n] \in Nat /\ Cardinality(Likely(n)) \in Nat
        BY <1>0, BudgetNumbers
      <4> QED BY <1>0, <3>3, <3>4, <4>1, <4>2
    <3>6. count'[n] = MaxRetries =>
            attempts'[n] + Cardinality(Likely(n)') + Cardinality(Listing(n)') <= AttemptLimit
      <4>1. count[n] = MaxRetries =>
              attempts[n] + Cardinality(Likely(n)) + Cardinality(Listing(n)) <= AttemptLimit
        BY <3>4 DEF BudgetFor
      <4>2. /\ attempts[n] \in Nat /\ Cardinality(Likely(n)) \in Nat
            /\ Cardinality(Listing(n)) \in Nat /\ AttemptLimit \in Int
        BY <1>0, BudgetNumbers
      <4> QED BY <1>0, <3>1, <3>3, <3>4, <4>1, <4>2
    <3> QED BY <1>0, <3>4, <3>5, <3>6 DEF BudgetFor, AttemptLimit
  <2> QED BY <2>1, <2>2, <2>3, BudgetParts
<1> QED BY <1>1, <1>2 DEF StartHandler, Close

\* A claim turns a listing into a message in hand, and counts it.
LEMMA ClaimBudget ==
  ASSUME StreamInv, NEW r \in Replicas, Claim(r)
  PROVE  BudgetInv'
<1> DEFINE claimed == {m \in listed[r] : entry[m] = "pending" /\ m \in idle}
<1>0. /\ TypeOK /\ disp[r] = "claim" /\ UNCHANGED <<entry, task, attempts>>
      /\ batch[r] = {} /\ listed[r] \subseteq Msgs
      /\ listed' = [listed EXCEPT ![r] = {}]
  BY InHandFacts DEF Claim, history, TypeOK
<1>1. \/ /\ batch' = [batch EXCEPT ![r] = claimed]
         /\ disp' = [disp EXCEPT ![r] = "triage"] /\ spent' = spent
      \/ /\ spent' = [spent EXCEPT ![r] = {}]
         /\ disp' = [disp EXCEPT ![r] = "poll"] /\ batch' = batch
  BY DEF Claim, Goto
<1>2. count' = [m \in Msgs |->
                  IF m \in claimed /\ count[m] < MaxRetries THEN count[m] + 1 ELSE count[m]]
  BY DEF Claim
<1>3. SpentListed'
  BY <1>0, <1>1, InHandFacts DEF SpentListed, TypeOK
<1>4. OthersKeep(r)
  BY <1>0, <1>1 DEF OthersKeep, TypeOK
<1>5. ASSUME NEW m \in Msgs PROVE BudgetFor(m)'
  <2>0. BudgetFor(m) /\ r \notin Listing(m)'
    BY <1>0, InHandFacts DEF Listing, TypeOK
  <2>1. CASE m \notin claimed
    <3>1. count'[m] = count[m]
      BY <1>2, <2>1
    <3>2. r \in Likely(m)' => r \in Likely(m)
      BY <1>0, <1>1, <2>1 DEF Likely, TypeOK
    <3> QED BY <1>0, <1>4, <2>0, <3>1, <3>2, LocalBudget
  <2>2. CASE m \in claimed /\ m \in spent[r]
    <3>1. count'[m] = count[m]
      <4>1. count[m] = MaxRetries
        BY <2>2, InHandFacts
      <4> QED BY <1>2, <4>1
    <3>2. r \in Likely(m)' => r \in Likely(m)
      BY <1>0, <1>1, <2>2 DEF Likely, TypeOK
    <3> QED BY <1>0, <1>4, <2>0, <3>1, <3>2, LocalBudget
  <2>3. CASE m \in claimed /\ m \notin spent[r]
    <3>1. /\ r \in Listing(m) /\ Listing(m)' \subseteq Listing(m) \ {r}
          /\ Listing(m)' \subseteq Replicas \ {r}
          /\ Likely(m)' \subseteq Likely(m) \cup {r}
      <4>1. r \in Listing(m)
        BY <1>0, <2>3 DEF Listing
      <4>2. Listing(m)' \subseteq Listing(m) \ {r}
        BY <1>4, <2>0 DEF Listing, OthersKeep
      <4>3. Likely(m)' \subseteq Likely(m) \cup {r}
        BY <1>4 DEF Likely, OthersKeep
      <4> QED BY <4>1, <4>2, <4>3, LikelySets
    <3>2. /\ Cardinality(Likely(m)') <= Cardinality(Likely(m)) + 1
          /\ Cardinality(Listing(m)') + 1 <= Cardinality(Listing(m))
          /\ Cardinality(Listing(m)') + 1 <= Cardinality(Replicas)
          /\ Cardinality(Likely(m)') \in Nat /\ Cardinality(Listing(m)') \in Nat
      BY <3>1, LikelySets, LessCard, MoreCard, SubsetCard
    <3>3. entry'[m] # "unread"
      BY <1>0, <2>3
    <3>4. count'[m] = IF count[m] < MaxRetries THEN count[m] + 1 ELSE count[m]
      BY <1>2, <2>3
    <3>5. attempts'[m] = attempts[m]
      BY <1>0
    <3>6. CASE count[m] < MaxRetries
      <4>1. attempts[m] + Cardinality(Likely(m)) <= count[m] /\ count'[m] = count[m] + 1
        BY <2>0, <3>4, <3>6 DEF BudgetFor
      <4>2. attempts'[m] + Cardinality(Likely(m)') <= count'[m]
        BY <1>0, <3>2, <3>5, <4>1, BudgetNumbers
      <4>3. count'[m] = MaxRetries =>
              attempts'[m] + Cardinality(Likely(m)') + Cardinality(Listing(m)') <= AttemptLimit
        BY <1>0, <3>2, <3>5, <4>1, BudgetNumbers
      <4> QED BY <3>3, <4>2, <4>3 DEF BudgetFor, AttemptLimit
    <3>7. CASE count[m] = MaxRetries
      <4>1. /\ attempts[m] + Cardinality(Likely(m)) + Cardinality(Listing(m)) <= AttemptLimit
            /\ count'[m] = MaxRetries
        BY <2>0, <3>4, <3>7 DEF BudgetFor
      <4>2. attempts'[m] + Cardinality(Likely(m)') + Cardinality(Listing(m)') <= AttemptLimit
        BY <1>0, <3>2, <3>5, <4>1, BudgetNumbers
      <4> QED BY <3>3, <4>1, <4>2 DEF BudgetFor, AttemptLimit
    <3> QED BY <1>0, <3>6, <3>7, BudgetNumbers
  <2> QED BY <2>1, <2>2, <2>3
<1> QED BY <1>3, <1>5, BudgetParts

\* A fresh message has been listed and run by nobody, and its count starts at 1.
LEMMA ReadFreshBudget ==
  ASSUME StreamInv, NEW r \in Replicas, ReadFresh(r)
  PROVE  BudgetInv'
<1> DEFINE new == Oldest({m \in Msgs : entry[m] = "unread"})
<1>0. /\ TypeOK /\ disp[r] = "read" /\ UNCHANGED <<listed, spent, task, attempts>>
      /\ batch[r] = {} /\ spent[r] = {} /\ listed[r] = {}
  BY InHandFacts DEF ReadFresh, history
<1>1. /\ \A m \in new : m \in Msgs /\ entry[m] = "unread"
      /\ entry' = [m \in Msgs |-> IF m \in new THEN "pending" ELSE entry[m]]
      /\ count' = [m \in Msgs |-> IF m \in new THEN 1 ELSE count[m]]
      /\ batch' = [batch EXCEPT ![r] = new] \/ batch' = batch
      /\ \E s : Goto(r, s)
  BY OldestSubset DEF ReadFresh
<1> HIDE DEF new
<1>2. OthersKeep(r)
  BY <1>0, <1>1 DEF OthersKeep, TypeOK
<1>3. SpentListed'
  BY <1>0, <1>1, InHandFacts DEF SpentListed, Goto, TypeOK
<1>4. ASSUME NEW m \in Msgs PROVE BudgetFor(m)'
  <2>0. BudgetFor(m) /\ Listing(m)' = Listing(m)
    BY <1>0, InHandFacts DEF Listing
  <2>1. CASE m \notin new
    <3>1. count'[m] = count[m] /\ entry'[m] = entry[m]
      BY <1>1, <2>1
    <3>2. r \in Likely(m)' => r \in Likely(m)
      BY <1>0, <1>1, <2>1 DEF Likely, TypeOK
    <3> QED BY <1>0, <1>2, <2>0, <3>1, <3>2, LocalBudget
  <2>2. CASE m \in new
    <3>1. attempts'[m] = 0 /\ Likely(m) = {} /\ Listing(m)' = {}
      BY <1>0, <1>1, <2>0, <2>2 DEF BudgetFor
    <3>2. Likely(m)' \subseteq {} \cup {r}
      BY <1>2, <3>1 DEF Likely, OthersKeep
    <3>3. Cardinality({}) = 0 /\ {} \in SUBSET Replicas
      BY FS_EmptySet
    <3>4. Cardinality(Likely(m)') <= 1 /\ Cardinality(Likely(m)') \in Nat
      BY <3>2, <3>3, LikelySets, MoreCard, SubsetCard
    <3>5. 1 <= Cardinality(Replicas) /\ Cardinality(Replicas) \in Nat
      <4>1. Replicas \in SUBSET Replicas /\ {} \in SUBSET (Replicas \ {r})
        OBVIOUS
      <4> QED BY <3>3, <4>1, LessCard, SubsetCard
    <3>6. count'[m] = 1 /\ entry'[m] = "pending"
      BY <1>1, <2>2
    <3>7. attempts'[m] + Cardinality(Likely(m)') <= count'[m]
      BY <3>1, <3>4, <3>6
    <3>8. count'[m] = MaxRetries =>
            attempts'[m] + Cardinality(Likely(m)') + Cardinality(Listing(m)') <= AttemptLimit
      BY <3>1, <3>3, <3>4, <3>5, <3>6 DEF AttemptLimit
    <3> QED BY <3>6, <3>7, <3>8 DEF BudgetFor, AttemptLimit
  <2> QED BY <2>1, <2>2
<1> QED BY <1>3, <1>4, BudgetParts

LEMMA CrashBudget ==
  ASSUME StreamInv, NEW r \in Replicas, Crash(r)
  PROVE  BudgetInv'
<1>0. TypeOK /\ UNCHANGED <<entry, count, attempts>>
  BY InHandFacts DEF Crash, history
<1>1. /\ listed' = [listed EXCEPT ![r] = {}] /\ spent' = [spent EXCEPT ![r] = {}]
      /\ batch' = [batch EXCEPT ![r] = {}] /\ disp' = [disp EXCEPT ![r] = "poll"]
      /\ task' = [task EXCEPT ![r] = [m \in Msgs |-> "none"]]
  BY DEF Crash, Goto
<1>2. /\ OthersKeep(r) /\ \A q \in Replicas : q # r => disp'[q] = disp[q]
      /\ spent'[r] = {} /\ listed'[r] = {} /\ batch'[r] = {} /\ \A m \in Msgs : task'[r][m] = "none"
  BY <1>0, <1>1 DEF OthersKeep, TypeOK
<1>3. ASSUME NEW m \in Msgs
      PROVE  (r \in Likely(m)' => r \in Likely(m)) /\ (r \in Listing(m)' => r \in Listing(m))
  BY <1>2 DEF Likely, Listing
<1> QED BY <1>0, <1>2, <1>3, LetGoBudget

LEMMA StreamInit == Init => StreamInv
<1> SUFFICES ASSUME Init PROVE StreamInv
  OBVIOUS
<1>1. GroupInv
  BY GroupInit
<1>2. ASSUME NEW m \in Msgs PROVE BudgetFor(m)
  <2>1. Likely(m) = {} /\ Listing(m) = {} /\ attempts[m] = 0 /\ count[m] = 0
    BY DEF Init, Likely, Listing
  <2>2. Cardinality({}) = 0
    BY FS_EmptySet
  <2> QED BY <2>1, <2>2 DEF BudgetFor
<1>3. \A r \in Replicas : spent[r] = {}
  BY DEF Init
<1> QED BY <1>1, <1>2, <1>3 DEF StreamInv, BudgetInv, BudgetFor

LEMMA StreamStep == StreamInv /\ [Next]_vars => StreamInv'
<1> SUFFICES ASSUME StreamInv, [Next]_vars PROVE StreamInv'
  OBVIOUS
<1>0. GroupInv'
  BY GroupStep DEF StreamInv
<1>1. ASSUME NEW r \in Replicas, DispatcherStep(r) PROVE BudgetInv'
  BY <1>1, PollBudget, ClaimBudget, DispatcherBudget, ReadFreshBudget, ExhaustBudget,
     StartLeaseBudget, WorkerBudget DEF DispatcherStep
<1>2. ASSUME NEW r \in Replicas, NEW m \in Msgs, WorkerStep(r, m) PROVE BudgetInv'
  BY <1>2, StartHandlerBudget, WorkerBudget DEF WorkerStep
<1>3. CASE \/ \E r \in Replicas, m \in Msgs : LeaseStep(r, m)
           \/ \E m \in Msgs : Age(m)
           \/ UNCHANGED vars
  <2>1. UNCHANGED <<entry, count, batch, spent, listed, task, attempts, disp>>
    BY <1>3 DEF LeaseStep, Refresh, RefreshFails, Age, vars, log, dispatcher, history
  <2> QED BY <1>0, <2>1, SameBudget DEF StreamInv
<1> QED BY <1>0, <1>1, <1>2, <1>3, CrashBudget DEF Next, StreamInv

\* The consumer group keeps its inductive invariant through crashes, lost
\* answers, lost leases and take-overs, for any number of replicas.
THEOREM StreamInvariant == Spec => []StreamInv
<1> QED BY StreamInit, StreamStep, PTL DEF Spec

\* A lease kept up by timely refreshes excludes every other replica's
\* (startLease, RefreshOwnedPending, ConsumePendingExcept).
THEOREM OneHandlerAtATime == Spec => []OneLiveHandler
<1>1. StreamInv => OneLiveHandler
  BY DEF StreamInv, GroupInv, LeaseOwnsEntry, OneLiveHandler, Owns
<1> QED BY <1>1, StreamInvariant, PTL

\* No message is acknowledged and forgotten: AckOwned and
\* DeadLetterAndAckOwned are reached with the message settled.
THEOREM NothingAckedUnsettled == Spec => []AckedIsSettled
<1>1. StreamInv => AckedIsSettled
  BY DEF StreamInv, GroupInv
<1> QED BY <1>1, StreamInvariant, PTL

\* However replicas crash, answers get lost and leases are taken over, handlers
\* are started for a message at most MaxRetries times and once more for every
\* other replica, whose listing (XPENDING) may be older than its claim.
THEOREM RunsAreBounded == Spec => []AttemptsBounded
<1>1. StreamInv => AttemptsBounded
  <2> SUFFICES ASSUME StreamInv, NEW m \in Msgs PROVE attempts[m] <= AttemptLimit
    BY DEF AttemptsBounded
  <2>1. TypeOK /\ BudgetFor(m)
    BY DEF StreamInv, GroupInv, BudgetInv, BudgetFor
  <2>2. CASE count[m] = MaxRetries
    BY <2>1, <2>2, BudgetNumbers DEF BudgetFor
  <2>3. CASE count[m] < MaxRetries
    <3>1. attempts[m] <= count[m]
      BY <2>1, <2>3, BudgetNumbers DEF BudgetFor
    <3> QED BY <2>1, <2>3, <3>1, BudgetNumbers
  <2> QED BY <2>1, <2>2, <2>3, BudgetNumbers
<1> QED BY <1>1, StreamInvariant, PTL
=============================================================================
