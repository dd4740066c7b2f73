---------------------------- MODULE PMSendProofs ----------------------------
(***************************************************************************)
(* SendPM for any number of requests, conversations and overlapping calls: *)
(* PMInv is inductive, and with it the promises of the send guard and of   *)
(* the ice break hold.                                                     *)
(***************************************************************************)
EXTENDS PMSend, TLAPS, FiniteSetTheorems

USE AgentsAssumption, RequestsAssumption, CallsAssumption, BoundsAssumption

-----------------------------------------------------------------------------
(* Finite sets of calls *)

LEMMA CallSets ==
  ASSUME NEW S \in SUBSET Calls
  PROVE  IsFiniteSet(S) /\ Cardinality(S) \in Nat
  BY FS_Subset, FS_CardinalityType

LEMMA SmallerCount ==
  ASSUME NEW T \in SUBSET Calls, NEW S \in SUBSET T
  PROVE  Cardinality(S) <= Cardinality(T)
  BY CallSets, FS_Subset

LEMMA OneMore ==
  ASSUME NEW T \in SUBSET Calls, NEW j, NEW S \in SUBSET (T \cup {j})
  PROVE  Cardinality(S) <= Cardinality(T) + 1
<1>1. /\ IsFiniteSet(T \cup {j})
      /\ Cardinality(T \cup {j}) <= Cardinality(T) + 1 /\ Cardinality(T \cup {j}) \in Nat
  BY CallSets, FS_AddElement, FS_CardinalityType
<1>2. Cardinality(S) <= Cardinality(T \cup {j}) /\ Cardinality(S) \in Nat
  BY <1>1, FS_Subset, FS_CardinalityType
<1> QED BY <1>1, <1>2, CallSets

LEMMA OneLess ==
  ASSUME NEW T \in SUBSET Calls, NEW j \in T, NEW S \in SUBSET (T \ {j})
  PROVE  Cardinality(S) + 1 <= Cardinality(T)
<1>1. /\ IsFiniteSet(T \ {j})
      /\ Cardinality(T \ {j}) = Cardinality(T) - 1 /\ Cardinality(T \ {j}) \in Nat
  BY CallSets, FS_RemoveElement, FS_CardinalityType
<1>2. Cardinality(S) <= Cardinality(T \ {j}) /\ Cardinality(S) \in Nat
  BY <1>1, FS_Subset, FS_CardinalityType
<1> QED BY <1>1, <1>2, CallSets

LEMMA CountTypes ==
  /\ \A r : Pending(r) \in SUBSET Calls /\ Cardinality(Pending(r)) \in Nat
  /\ \A c : Granted(c) \in SUBSET Calls /\ Cardinality(Granted(c)) \in Nat
<1>1. \A r : Pending(r) \in SUBSET Calls
  BY DEF Pending
<1>2. \A c : Granted(c) \in SUBSET Calls
  BY DEF Granted
<1> QED BY <1>1, <1>2, CallSets

LEMMA CountTypesPrimed ==
  /\ \A r : Pending(r)' \in SUBSET Calls /\ Cardinality(Pending(r)') \in Nat
  /\ \A c : Granted(c)' \in SUBSET Calls /\ Cardinality(Granted(c)') \in Nat
<1>1. \A r : Pending(r)' \in SUBSET Calls
  BY DEF Pending
<1>2. \A c : Granted(c)' \in SUBSET Calls
  BY DEF Granted
<1> QED BY <1>1, <1>2, CallSets

-----------------------------------------------------------------------------
(* What a step that leaves a part alone keeps *)

LEMMA CreditFrame ==
  ASSUME CreditInv, UNCHANGED <<sent, lapses, guard>>, TypeOK,
         \A r \in Requests : Pending(r)' \subseteq Pending(r)
  PROVE  CreditInv'
<1> SUFFICES ASSUME NEW r \in Requests
    PROVE sent'[r] + Cardinality(Pending(r)') <= lapses'[r] + (IF guard'[r] = "free" THEN 0 ELSE 1)
  BY DEF CreditInv
<1>1. Cardinality(Pending(r)') <= Cardinality(Pending(r))
  BY CountTypes, SmallerCount
<1>2. sent[r] \in Nat /\ lapses[r] \in Nat
  BY DEF TypeOK
<1>3. sent[r] + Cardinality(Pending(r)) <= lapses[r] + (IF guard[r] = "free" THEN 0 ELSE 1)
  BY DEF CreditInv
<1> QED BY <1>1, <1>2, <1>3, CountTypes, CountTypesPrimed

LEMMA MarkFrame ==
  ASSUME MarkInv, UNCHANGED <<iceVars, database>>,
         \A c \in ConvIds : Unmarked(c) => Unmarked(c)'
  PROVE  MarkInv'
<1> SUFFICES ASSUME NEW c \in ConvIds
    PROVE /\ lock'[c] # NoLock => lock'[c].by \in tried'[c]
          /\ c \in broken' => tried'[c] = Agents
          /\ resets'[c] = 0 /\ c \notin broken' =>
               tried'[c] = IF lock'[c] = NoLock THEN {} ELSE {lock'[c].by}
          /\ spoken'[c] \subseteq
               tried'[c] \cup (IF Unmarked(c)' \/ resets'[c] > 0 THEN {Visitor} ELSE {})
          /\ c \notin convs' => opening'[c] = 0 /\ spoken'[c] = {} /\ tried'[c] = {}
  BY DEF MarkInv
<1> QED BY DEF MarkInv, iceVars, database

LEMMA NatTimes ==
  ASSUME NEW m \in Nat, NEW x \in Nat
  PROVE  m * x \in Nat /\ m * (x + 1) = m * x + m
  OBVIOUS

LEMMA CountFrame ==
  ASSUME CountInv, UNCHANGED <<opening, spoken, tried, lock, resets>>, TypeOK,
         \A c \in ConvIds : Granted(c)' \subseteq Granted(c),
         \A c \in ConvIds : Unmarked(c) => Unmarked(c)'
  PROVE  CountInv'
<1> SUFFICES ASSUME NEW c \in ConvIds, NEW a \in Agents,
                    tried[c] \subseteq {a}, spoken[c] \subseteq {a}
    PROVE opening[c] + Cardinality(Granted(c)')
            <= lock[c].n + MaxInitiatorMsgs * resets[c] + (IF Unmarked(c)' THEN 1 ELSE 0)
  BY DEF CountInv
<1>1. Cardinality(Granted(c)') <= Cardinality(Granted(c))
  BY CountTypes, SmallerCount
<1>2. opening[c] \in Nat /\ resets[c] \in Nat /\ lock[c].n \in Nat
  BY DEF TypeOK, Lock, NoLock
<1>3. opening[c] + Cardinality(Granted(c))
        <= lock[c].n + MaxInitiatorMsgs * resets[c] + (IF Unmarked(c) THEN 1 ELSE 0)
  BY DEF CountInv
<1>4. MaxInitiatorMsgs * resets[c] \in Nat
  BY <1>2, NatTimes
<1> QED BY <1>1, <1>2, <1>3, <1>4, CountTypes, CountTypesPrimed

LEMMA PMInit == Init => PMInv
<1> SUFFICES ASSUME Init PROVE PMInv
  OBVIOUS
<1>1. TypeOK /\ CallInv /\ GuardInv
  BY DEF Init, TypeOK, CallInv, CallOK, GuardInv, Steps, Lock, NoLock, Agents
<1>2. /\ \A r \in Requests : Pending(r) = {} /\ sent[r] = 0 /\ lapses[r] = 0
      /\ \A c \in ConvIds : /\ Granted(c) = {} /\ opening[c] = 0 /\ resets[c] = 0
                            /\ ~Unmarked(c) /\ lock[c].n = 0
  BY DEF Init, Pending, Granted, Unmarked, NoLock
<1>a. /\ \A r \in Requests : Cardinality(Pending(r)) = 0
      /\ \A c \in ConvIds : Cardinality(Granted(c)) = 0
  BY <1>2, FS_EmptySet
<1>3. CreditInv
  BY <1>2, <1>a DEF CreditInv
<1>4. MarkInv
  BY DEF Init, MarkInv
<1>5. CountInv
  <2>1. MaxInitiatorMsgs * 0 = 0
    OBVIOUS
  <2> QED BY <1>2, <1>a, <2>1 DEF CountInv
<1> QED BY <1>1, <1>3, <1>4, <1>5 DEF PMInv

-----------------------------------------------------------------------------
(* Steps that only move on *)

\* A call goes on, back to neither an earlier step nor one that counts.
LEMMA MoveOn ==
  ASSUME PMInv, NEW j \in Calls, NEW s \in Steps \ {"idle", "mark", "friend"},
         Goto(j, s), pc[j] \notin {"idle", "mark", "complete"},
         s \in {"item", "create"} => pc[j] \in {"item", "create"},
         s \in {"reply", "ice"} => pc[j] \in {"reply", "ice"},
         s = "tx" => pc[j] \in {"reply", "friend"},
         UNCHANGED <<guardVars, database, iceVars, locals, stale>>,
         expiries' \in 0..MaxExpiries, faults' \in 0..MaxFaults
  PROVE  PMInv'
<1> USE DEF guardVars, database, iceVars, locals
<1>0. TypeOK /\ CallInv /\ pc' = [pc EXCEPT ![j] = s]
  BY DEF PMInv, Goto
<1>1. TypeOK'
  BY <1>0 DEF TypeOK
<1>2. pc'[j] = s /\ (\A k \in Calls : k # j => pc'[k] = pc[k])
  BY <1>0 DEF TypeOK
<1>3. CallInv'
  <2> SUFFICES ASSUME NEW k \in Calls PROVE CallOK(k)'
    BY DEF CallInv
  <2>1. CallOK(k) /\ CallOK(j)
    BY <1>0 DEF CallInv
  <2>2. CASE k = j
    BY <1>2, <2>1, <2>2 DEF CallOK, Steps
  <2>3. CASE k # j
    BY <1>2, <2>1, <2>3 DEF CallOK
  <2> QED BY <2>2, <2>3
<1>4. GuardInv'
  BY <1>2 DEF GuardInv, PMInv
<1>5. \A r \in Requests : Pending(r)' \subseteq Pending(r)
  BY <1>2 DEF Pending
<1>6. \A c \in ConvIds : Granted(c)' \subseteq Granted(c)
  BY <1>0, <1>2 DEF Granted, CallInv, CallOK
<1>7. \A c \in ConvIds : Unmarked(c) => Unmarked(c)'
  BY <1>2 DEF Unmarked
<1>8. CreditInv' /\ MarkInv' /\ CountInv'
  BY <1>0, <1>5, <1>6, <1>7, CreditFrame, MarkFrame, CountFrame DEF PMInv
<1> QED BY <1>1, <1>3, <1>4, <1>8 DEF PMInv

LEMMA MovingSteps ==
  ASSUME PMInv, NEW j \in Calls,
         \/ Reject(j) \/ SilentlyBlocked(j) \/ NoConversation(j)
         \/ SkipIceBreak(j) \/ Strangers(j) \/ RollbackFails(j) \/ TxFails(j)
         \/ DuplicateConversation(j)
  PROVE  PMInv'
<1>0. expiries \in 0..MaxExpiries /\ faults \in 0..MaxFaults
  BY DEF PMInv, TypeOK
<1>1. Fault => expiries' \in 0..MaxExpiries /\ faults' \in 0..MaxFaults
  BY <1>0 DEF Fault
<1>2. UNCHANGED bounds => expiries' \in 0..MaxExpiries /\ faults' \in 0..MaxFaults
  BY <1>0 DEF bounds
<1> USE <1>1, <1>2 DEF Steps
<1>3. CASE Reject(j)
  BY <1>3, MoveOn DEF Reject
<1>4. CASE SilentlyBlocked(j)
  BY <1>4, MoveOn DEF SilentlyBlocked
<1>5. CASE NoConversation(j)
  BY <1>5, MoveOn DEF NoConversation
<1>6. CASE SkipIceBreak(j)
  BY <1>6, MoveOn DEF SkipIceBreak
<1>7. CASE Strangers(j)
  BY <1>7, MoveOn DEF Strangers
<1>8. CASE RollbackFails(j)
  BY <1>8, MoveOn DEF RollbackFails
<1>9. CASE TxFails(j)
  BY <1>9, MoveOn DEF TxFails
<1>10. CASE DuplicateConversation(j)
  BY <1>10, MoveOn DEF DuplicateConversation
<1> QED BY <1>3, <1>4, <1>5, <1>6, <1>7, <1>8, <1>9, <1>10

-----------------------------------------------------------------------------
(* Calls that end *)

LEMMA ReturnFacts ==
  ASSUME PMInv, NEW j \in Calls, Return(j), UNCHANGED <<convs, tried>>
  PROVE  /\ pc' \in [Calls -> Steps] /\ req' \in [Calls -> Requests \cup {"none"}]
         /\ conv' \in [Calls -> ConvIds \cup {"none"}]
         /\ ice' \in [Calls -> IceStatus \cup {"none"}] /\ stale' \subseteq Calls
         /\ pc'[j] = "idle" /\ req'[j] = "none"
         /\ \A k \in Calls : k # j => /\ pc'[k] = pc[k] /\ req'[k] = req[k]
                                      /\ conv'[k] = conv[k] /\ ice'[k] = ice[k]
                                      /\ k \in stale' <=> k \in stale
         /\ CallInv'
         /\ \A r \in Requests : Pending(r)' \subseteq Pending(r) \ {j}
         /\ \A c \in ConvIds : Granted(c)' \subseteq Granted(c)
<1>0. TypeOK /\ CallInv
  BY DEF PMInv
<1>1. /\ pc' \in [Calls -> Steps] /\ req' \in [Calls -> Requests \cup {"none"}]
      /\ conv' \in [Calls -> ConvIds \cup {"none"}]
      /\ ice' \in [Calls -> IceStatus \cup {"none"}] /\ stale' \subseteq Calls
  BY <1>0 DEF Return, Goto, TypeOK, Steps
<1>2. /\ pc'[j] = "idle" /\ req'[j] = "none" /\ ice'[j] = "none" /\ j \notin stale'
      /\ \A k \in Calls : k # j => /\ pc'[k] = pc[k] /\ req'[k] = req[k]
                                   /\ conv'[k] = conv[k] /\ ice'[k] = ice[k]
                                   /\ k \in stale' <=> k \in stale
  BY <1>0 DEF Return, Goto, TypeOK
<1>3. CallInv'
  <2> SUFFICES ASSUME NEW k \in Calls PROVE CallOK(k)'
    BY DEF CallInv
  <2>1. CallOK(k)
    BY <1>0 DEF CallInv
  <2>2. CASE k = j
    BY <1>2, <2>2 DEF CallOK
  <2>3. CASE k # j
    BY <1>2, <2>1, <2>3 DEF CallOK
  <2> QED BY <2>2, <2>3
<1>4. \A r \in Requests : Pending(r)' \subseteq Pending(r) \ {j}
  BY <1>2 DEF Pending
<1>5. \A c \in ConvIds : Granted(c)' \subseteq Granted(c)
  BY <1>2 DEF Granted
<1> QED BY <1>1, <1>2, <1>3, <1>4, <1>5

LEMMA CompleteStep ==
  ASSUME PMInv, NEW j \in Calls, Complete(j)
  PROVE  PMInv'
<1> USE DEF iceVars, database, bounds
<1>0. TypeOK /\ CallInv /\ GuardInv /\ pc[j] = "complete" /\ req[j] \in Requests
  BY DEF PMInv, Complete, CallInv, CallOK, TypeOK
<1>1. Return(j) /\ UNCHANGED <<lapses, database, iceVars, bounds>>
  BY DEF Complete
<1>2. /\ guard' \in [Requests -> Calls \cup {"free", "done"}]
      /\ \A r \in Requests : \/ guard'[r] = guard[r]
                             \/ r = req[j] /\ guard[r] = j /\ guard'[r] = "done"
  BY <1>0 DEF Complete, TypeOK
<1>3. TypeOK' /\ CallInv'
  BY <1>0, <1>1, <1>2, ReturnFacts DEF TypeOK
<1>4. GuardInv'
  <2> SUFFICES ASSUME NEW k \in Calls, pc'[k] # "idle", k \notin stale'
      PROVE guard'[req'[k]] = k
    BY DEF GuardInv
  <2>1. k # j /\ pc[k] # "idle" /\ k \notin stale /\ req'[k] = req[k]
    BY <1>1, ReturnFacts
  <2>2. guard[req[k]] = k /\ req[k] \in Requests
    BY <1>0, <2>1 DEF GuardInv, CallInv, CallOK, TypeOK
  <2> QED BY <1>2, <2>1, <2>2
<1>5. CreditInv'
  <2> SUFFICES ASSUME NEW r \in Requests
      PROVE sent'[r] + Cardinality(Pending(r)') <= lapses'[r] + (IF guard'[r] = "free" THEN 0 ELSE 1)
    BY DEF CreditInv
  <2>1. Cardinality(Pending(r)') <= Cardinality(Pending(r))
    BY <1>1, ReturnFacts, CountTypes, SmallerCount
  <2>2. sent[r] \in Nat /\ lapses[r] \in Nat
    BY <1>0 DEF TypeOK
  <2>3. sent[r] + Cardinality(Pending(r)) <= lapses[r] + (IF guard[r] = "free" THEN 0 ELSE 1)
    BY DEF PMInv, CreditInv
  <2>4. guard'[r] = "free" <=> guard[r] = "free"
    BY <1>2
  <2> QED BY <1>1, <2>1, <2>2, <2>3, <2>4, CountTypes, CountTypesPrimed
<1>6. \A c \in ConvIds : Unmarked(c) => Unmarked(c)'
  BY <1>0, <1>1, ReturnFacts DEF Unmarked
<1>7. MarkInv' /\ CountInv'
  BY <1>0, <1>1, <1>6, ReturnFacts, MarkFrame, CountFrame DEF PMInv
<1> QED BY <1>3, <1>4, <1>5, <1>7 DEF PMInv

LEMMA ReleaseStep ==
  ASSUME PMInv, NEW j \in Calls, Release(j)
  PROVE  PMInv'
<1> USE DEF iceVars, database, bounds
<1>0. TypeOK /\ CallInv /\ GuardInv /\ pc[j] = "release" /\ req[j] \in Requests
  BY DEF PMInv, Release, CallInv, CallOK, TypeOK
<1>1. Return(j) /\ UNCHANGED <<lapses, database, iceVars, bounds>>
  BY DEF Release
<1>2. /\ guard' \in [Requests -> Calls \cup {"free", "done"}]
      /\ \A r \in Requests : \/ guard'[r] = guard[r]
                             \/ r = req[j] /\ guard[r] = j /\ guard'[r] = "free"
  BY <1>0 DEF Release, TypeOK
<1>3. TypeOK' /\ CallInv'
  BY <1>0, <1>1, <1>2, ReturnFacts DEF TypeOK
<1>4. GuardInv'
  <2> SUFFICES ASSUME NEW k \in Calls, pc'[k] # "idle", k \notin stale'
      PROVE guard'[req'[k]] = k
    BY DEF GuardInv
  <2>1. k # j /\ pc[k] # "idle" /\ k \notin stale /\ req'[k] = req[k]
    BY <1>1, ReturnFacts
  <2>2. guard[req[k]] = k /\ req[k] \in Requests
    BY <1>0, <2>1 DEF GuardInv, CallInv, CallOK, TypeOK
  <2> QED BY <1>2, <2>1, <2>2
<1>5. CreditInv'
  <2> SUFFICES ASSUME NEW r \in Requests
      PROVE sent'[r] + Cardinality(Pending(r)') <= lapses'[r] + (IF guard'[r] = "free" THEN 0 ELSE 1)
    BY DEF CreditInv
  <2>1. Cardinality(Pending(r)') <= Cardinality(Pending(r))
    BY <1>1, ReturnFacts, CountTypes, SmallerCount
  <2>2. sent[r] \in Nat /\ lapses[r] \in Nat
    BY <1>0 DEF TypeOK
  <2>3. sent[r] + Cardinality(Pending(r)) <= lapses[r] + (IF guard[r] = "free" THEN 0 ELSE 1)
    BY DEF PMInv, CreditInv
  <2>4. CASE guard'[r] = guard[r]
    BY <1>1, <2>1, <2>2, <2>3, <2>4, CountTypes, CountTypesPrimed
  <2>5. CASE r = req[j] /\ guard[r] = j /\ guard'[r] = "free"
    <3>1. j \in Pending(r)
      BY <1>0, <2>5 DEF Pending
    <3>2. Cardinality(Pending(r)') + 1 <= Cardinality(Pending(r))
      BY <1>1, <3>1, ReturnFacts, CountTypes, OneLess
    <3> QED BY <1>1, <2>2, <2>3, <2>5, <3>2, CountTypes, CountTypesPrimed
  <2> QED BY <1>2, <2>4, <2>5
<1>6. \A c \in ConvIds : Unmarked(c) => Unmarked(c)'
  BY <1>0, <1>1, ReturnFacts DEF Unmarked
<1>7. MarkInv' /\ CountInv'
  BY <1>0, <1>1, <1>6, ReturnFacts, MarkFrame, CountFrame DEF PMInv
<1> QED BY <1>3, <1>4, <1>5, <1>7 DEF PMInv

-----------------------------------------------------------------------------
(* Steps that lose count of a conversation *)

LEMMA LossCovered ==
  ASSUME CountInv, TypeOK, NEW c \in ConvIds, LosesCount(c),
         UNCHANGED <<opening, spoken, tried>>,
         \/ lock' = lock
         \/ lock' = [lock EXCEPT ![c] = NoLock] /\ (Unmarked(c) => Unmarked(c)'),
         \A d \in ConvIds : Granted(d)' \subseteq Granted(d),
         \A d \in ConvIds \ {c} : Unmarked(d) => Unmarked(d)'
  PROVE  CountInv'
<1> SUFFICES ASSUME NEW d \in ConvIds, NEW a \in Agents,
                    tried[d] \subseteq {a}, spoken[d] \subseteq {a}
    PROVE opening[d] + Cardinality(Granted(d)')
            <= lock'[d].n + MaxInitiatorMsgs * resets'[d] + (IF Unmarked(d)' THEN 1 ELSE 0)
  BY DEF CountInv
<1>1. Cardinality(Granted(d)') <= Cardinality(Granted(d))
  BY CountTypes, SmallerCount
<1>2. /\ opening[d] \in Nat /\ resets[d] \in Nat
      /\ lock[d].n \in Nat /\ lock[d].n <= MaxInitiatorMsgs
  BY DEF TypeOK, Lock, NoLock
<1>3. opening[d] + Cardinality(Granted(d))
        <= lock[d].n + MaxInitiatorMsgs * resets[d] + (IF Unmarked(d) THEN 1 ELSE 0)
  BY DEF CountInv
<1>4. /\ MaxInitiatorMsgs * resets[d] \in Nat
      /\ MaxInitiatorMsgs * (resets[d] + 1) = MaxInitiatorMsgs * resets[d] + MaxInitiatorMsgs
  BY <1>2, NatTimes
<1>5. CASE d # c
  <2>1. resets'[d] = resets[d] /\ lock'[d] = lock[d]
    BY <1>5 DEF LosesCount, TypeOK
  <2> QED BY <1>1, <1>2, <1>3, <1>4, <1>5, <2>1, CountTypes, CountTypesPrimed
<1>6. CASE d = c
  <2>1. resets'[d] = resets[d] + 1
    BY <1>6 DEF LosesCount, TypeOK
  <2>2. \/ lock'[d].n = lock[d].n
        \/ lock'[d].n = 0 /\ (Unmarked(d) => Unmarked(d)')
    BY <1>6 DEF NoLock, TypeOK
  <2> QED BY <1>1, <1>2, <1>3, <1>4, <2>1, <2>2, CountTypes, CountTypesPrimed
<1> QED BY <1>5, <1>6

LEMMA LossNoted ==
  ASSUME MarkInv, TypeOK, NEW c \in ConvIds, LosesCount(c),
         UNCHANGED <<database, tried>>,
         lock' \in {lock, [lock EXCEPT ![c] = NoLock]},
         broken' \in {broken, broken \ {c}},
         \A d \in ConvIds \ {c} : Unmarked(d) => Unmarked(d)'
  PROVE  MarkInv'
<1> USE DEF database
<1> SUFFICES ASSUME NEW d \in ConvIds
    PROVE /\ lock'[d] # NoLock => lock'[d].by \in tried'[d]
          /\ d \in broken' => tried'[d] = Agents
          /\ resets'[d] = 0 /\ d \notin broken' =>
               tried'[d] = IF lock'[d] = NoLock THEN {} ELSE {lock'[d].by}
          /\ spoken'[d] \subseteq
               tried'[d] \cup (IF Unmarked(d)' \/ resets'[d] > 0 THEN {Visitor} ELSE {})
          /\ d \notin convs' => opening'[d] = 0 /\ spoken'[d] = {} /\ tried'[d] = {}
  BY DEF MarkInv
<1>1. /\ lock[d] # NoLock => lock[d].by \in tried[d]
      /\ d \in broken => tried[d] = Agents
      /\ resets[d] = 0 /\ d \notin broken =>
           tried[d] = IF lock[d] = NoLock THEN {} ELSE {lock[d].by}
      /\ spoken[d] \subseteq
           tried[d] \cup (IF Unmarked(d) \/ resets[d] > 0 THEN {Visitor} ELSE {})
      /\ d \notin convs => opening[d] = 0 /\ spoken[d] = {} /\ tried[d] = {}
  BY DEF MarkInv
<1>2. CASE d # c
  <2>1. /\ resets'[d] = resets[d] /\ lock'[d] = lock[d] /\ (d \in broken' <=> d \in broken)
        /\ Unmarked(d) => Unmarked(d)'
    BY <1>2 DEF LosesCount, TypeOK
  <2> QED BY <1>1, <2>1
<1>3. CASE d = c
  <2>1. resets[d] \in Nat /\ resets'[d] = resets[d] + 1
    BY <1>3 DEF LosesCount, TypeOK
  <2>2. lock'[d] \in {lock[d], NoLock} /\ (d \in broken' => d \in broken)
    BY <1>3 DEF TypeOK
  <2> QED BY <1>1, <2>1, <2>2
<1> QED BY <1>2, <1>3

LEMMA ResetsType ==
  ASSUME TypeOK, NEW c \in ConvIds, LosesCount(c)
  PROVE  resets' \in [ConvIds -> Nat]
  BY DEF TypeOK, LosesCount

LEMMA FaultType ==
  ASSUME TypeOK, Fault
  PROVE  expiries' \in 0..MaxExpiries /\ faults' \in 0..MaxFaults
  BY DEF TypeOK, Fault

LEMMA CrashStep ==
  ASSUME PMInv, NEW j \in Calls, Crash(j)
  PROVE  PMInv'
<1> USE DEF guardVars, iceVars, database
<1>0. TypeOK /\ CallInv /\ pc[j] # "idle"
  BY DEF PMInv, Crash
<1>1. Return(j) /\ Fault /\ UNCHANGED <<guardVars, database, lock, broken, tried>>
  BY DEF Crash
<1>2. \/ pc[j] # "mark" /\ UNCHANGED resets
      \/ pc[j] = "mark" /\ conv[j] \in ConvIds /\ LosesCount(conv[j])
  BY <1>0 DEF Crash, CallInv, CallOK, TypeOK
<1>3. resets' \in [ConvIds -> Nat]
  BY <1>0, <1>2, ResetsType DEF TypeOK
<1>4. TypeOK' /\ CallInv'
  BY <1>0, <1>1, <1>3, ReturnFacts, FaultType DEF TypeOK
<1>5. GuardInv'
  BY <1>1, ReturnFacts DEF GuardInv, PMInv
<1>6. CreditInv'
  BY <1>0, <1>1, ReturnFacts, CreditFrame DEF PMInv
<1>7. \A d \in ConvIds : Unmarked(d) => Unmarked(d)' \/ (pc[j] = "mark" /\ d = conv[j])
  BY <1>1, ReturnFacts DEF Unmarked
<1>8. MarkInv' /\ CountInv'
  <2>1. CASE pc[j] # "mark" /\ UNCHANGED resets
    BY <1>0, <1>1, <1>7, <2>1, ReturnFacts, MarkFrame, CountFrame DEF PMInv
  <2>2. CASE pc[j] = "mark" /\ conv[j] \in ConvIds /\ LosesCount(conv[j])
    BY <1>0, <1>1, <1>7, <2>2, ReturnFacts, LossNoted, LossCovered DEF PMInv
  <2> QED BY <1>2, <2>1, <2>2
<1> QED BY <1>4, <1>5, <1>6, <1>8 DEF PMInv

LEMMA IceBreakExpiresStep ==
  ASSUME PMInv, NEW c \in ConvIds, IceBreakExpires(c)
  PROVE  PMInv'
<1> USE DEF guardVars, iceVars, database, locals
<1>0. TypeOK /\ LosesCount(c)
      /\ UNCHANGED <<guardVars, database, tried, pc, locals, stale, faults>>
  BY DEF PMInv, IceBreakExpires
<1>1. /\ lock' \in {lock, [lock EXCEPT ![c] = NoLock]} /\ broken' \in {broken, broken \ {c}}
      /\ expiries' \in 0..MaxExpiries
  BY <1>0 DEF IceBreakExpires, TypeOK
<1>2. lock' \in [ConvIds -> Lock]
  <2>1. NoLock \in Lock /\ lock \in [ConvIds -> Lock]
    BY <1>0 DEF TypeOK, Lock
  <2> QED BY <1>1, <2>1
<1>3. TypeOK'
  BY <1>0, <1>1, <1>2, ResetsType DEF TypeOK
<1>4. /\ \A r : Pending(r)' = Pending(r)
      /\ \A d : Granted(d)' = Granted(d) /\ (Unmarked(d)' <=> Unmarked(d))
  BY <1>0 DEF Pending, Granted, Unmarked
<1>5. CallInv' /\ GuardInv'
  BY <1>0 DEF PMInv, CallInv, CallOK, GuardInv
<1>6. CreditInv' /\ MarkInv' /\ CountInv'
  BY <1>0, <1>1, <1>4, CreditFrame, LossNoted, LossCovered DEF PMInv
<1> QED BY <1>3, <1>5, <1>6 DEF PMInv

\* A call whose message is decided goes on to report it.
LEMMA ReportFacts ==
  ASSUME PMInv, NEW j \in Calls, NEW s \in {"complete", "release", "rollback"},
         Goto(j, s), pc[j] # "idle", UNCHANGED <<convs, tried, locals, stale>>
  PROVE  /\ pc' \in [Calls -> Steps] /\ pc'[j] = s
         /\ \A k \in Calls : k # j => pc'[k] = pc[k]
         /\ CallInv'
         /\ UNCHANGED guard => GuardInv'
         /\ \A c \in ConvIds : Granted(c)' \subseteq Granted(c) \ {j}
         /\ \A c \in ConvIds : Unmarked(c) => Unmarked(c)' \/ (pc[j] = "mark" /\ c = conv[j])
<1> USE DEF locals
<1>0. TypeOK /\ CallInv /\ pc' = [pc EXCEPT ![j] = s]
  BY DEF PMInv, Goto
<1>1. pc' \in [Calls -> Steps] /\ pc'[j] = s /\ (\A k \in Calls : k # j => pc'[k] = pc[k])
  BY <1>0 DEF TypeOK, Steps
<1>2. CallInv'
  <2> SUFFICES ASSUME NEW k \in Calls PROVE CallOK(k)'
    BY DEF CallInv
  <2>1. CallOK(k)
    BY <1>0 DEF CallInv
  <2>2. CASE k = j
    BY <1>1, <2>1, <2>2 DEF CallOK
  <2>3. CASE k # j
    BY <1>1, <2>1, <2>3 DEF CallOK
  <2> QED BY <2>2, <2>3
<1>3. UNCHANGED guard => GuardInv'
  BY <1>1 DEF PMInv, GuardInv
<1>4. \A c \in ConvIds : Granted(c)' \subseteq Granted(c) \ {j}
  BY <1>1 DEF Granted
<1>5. \A c \in ConvIds : Unmarked(c) => Unmarked(c)' \/ (pc[j] = "mark" /\ c = conv[j])
  BY <1>1 DEF Unmarked
<1> QED BY <1>1, <1>2, <1>3, <1>4, <1>5

LEMMA MarkFailsStep ==
  ASSUME PMInv, NEW j \in Calls, MarkFails(j)
  PROVE  PMInv'
<1> USE DEF guardVars, iceVars, database, locals
<1>0. /\ TypeOK /\ CallInv /\ pc[j] = "mark" /\ conv[j] \in ConvIds
      /\ Goto(j, "complete") /\ Fault /\ LosesCount(conv[j])
      /\ UNCHANGED <<guardVars, database, lock, broken, tried, locals, stale>>
  BY DEF PMInv, MarkFails, CallInv, CallOK, TypeOK
<1>1. TypeOK'
  BY <1>0, ReportFacts, ResetsType, FaultType DEF TypeOK
<1>2. CallInv' /\ GuardInv'
  BY <1>0, ReportFacts
<1>3. \A r \in Requests : Pending(r)' \subseteq Pending(r)
  BY <1>0, ReportFacts DEF Pending
<1>4. CreditInv' /\ MarkInv' /\ CountInv'
  BY <1>0, <1>3, ReportFacts, CreditFrame, LossNoted, LossCovered DEF PMInv
<1> QED BY <1>1, <1>2, <1>4 DEF PMInv

LEMMA RollbackStep ==
  ASSUME PMInv, NEW j \in Calls, RollbackIceBreak(j)
  PROVE  PMInv'
<1> USE DEF guardVars, iceVars, database, locals, bounds
<1>0. /\ TypeOK /\ CallInv /\ pc[j] = "rollback" /\ Goto(j, "release")
      /\ UNCHANGED <<guardVars, database, tried, locals, stale, bounds>>
  BY DEF PMInv, RollbackIceBreak
<1>1. \A r \in Requests : Pending(r)' \subseteq Pending(r)
  BY <1>0, ReportFacts DEF Pending
<1>2. /\ CallInv' /\ GuardInv'
      /\ \A d \in ConvIds : Granted(d)' \subseteq Granted(d)
      /\ \A d \in ConvIds : Unmarked(d) => Unmarked(d)'
  BY <1>0, ReportFacts
<1>3. CreditInv'
  BY <1>0, <1>1, CreditFrame DEF PMInv
<1>4. CASE UNCHANGED <<broken, lock, resets>>
  <2>1. TypeOK'
    BY <1>0, <1>4, ReportFacts DEF TypeOK
  <2>2. MarkInv' /\ CountInv'
    BY <1>0, <1>2, <1>4, MarkFrame, CountFrame DEF PMInv
  <2> QED BY <1>2, <1>3, <2>1, <2>2 DEF PMInv
<1>5. CASE ~UNCHANGED <<broken, lock, resets>>
  <2>1. conv[j] \in ConvIds /\ LosesCount(conv[j])
        /\ lock' \in {lock, [lock EXCEPT ![conv[j]] = NoLock]}
        /\ broken' \in {broken, broken \ {conv[j]}}
    <3>1. ice[j] # "none"
      BY <1>5 DEF RollbackIceBreak
    <3>2. conv[j] \in ConvIds
      BY <1>0, <3>1 DEF CallInv, CallOK, TypeOK
    <3> QED BY <1>5, <3>2 DEF RollbackIceBreak
  <2>2. lock' \in [ConvIds -> Lock]
    <3>1. NoLock \in Lock /\ lock \in [ConvIds -> Lock]
      BY <1>0 DEF TypeOK, Lock
    <3> QED BY <2>1, <3>1
  <2>3. TypeOK'
    BY <1>0, <2>1, <2>2, ReportFacts, ResetsType DEF TypeOK
  <2>4. MarkInv' /\ CountInv'
    BY <1>0, <1>2, <2>1, LossNoted, LossCovered DEF PMInv
  <2> QED BY <1>2, <1>3, <2>3, <2>4 DEF PMInv
<1> QED BY <1>4, <1>5

-----------------------------------------------------------------------------
(* The guard and the conversation *)

LEMMA AcquireStep ==
  ASSUME PMInv, NEW j \in Calls, NEW r \in Requests, Acquire(j, r)
  PROVE  PMInv'
<1> USE DEF guardVars, iceVars, database, bounds
<1> DEFINE t == IF Target[r] \in ConvIds THEN Target[r] ELSE "none"
           s == IF Target[r] \in ConvIds THEN "reply" ELSE Target[r]
<1>0. /\ TypeOK /\ CallInv /\ pc[j] = "idle" /\ guard[r] = "free"
      /\ UNCHANGED <<lapses, database, iceVars, ice, stale, bounds>>
      /\ guard' = [guard EXCEPT ![r] = j] /\ req' = [req EXCEPT ![j] = r]
      /\ conv' = [conv EXCEPT ![j] = t] /\ pc' = [pc EXCEPT ![j] = s]
  BY DEF PMInv, Acquire, Goto
<1>1. /\ t \in ConvIds \cup {"none"} /\ s \in {"item", "reply", "friend"}
      /\ s = "reply" => t \in convs
      /\ s = "item" => Target[r] = "item"
  BY DEF Acquire
<1> HIDE DEF t, s
<1>2. TypeOK'
  BY <1>0, <1>1 DEF TypeOK, Steps
<1>3. /\ pc'[j] = s /\ req'[j] = r /\ conv'[j] = t /\ guard'[r] = j
      /\ \A k \in Calls : k # j => pc'[k] = pc[k] /\ req'[k] = req[k] /\ conv'[k] = conv[k]
      /\ \A q \in Requests : q # r => guard'[q] = guard[q]
  BY <1>0 DEF TypeOK
<1>4. CallInv'
  <2> SUFFICES ASSUME NEW k \in Calls PROVE CallOK(k)'
    BY DEF CallInv
  <2>1. CallOK(k)
    BY <1>0 DEF CallInv
  <2>2. CASE k = j
    <3>1. ice[j] = "none"
      BY <1>0, <2>1, <2>2 DEF CallOK
    <3> QED BY <1>0, <1>1, <1>3, <2>1, <2>2, <3>1 DEF CallOK
  <2>3. CASE k # j
    BY <1>0, <1>1, <1>3, <2>1, <2>3 DEF CallOK
  <2> QED BY <2>2, <2>3
<1>5. GuardInv'
  <2> SUFFICES ASSUME NEW k \in Calls, pc'[k] # "idle", k \notin stale'
      PROVE guard'[req'[k]] = k
    BY DEF GuardInv
  <2>1. CASE k # j
    <3>1. guard[req[k]] = k /\ req[k] \in Requests /\ req'[k] = req[k]
      BY <1>0, <1>3, <2>1 DEF PMInv, GuardInv, CallInv, CallOK, TypeOK
    <3> QED BY <1>0, <1>3, <3>1
  <2> QED BY <1>3, <2>1
<1>6. CreditInv'
  <2> SUFFICES ASSUME NEW q \in Requests
      PROVE sent'[q] + Cardinality(Pending(q)') <= lapses'[q] + (IF guard'[q] = "free" THEN 0 ELSE 1)
    BY DEF CreditInv
  <2>2. sent[q] \in Nat /\ lapses[q] \in Nat
    BY <1>0 DEF TypeOK
  <2>3. sent[q] + Cardinality(Pending(q)) <= lapses[q] + (IF guard[q] = "free" THEN 0 ELSE 1)
    BY DEF PMInv, CreditInv
  <2>4. CASE q = r
    <3>1. Pending(q)' \subseteq Pending(q) \cup {j}
      BY <1>3 DEF Pending
    <3>2. Cardinality(Pending(q)') <= Cardinality(Pending(q)) + 1
      BY <3>1, CountTypes, OneMore
    <3> QED BY <1>0, <1>3, <2>2, <2>3, <2>4, <3>2, CountTypes, CountTypesPrimed
  <2>5. CASE q # r
    <3>1. Pending(q)' \subseteq Pending(q)
      BY <1>3, <2>5 DEF Pending
    <3>2. Cardinality(Pending(q)') <= Cardinality(Pending(q))
      BY <3>1, CountTypes, SmallerCount
    <3> QED BY <1>0, <1>3, <2>2, <2>3, <2>5, <3>2, CountTypes, CountTypesPrimed
  <2> QED BY <2>4, <2>5
<1>7. /\ \A c \in ConvIds : Granted(c)' \subseteq Granted(c)
      /\ \A c \in ConvIds : Unmarked(c) => Unmarked(c)'
  BY <1>0, <1>1, <1>3 DEF Granted, Unmarked
<1>8. MarkInv' /\ CountInv'
  BY <1>0, <1>7, MarkFrame, CountFrame DEF PMInv
<1> QED BY <1>2, <1>4, <1>5, <1>6, <1>8 DEF PMInv

LEMMA GuardExpiresStep ==
  ASSUME PMInv, NEW r \in Requests, GuardExpires(r)
  PROVE  PMInv'
<1> USE DEF iceVars, database, locals
<1>0. /\ TypeOK /\ CallInv /\ guard[r] # "free"
      /\ UNCHANGED <<database, iceVars, pc, locals, faults>>
      /\ stale' = stale \cup {j \in Calls : guard[r] = j /\ req[j] = r}
      /\ guard' = [guard EXCEPT ![r] = "free"] /\ lapses' = [lapses EXCEPT ![r] = @ + 1]
  BY DEF PMInv, GuardExpires
<1>1. TypeOK'
  BY <1>0 DEF TypeOK, GuardExpires
<1>2. /\ guard'[r] = "free" /\ lapses'[r] = lapses[r] + 1
      /\ \A q \in Requests : q # r => guard'[q] = guard[q] /\ lapses'[q] = lapses[q]
  BY <1>0 DEF TypeOK
<1>3. CallInv'
  <2> SUFFICES ASSUME NEW k \in Calls PROVE CallOK(k)'
    BY DEF CallInv
  <2>1. CallOK(k)
    BY <1>0 DEF CallInv
  <2> QED BY <1>0, <2>1 DEF CallOK
<1>4. GuardInv'
  <2> SUFFICES ASSUME NEW k \in Calls, pc[k] # "idle", k \notin stale'
      PROVE guard'[req[k]] = k
    BY <1>0 DEF GuardInv
  <2>1. guard[req[k]] = k /\ req[k] \in Requests
    BY <1>0 DEF PMInv, GuardInv, CallInv, CallOK, TypeOK
  <2>2. req[k] # r
    BY <1>0, <2>1
  <2> QED BY <1>2, <2>1, <2>2
<1>5. /\ \A q : Pending(q)' = Pending(q)
      /\ \A d : Granted(d)' = Granted(d) /\ (Unmarked(d)' <=> Unmarked(d))
  BY <1>0 DEF Pending, Granted, Unmarked
<1>6. CreditInv'
  <2> SUFFICES ASSUME NEW q \in Requests
      PROVE sent'[q] + Cardinality(Pending(q)') <= lapses'[q] + (IF guard'[q] = "free" THEN 0 ELSE 1)
    BY DEF CreditInv
  <2>1. sent[q] \in Nat /\ lapses[q] \in Nat
    BY <1>0 DEF TypeOK
  <2>2. sent[q] + Cardinality(Pending(q)) <= lapses[q] + (IF guard[q] = "free" THEN 0 ELSE 1)
    BY DEF PMInv, CreditInv
  <2> QED BY <1>0, <1>2, <1>5, <2>1, <2>2, CountTypes
<1>7. MarkInv' /\ CountInv'
  BY <1>0, <1>5, MarkFrame, CountFrame DEF PMInv
<1> QED BY <1>1, <1>3, <1>4, <1>6, <1>7 DEF PMInv

LEMMA FindConversationStep ==
  ASSUME PMInv, NEW j \in Calls, NEW c \in ConvIds, FindConversation(j, c)
  PROVE  PMInv'
<1> USE DEF guardVars, iceVars, database, bounds
<1>0. /\ TypeOK /\ CallInv /\ pc[j] = "item" /\ c \in convs
      /\ conv' = [conv EXCEPT ![j] = c] /\ pc' = [pc EXCEPT ![j] = "reply"]
      /\ UNCHANGED <<guardVars, database, iceVars, req, ice, stale, bounds>>
  BY DEF PMInv, FindConversation, Goto
<1>1. TypeOK'
  BY <1>0 DEF TypeOK, Steps
<1>2. /\ pc'[j] = "reply" /\ conv'[j] = c
      /\ \A k \in Calls : k # j => pc'[k] = pc[k] /\ conv'[k] = conv[k]
  BY <1>0 DEF TypeOK
<1>3. CallInv'
  <2> SUFFICES ASSUME NEW k \in Calls PROVE CallOK(k)'
    BY DEF CallInv
  <2>1. CallOK(k)
    BY <1>0 DEF CallInv
  <2>2. CASE k = j
    BY <1>0, <1>2, <2>1, <2>2 DEF CallOK
  <2>3. CASE k # j
    BY <1>0, <1>2, <2>1, <2>3 DEF CallOK
  <2> QED BY <2>2, <2>3
<1>4. GuardInv'
  BY <1>0, <1>2 DEF PMInv, GuardInv
<1>5. /\ \A r \in Requests : Pending(r)' \subseteq Pending(r)
      /\ \A d \in ConvIds : Granted(d)' \subseteq Granted(d)
      /\ \A d \in ConvIds : Unmarked(d) => Unmarked(d)'
  BY <1>0, <1>2 DEF Pending, Granted, Unmarked
<1>6. CreditInv' /\ MarkInv' /\ CountInv'
  BY <1>0, <1>5, CreditFrame, MarkFrame, CountFrame DEF PMInv
<1> QED BY <1>1, <1>3, <1>4, <1>6 DEF PMInv

-----------------------------------------------------------------------------
(* The ice break script *)

LEMMA ScriptFacts ==
  ASSUME PMInv, NEW c \in ConvIds, NEW a \in Agents, IceBreakScript(c, a)
  PROVE  /\ lock' \in [ConvIds -> Lock] /\ broken' \subseteq ConvIds
         /\ tried' \in [ConvIds -> SUBSET Agents] /\ tried'[c] = tried[c] \cup {a}
         /\ \A d \in ConvIds : d # c => /\ lock'[d] = lock[d] /\ tried'[d] = tried[d]
                                        /\ d \in broken' <=> d \in broken
         /\ \/ Status(c, a) \in {"broken", "justBroken"} /\ tried'[c] = Agents /\ c \in broken'
               /\ (lock'[c] = lock[c] \/ lock'[c] = NoLock)
            \/ /\ Status(c, a) = "limit" /\ lock'[c] = lock[c] /\ c \notin broken'
               /\ c \notin broken /\ lock[c] # NoLock /\ lock[c].by = a
            \/ /\ Status(c, a) = "firstMsg" /\ lock'[c].n = lock[c].n + 1 /\ lock'[c].by = a
               /\ c \notin broken' /\ c \notin broken /\ lock'[c] # NoLock
               /\ (lock[c] = NoLock \/ lock[c].by = a)
<1>0. /\ TypeOK /\ lock[c] \in Lock /\ a # "none"
      /\ lock[c] # NoLock => lock[c].by \in tried[c]
      /\ c \in broken => tried[c] = Agents
  BY DEF PMInv, MarkInv, TypeOK
<1>a. /\ lock[c].n \in Nat /\ lock[c].n <= MaxInitiatorMsgs
      /\ lock[c] = NoLock <=> lock[c].n = 0
      /\ lock[c] # NoLock => lock[c].by \in Agents
  BY <1>0 DEF Lock, NoLock
<1>1. /\ tried' \in [ConvIds -> SUBSET Agents] /\ tried'[c] = tried[c] \cup {a}
      /\ \A d \in ConvIds : d # c => tried'[d] = tried[d]
  BY <1>0 DEF IceBreakScript, TypeOK
<1>2. CASE Status(c, a) = "broken"
  <2>1. c \in broken /\ lock' = lock /\ broken' = broken
    BY <1>2 DEF Status, IceBreakScript
  <2> QED BY <1>0, <1>1, <1>2, <2>1 DEF TypeOK
<1>3. CASE Status(c, a) = "justBroken"
  <2>1. /\ c \notin broken /\ lock[c] # NoLock /\ lock[c].by # a
        /\ lock' = [lock EXCEPT ![c] = NoLock] /\ broken' = broken \cup {c}
    BY <1>3 DEF Status, IceBreakScript
  <2>2. tried'[c] = Agents
    BY <1>0, <1>1, <1>a, <2>1 DEF Agents
  <2>3. NoLock \in Lock /\ lock \in [ConvIds -> Lock]
    BY <1>0 DEF TypeOK, Lock
  <2>4. lock' \in [ConvIds -> Lock] /\ lock'[c] = NoLock
        /\ \A d \in ConvIds : d # c => lock'[d] = lock[d]
    BY <2>1, <2>3
  <2> QED BY <1>0, <1>1, <1>3, <2>1, <2>2, <2>4 DEF TypeOK
<1>4. CASE Status(c, a) = "limit"
  <2>1. /\ c \notin broken /\ ~(lock[c] # NoLock /\ lock[c].by # a)
        /\ lock[c].n >= MaxInitiatorMsgs /\ lock' = lock /\ broken' = broken
    BY <1>4 DEF Status, IceBreakScript
  <2>2. lock[c] # NoLock
    BY <1>a, <2>1
  <2> QED BY <1>0, <1>1, <1>4, <2>1, <2>2 DEF TypeOK
<1>5. CASE Status(c, a) = "firstMsg"
  <2> DEFINE new == [by |-> a, n |-> lock[c].n + 1]
  <2>1. /\ c \notin broken /\ ~(lock[c] # NoLock /\ lock[c].by # a)
        /\ ~(lock[c].n >= MaxInitiatorMsgs)
        /\ lock' = [lock EXCEPT ![c] = new] /\ broken' = broken
    BY <1>5 DEF Status, IceBreakScript
  <2>2. new \in Lock /\ new # NoLock /\ new.by = a /\ new.n = lock[c].n + 1
    BY <1>a, <2>1 DEF Lock, NoLock
  <2>3. lock \in [ConvIds -> Lock]
    BY <1>0 DEF TypeOK
  <2> HIDE DEF new
  <2>4. lock' \in [ConvIds -> Lock] /\ lock'[c] = new
        /\ \A d \in ConvIds : d # c => lock'[d] = lock[d]
    BY <2>1, <2>2, <2>3
  <2> QED BY <1>0, <1>1, <1>5, <2>1, <2>2, <2>4 DEF TypeOK
<1> QED BY <1>2, <1>3, <1>4, <1>5 DEF Status

LEMMA ScriptMarks ==
  ASSUME PMInv, NEW c \in ConvIds, NEW a \in Agents, IceBreakScript(c, a),
         c \in convs, UNCHANGED database, resets' = resets \/ LosesCount(c),
         \A d \in ConvIds \ {c} : Unmarked(d) => Unmarked(d)',
         Unmarked(c) => Unmarked(c)' \/ a = Visitor
  PROVE  MarkInv'
<1> USE DEF database
<1> SUFFICES ASSUME NEW d \in ConvIds
    PROVE /\ lock'[d] # NoLock => lock'[d].by \in tried'[d]
          /\ d \in broken' => tried'[d] = Agents
          /\ resets'[d] = 0 /\ d \notin broken' =>
               tried'[d] = IF lock'[d] = NoLock THEN {} ELSE {lock'[d].by}
          /\ spoken'[d] \subseteq
               tried'[d] \cup (IF Unmarked(d)' \/ resets'[d] > 0 THEN {Visitor} ELSE {})
          /\ d \notin convs' => opening'[d] = 0 /\ spoken'[d] = {} /\ tried'[d] = {}
  BY DEF MarkInv
<1>1. /\ lock[d] # NoLock => lock[d].by \in tried[d]
      /\ d \in broken => tried[d] = Agents
      /\ resets[d] = 0 /\ d \notin broken =>
           tried[d] = IF lock[d] = NoLock THEN {} ELSE {lock[d].by}
      /\ spoken[d] \subseteq
           tried[d] \cup (IF Unmarked(d) \/ resets[d] > 0 THEN {Visitor} ELSE {})
      /\ d \notin convs => opening[d] = 0 /\ spoken[d] = {} /\ tried[d] = {}
  BY DEF MarkInv, PMInv
<1>2. resets[d] \in Nat /\ (d # c => resets'[d] = resets[d])
      /\ (resets'[d] = resets[d] \/ resets'[d] = resets[d] + 1)
  BY DEF PMInv, TypeOK, LosesCount
<1>3. CASE d # c
  BY <1>1, <1>2, <1>3, ScriptFacts
<1>4. CASE d = c
  <2>1. /\ tried'[d] = tried[d] \cup {a}
        /\ \/ tried'[d] = Agents /\ d \in broken'
              /\ (lock'[d] = lock[d] \/ lock'[d] = NoLock)
           \/ /\ lock'[d] = lock[d] /\ d \notin broken'
              /\ d \notin broken /\ lock[d] # NoLock /\ lock[d].by = a
           \/ /\ lock'[d].by = a
              /\ d \notin broken' /\ d \notin broken /\ lock'[d] # NoLock
              /\ (lock[d] = NoLock \/ lock[d].by = a)
    BY <1>4, ScriptFacts
  <2>2. resets'[d] = 0 => resets[d] = 0
    BY <1>2
  <2>3. resets[d] > 0 => resets'[d] > 0
    BY <1>2
  <2>4. lock'[d] # NoLock => lock'[d].by \in tried'[d]
    BY <1>1, <2>1
  <2>5. d \in broken' => tried'[d] = Agents
    BY <1>1, <2>1
  <2>6. resets'[d] = 0 /\ d \notin broken' =>
           tried'[d] = IF lock'[d] = NoLock THEN {} ELSE {lock'[d].by}
    BY <1>1, <2>1, <2>2
  <2>7. spoken'[d] \subseteq
           tried'[d] \cup (IF Unmarked(d)' \/ resets'[d] > 0 THEN {Visitor} ELSE {})
    BY <1>1, <1>4, <2>1, <2>3
  <2> QED BY <1>4, <2>4, <2>5, <2>6, <2>7
<1> QED BY <1>3, <1>4

\* The script makes room in the count for one message that it lets through.
LEMMA ScriptCounts ==
  ASSUME PMInv, NEW c \in ConvIds, NEW a \in Agents, IceBreakScript(c, a),
         UNCHANGED <<opening, spoken>>, NEW j \in Calls,
         IF Status(c, a) = "limit"
           THEN /\ Granted(c)' \subseteq Granted(c)
                /\ LosesCount(c) \/ (UNCHANGED resets /\ (Unmarked(c) => Unmarked(c)'))
           ELSE /\ UNCHANGED resets
                /\ \/ Granted(c)' \subseteq Granted(c)
                   \/ /\ Granted(c)' \subseteq Granted(c) \cup {j}
                      /\ Unmarked(c) => Unmarked(c)',
         \A d \in ConvIds \ {c} : Granted(d)' \subseteq Granted(d),
         \A d \in ConvIds \ {c} : Unmarked(d) => Unmarked(d)'
  PROVE  CountInv'
<1> SUFFICES ASSUME NEW d \in ConvIds, NEW b \in Agents,
                    tried'[d] \subseteq {b}, spoken[d] \subseteq {b}
    PROVE opening[d] + Cardinality(Granted(d)')
            <= lock'[d].n + MaxInitiatorMsgs * resets'[d] + (IF Unmarked(d)' THEN 1 ELSE 0)
  BY DEF CountInv
<1>0. tried'[d] = tried[d] \cup (IF d = c THEN {a} ELSE {})
  BY ScriptFacts
<1>1. opening[d] + Cardinality(Granted(d))
        <= lock[d].n + MaxInitiatorMsgs * resets[d] + (IF Unmarked(d) THEN 1 ELSE 0)
  BY <1>0 DEF CountInv, PMInv
<1>2. opening[d] \in Nat /\ resets[d] \in Nat /\ lock[d].n \in Nat
  BY DEF PMInv, TypeOK, Lock, NoLock
<1>3. /\ MaxInitiatorMsgs * resets[d] \in Nat
      /\ MaxInitiatorMsgs * (resets[d] + 1) = MaxInitiatorMsgs * resets[d] + MaxInitiatorMsgs
  BY <1>2, NatTimes
<1>4. CASE d # c
  <2>1. resets'[d] = resets[d] /\ lock'[d] = lock[d]
    BY <1>4, ScriptFacts DEF LosesCount, PMInv, TypeOK
  <2>2. Cardinality(Granted(d)') <= Cardinality(Granted(d))
    BY <1>4, CountTypes, SmallerCount
  <2> QED BY <1>1, <1>2, <1>3, <1>4, <2>1, <2>2, CountTypes, CountTypesPrimed
<1>5. CASE d = c
  <2>1. Status(c, a) \notin {"broken", "justBroken"}
    <3>1. Agents # {b} /\ b \in Agents
      BY DEF Agents
    <3> QED BY <1>5, <3>1, ScriptFacts
  <2>2. CASE Status(c, a) = "limit"
    <3>1. lock'[d] = lock[d]
      BY <1>5, <2>2, ScriptFacts
    <3>2. Cardinality(Granted(d)') <= Cardinality(Granted(d))
      BY <1>5, <2>2, CountTypes, SmallerCount
    <3>3. CASE LosesCount(c)
      <4>1. resets'[d] = resets[d] + 1
        BY <1>5, <3>3 DEF LosesCount, PMInv, TypeOK
      <4> QED BY <1>1, <1>2, <1>3, <3>1, <3>2, <4>1, CountTypes, CountTypesPrimed
    <3>4. CASE UNCHANGED resets /\ (Unmarked(c) => Unmarked(c)')
      BY <1>1, <1>2, <1>3, <1>5, <3>1, <3>2, <3>4, CountTypes, CountTypesPrimed
    <3> QED BY <2>2, <3>3, <3>4
  <2>3. CASE Status(c, a) = "firstMsg"
    <3>1. lock'[d].n = lock[d].n + 1 /\ resets'[d] = resets[d]
      BY <1>5, <2>3, ScriptFacts
    <3>2. CASE Granted(c)' \subseteq Granted(c)
      <4>1. Cardinality(Granted(d)') <= Cardinality(Granted(d))
        BY <1>5, <3>2, CountTypes, SmallerCount
      <4> QED BY <1>1, <1>2, <1>3, <3>1, <4>1, CountTypes, CountTypesPrimed
    <3>3. CASE Granted(c)' \subseteq Granted(c) \cup {j} /\ (Unmarked(c) => Unmarked(c)')
      <4>1. Cardinality(Granted(d)') <= Cardinality(Granted(d)) + 1
        BY <1>5, <3>3, CountTypes, OneMore
      <4> QED BY <1>1, <1>2, <1>3, <1>5, <3>1, <3>3, <4>1, CountTypes, CountTypesPrimed
    <3> QED BY <2>3, <3>2, <3>3
  <2> QED BY <2>1, <2>2, <2>3 DEF Status
<1> QED BY <1>4, <1>5

LEMMA CheckAndSetStep ==
  ASSUME PMInv, NEW j \in Calls, CheckAndSetIceBreak(j)
  PROVE  PMInv'
<1> USE DEF guardVars, iceVars, database, bounds
<1> DEFINE c == conv[j]  a == Sender[req[j]]  st == Status(c, a)
<1>0. /\ TypeOK /\ CallInv /\ pc[j] = "ice" /\ c \in convs /\ c \in ConvIds /\ a \in Agents
      /\ req[j] \in Requests /\ IceBreakScript(c, a)
      /\ UNCHANGED <<guardVars, database, resets, req, conv, stale, bounds>>
  BY DEF PMInv, CheckAndSetIceBreak, CallInv, CallOK, TypeOK
<1>1. \/ st = "limit" /\ pc' = [pc EXCEPT ![j] = "release"] /\ ice' = ice
      \/ /\ st # "limit" /\ st \in IceStatus
         /\ pc' = [pc EXCEPT ![j] = "tx"] /\ ice' = [ice EXCEPT ![j] = st]
  BY DEF CheckAndSetIceBreak, Goto, Status, IceStatus
<1> HIDE DEF c, a, st
<1>2. /\ pc' \in [Calls -> Steps] /\ ice' \in [Calls -> IceStatus \cup {"none"}]
      /\ \A k \in Calls : k # j => pc'[k] = pc[k] /\ ice'[k] = ice[k]
      /\ \/ st = "limit" /\ pc'[j] = "release" /\ ice'[j] = ice[j]
         \/ st # "limit" /\ pc'[j] = "tx" /\ ice'[j] = st
  BY <1>0, <1>1 DEF TypeOK, Steps
<1>3. TypeOK'
  BY <1>0, <1>2, ScriptFacts DEF TypeOK
<1>4. \A d \in ConvIds : tried[d] \subseteq tried'[d]
  BY <1>0, ScriptFacts
<1>5. CallInv'
  <2> SUFFICES ASSUME NEW k \in Calls PROVE CallOK(k)'
    BY DEF CallInv
  <2>1. CallOK(k) /\ CallOK(j)
    BY <1>0 DEF CallInv
  <2>2. CASE k = j
    <3>1. Sender[req[j]] \in tried'[conv[j]]
      BY <1>0, ScriptFacts DEF c, a
    <3>2. ice[j] = "none" /\ conv[j] \in convs
      BY <1>0, <2>1 DEF CallOK
    <3> QED BY <1>0, <1>2, <2>1, <2>2, <3>1, <3>2 DEF CallOK
  <2>3. CASE k # j
    <3>1. ice[k] # "none" => Sender[req[k]] \in tried'[conv[k]]
      BY <1>0, <1>4, <2>1 DEF CallOK, TypeOK
    <3> QED BY <1>0, <1>2, <2>1, <2>3, <3>1 DEF CallOK
  <2> QED BY <2>2, <2>3
<1>6. GuardInv'
  BY <1>0, <1>2 DEF PMInv, GuardInv
<1>7. /\ \A r \in Requests : Pending(r)' \subseteq Pending(r)
      /\ \A d \in ConvIds : Unmarked(d) => Unmarked(d)'
      /\ \A d \in ConvIds : d # c \/ st = "limit" => Granted(d)' \subseteq Granted(d)
      /\ \A d \in ConvIds : Granted(d)' \subseteq Granted(d) \cup {j}
  BY <1>0, <1>2 DEF Pending, Unmarked, Granted, c
<1>8. CreditInv' /\ MarkInv'
  BY <1>0, <1>7, CreditFrame, ScriptMarks DEF PMInv
<1>9. CountInv'
  <2>1. PICK d \in ConvIds : d = c
    BY <1>0
  <2>2. IceBreakScript(d, a) /\ (st = "limit" <=> Status(d, a) = "limit")
    BY <1>0, <2>1 DEF st
  <2>3. /\ Status(d, a) = "limit" => Granted(d)' \subseteq Granted(d)
        /\ Granted(d)' \subseteq Granted(d) \cup {j} /\ (Unmarked(d) => Unmarked(d)')
    BY <1>7, <2>2
  <2> QED BY <1>0, <1>7, <2>1, <2>2, <2>3, ScriptCounts
<1> QED BY <1>3, <1>5, <1>6, <1>8, <1>9 DEF PMInv

\* The script moves on while every call stays under the rule it is under.
LEMMA CallsAfterScript ==
  ASSUME PMInv, NEW j \in Calls, NEW s \in {"complete", "release"}, Goto(j, s),
         pc[j] \in {"ice", "mark"}, IceBreakScript(conv[j], Sender[req[j]]),
         UNCHANGED <<guard, convs, locals, stale>>
  PROVE  /\ pc' \in [Calls -> Steps] /\ pc'[j] = s
         /\ \A k \in Calls : k # j => pc'[k] = pc[k]
         /\ conv[j] \in convs /\ conv[j] \in ConvIds
         /\ req[j] \in Requests /\ Sender[req[j]] \in Agents
         /\ pc[j] = "mark" => Sender[req[j]] = Visitor
         /\ CallInv' /\ GuardInv'
         /\ \A c \in ConvIds : Granted(c)' \subseteq Granted(c)
         /\ \A c \in ConvIds : Unmarked(c) => Unmarked(c)' \/ (pc[j] = "mark" /\ c = conv[j])
<1> USE DEF locals
<1>0. TypeOK /\ CallInv /\ pc' = [pc EXCEPT ![j] = s]
  BY DEF PMInv, Goto
<1>1. pc' \in [Calls -> Steps] /\ pc'[j] = s /\ (\A k \in Calls : k # j => pc'[k] = pc[k])
  BY <1>0 DEF TypeOK, Steps
<1>2. /\ conv[j] \in convs /\ conv[j] \in ConvIds /\ req[j] \in Requests
      /\ Sender[req[j]] \in Agents /\ (pc[j] = "mark" => Sender[req[j]] = Visitor)
  BY <1>0 DEF CallInv, CallOK, TypeOK
<1>3. \A d \in ConvIds : tried[d] \subseteq tried'[d]
  BY <1>2, ScriptFacts
<1>4. CallInv'
  <2> SUFFICES ASSUME NEW k \in Calls PROVE CallOK(k)'
    BY DEF CallInv
  <2>1. CallOK(k)
    BY <1>0 DEF CallInv
  <2>2. ice[k] # "none" => Sender[req[k]] \in tried'[conv[k]]
    BY <1>0, <1>3, <2>1 DEF CallOK, TypeOK
  <2>3. CASE k = j
    BY <1>1, <2>1, <2>2, <2>3 DEF CallOK
  <2>4. CASE k # j
    BY <1>1, <2>1, <2>2, <2>4 DEF CallOK
  <2> QED BY <2>3, <2>4
<1>5. GuardInv'
  BY <1>1 DEF PMInv, GuardInv
<1>6. /\ \A c \in ConvIds : Granted(c)' \subseteq Granted(c)
      /\ \A c \in ConvIds : Unmarked(c) => Unmarked(c)' \/ (pc[j] = "mark" /\ c = conv[j])
  BY <1>1 DEF Granted, Unmarked
<1> QED BY <1>1, <1>2, <1>4, <1>5, <1>6

LEMMA IceBreakFailsStep ==
  ASSUME PMInv, NEW j \in Calls, IceBreakFails(j)
  PROVE  PMInv'
<1> USE DEF guardVars, iceVars, database, locals
<1>0. /\ TypeOK /\ pc[j] = "ice" /\ Fault /\ Goto(j, "release")
      /\ UNCHANGED <<guardVars, database, resets, locals, stale>>
  BY DEF PMInv, IceBreakFails
<1>1. CASE UNCHANGED <<lock, broken, tried>>
  BY <1>0, <1>1, MoveOn, FaultType DEF Steps
<1>2. CASE IceBreakScript(conv[j], Sender[req[j]])
  <2>1. TypeOK'
    BY <1>0, <1>2, CallsAfterScript, ScriptFacts, FaultType DEF TypeOK
  <2>2. \A r \in Requests : Pending(r)' \subseteq Pending(r)
    BY <1>0, <1>2, CallsAfterScript DEF Pending
  <2>3. CreditInv' /\ MarkInv'
    BY <1>0, <1>2, <2>2, CallsAfterScript, CreditFrame, ScriptMarks DEF PMInv
  <2>4. CountInv'
    BY <1>0, <1>2, CallsAfterScript, ScriptCounts
  <2> QED BY <1>0, <1>2, <2>1, <2>3, <2>4, CallsAfterScript DEF PMInv
<1> QED BY <1>1, <1>2 DEF IceBreakFails

LEMMA MarkOpeningStep ==
  ASSUME PMInv, NEW j \in Calls, MarkOpening(j)
  PROVE  PMInv'
<1> USE DEF guardVars, iceVars, database, locals, bounds
<1>0. /\ TypeOK /\ pc[j] = "mark" /\ Goto(j, "complete")
      /\ IceBreakScript(conv[j], Sender[req[j]])
      /\ IF Status(conv[j], Sender[req[j]]) = "limit" THEN LosesCount(conv[j]) ELSE UNCHANGED resets
      /\ UNCHANGED <<guardVars, database, locals, stale, bounds>>
  BY DEF PMInv, MarkOpening
<1>1. resets' \in [ConvIds -> Nat]
  BY <1>0, CallsAfterScript, ResetsType DEF TypeOK
<1>2. TypeOK'
  BY <1>0, <1>1, CallsAfterScript, ScriptFacts DEF TypeOK
<1>3. \A r \in Requests : Pending(r)' \subseteq Pending(r)
  BY <1>0, CallsAfterScript DEF Pending
<1>4. CreditInv' /\ MarkInv'
  BY <1>0, <1>3, CallsAfterScript, CreditFrame, ScriptMarks DEF PMInv
<1>5. CountInv'
  BY <1>0, CallsAfterScript, ScriptCounts
<1> QED BY <1>0, <1>2, <1>4, <1>5, CallsAfterScript DEF PMInv

-----------------------------------------------------------------------------
(* The transactions *)

\* A stored message uses up the call that stored it, or is paid for by a lapse.
LEMMA StoredOnCredit ==
  ASSUME CreditInv, TypeOK, NEW r \in Requests, NEW j \in Calls,
         sent' = [sent EXCEPT ![r] = @ + 1], UNCHANGED guard,
         \/ UNCHANGED lapses /\ j \in Pending(r) /\ Pending(r)' \subseteq Pending(r) \ {j}
         \/ lapses' = [lapses EXCEPT ![r] = @ + 1] /\ Pending(r)' \subseteq Pending(r),
         \A q \in Requests \ {r} : Pending(q)' \subseteq Pending(q)
  PROVE  CreditInv'
<1> SUFFICES ASSUME NEW q \in Requests
    PROVE sent'[q] + Cardinality(Pending(q)') <= lapses'[q] + (IF guard'[q] = "free" THEN 0 ELSE 1)
  BY DEF CreditInv
<1>1. sent[q] \in Nat /\ lapses[q] \in Nat
  BY DEF TypeOK
<1>2. sent[q] + Cardinality(Pending(q)) <= lapses[q] + (IF guard[q] = "free" THEN 0 ELSE 1)
  BY DEF CreditInv
<1>3. CASE q # r
  <2>1. sent'[q] = sent[q] /\ lapses'[q] = lapses[q]
    BY <1>3 DEF TypeOK
  <2>2. Cardinality(Pending(q)') <= Cardinality(Pending(q))
    BY <1>3, CountTypes, SmallerCount
  <2> QED BY <1>1, <1>2, <2>1, <2>2, CountTypes, CountTypesPrimed
<1>4. CASE q = r
  <2>1. sent'[q] = sent[q] + 1
    BY <1>4 DEF TypeOK
  <2>2. CASE UNCHANGED lapses /\ j \in Pending(r) /\ Pending(r)' \subseteq Pending(r) \ {j}
    <3>1. Cardinality(Pending(q)') + 1 <= Cardinality(Pending(q))
      BY <1>4, <2>2, CountTypes, OneLess
    <3> QED BY <1>1, <1>2, <2>1, <2>2, <3>1, CountTypes, CountTypesPrimed
  <2>3. CASE lapses' = [lapses EXCEPT ![r] = @ + 1] /\ Pending(r)' \subseteq Pending(r)
    <3>1. lapses'[q] = lapses[q] + 1
      BY <1>4, <2>3 DEF TypeOK
    <3>2. Cardinality(Pending(q)') <= Cardinality(Pending(q))
      BY <1>4, <2>3, CountTypes, SmallerCount
    <3> QED BY <1>1, <1>2, <2>1, <3>1, <3>2, CountTypes, CountTypesPrimed
  <2> QED BY <2>2, <2>3
<1> QED BY <1>3, <1>4

LEMMA StoreRuledFacts ==
  ASSUME TypeOK, NEW c \in ConvIds, NEW r \in Requests, StoreRuled(c, r)
  PROVE  /\ sent' = [sent EXCEPT ![r] = @ + 1] /\ sent' \in [Requests -> Nat]
         /\ opening' \in [ConvIds -> Nat] /\ spoken' \in [ConvIds -> SUBSET Agents]
         /\ spoken'[c] = spoken[c] \cup {Sender[r]}
         /\ opening'[c] \in {opening[c], opening[c] + 1}
         /\ \A d \in ConvIds : d # c => opening'[d] = opening[d] /\ spoken'[d] = spoken[d]
  BY DEF TypeOK, StoreRuled

LEMMA StoreReplyFacts ==
  ASSUME PMInv, NEW j \in Calls, pc[j] = "tx", StoreReply(j),
         NEW s \in {"complete", "rollback"}, Goto(j, s), UNCHANGED <<iceVars, locals, stale>>
  PROVE  /\ req[j] \in Requests /\ sent' = [sent EXCEPT ![req[j]] = @ + 1]
         /\ sent' \in [Requests -> Nat] /\ opening' \in [ConvIds -> Nat]
         /\ spoken' \in [ConvIds -> SUBSET Agents] /\ UNCHANGED convs
         /\ MarkInv' /\ CountInv'
<1> USE DEF iceVars, locals
<1>0. /\ TypeOK /\ CallInv /\ CallOK(j) /\ req[j] \in Requests /\ UNCHANGED convs
  BY DEF PMInv, CallInv, CallOK, TypeOK, StoreReply
<1>1. /\ \A c \in ConvIds : Granted(c)' \subseteq Granted(c) \ {j}
      /\ \A c \in ConvIds : Unmarked(c) => Unmarked(c)'
  BY <1>0, ReportFacts
<1>2. CASE ice[j] = "none"
  <2>1. StoreFree(req[j])
    BY <1>2 DEF StoreReply
  <2>2. /\ sent' = [sent EXCEPT ![req[j]] = @ + 1] /\ UNCHANGED <<opening, spoken>>
        /\ sent' \in [Requests -> Nat]
    BY <1>0, <2>1 DEF StoreFree, TypeOK
  <2>3. MarkInv'
    <3> SUFFICES ASSUME NEW d \in ConvIds
        PROVE /\ lock'[d] # NoLock => lock'[d].by \in tried'[d]
              /\ d \in broken' => tried'[d] = Agents
              /\ resets'[d] = 0 /\ d \notin broken' =>
                   tried'[d] = IF lock'[d] = NoLock THEN {} ELSE {lock'[d].by}
              /\ spoken'[d] \subseteq
                   tried'[d] \cup (IF Unmarked(d)' \/ resets'[d] > 0 THEN {Visitor} ELSE {})
              /\ d \notin convs' => opening'[d] = 0 /\ spoken'[d] = {} /\ tried'[d] = {}
      BY DEF MarkInv
    <3> QED BY <1>0, <1>1, <2>2 DEF MarkInv, PMInv
  <2>4. CountInv'
    BY <1>0, <1>1, <2>2, CountFrame DEF PMInv
  <2> QED BY <1>0, <2>2, <2>3, <2>4 DEF TypeOK
<1>3. CASE ice[j] # "none"
  <2>1. PICK c \in ConvIds : c = conv[j]
    BY <1>0, <1>3 DEF CallOK, TypeOK
  <2>2. StoreRuled(c, req[j]) /\ c \in convs /\ Sender[req[j]] \in tried[c] /\ j \in Granted(c)
    BY <1>0, <1>3, <2>1 DEF StoreReply, CallOK, Granted
  <2>3. MarkInv'
    <3> SUFFICES ASSUME NEW d \in ConvIds
        PROVE /\ lock'[d] # NoLock => lock'[d].by \in tried'[d]
              /\ d \in broken' => tried'[d] = Agents
              /\ resets'[d] = 0 /\ d \notin broken' =>
                   tried'[d] = IF lock'[d] = NoLock THEN {} ELSE {lock'[d].by}
              /\ spoken'[d] \subseteq
                   tried'[d] \cup (IF Unmarked(d)' \/ resets'[d] > 0 THEN {Visitor} ELSE {})
              /\ d \notin convs' => opening'[d] = 0 /\ spoken'[d] = {} /\ tried'[d] = {}
      BY DEF MarkInv
    <3>1. /\ lock[d] # NoLock => lock[d].by \in tried[d]
          /\ d \in broken => tried[d] = Agents
          /\ resets[d] = 0 /\ d \notin broken =>
               tried[d] = IF lock[d] = NoLock THEN {} ELSE {lock[d].by}
          /\ spoken[d] \subseteq
               tried[d] \cup (IF Unmarked(d) \/ resets[d] > 0 THEN {Visitor} ELSE {})
          /\ d \notin convs => opening[d] = 0 /\ spoken[d] = {} /\ tried[d] = {}
      BY DEF MarkInv, PMInv
    <3>2. CASE d = c
      BY <1>0, <1>1, <2>2, <3>1, <3>2, StoreRuledFacts
    <3>3. CASE d # c
      BY <1>0, <1>1, <2>2, <3>1, <3>3, StoreRuledFacts
    <3> QED BY <3>2, <3>3
  <2>4. CountInv'
    <3> SUFFICES ASSUME NEW d \in ConvIds, NEW b \in Agents,
                        tried[d] \subseteq {b}, spoken'[d] \subseteq {b}
        PROVE opening'[d] + Cardinality(Granted(d)')
                <= lock[d].n + MaxInitiatorMsgs * resets[d] + (IF Unmarked(d)' THEN 1 ELSE 0)
      BY DEF CountInv
    <3>1. opening[d] \in Nat /\ resets[d] \in Nat /\ lock[d].n \in Nat
      BY <1>0 DEF TypeOK, Lock, NoLock
    <3>2. MaxInitiatorMsgs * resets[d] \in Nat
      BY <3>1, NatTimes
    <3>3. spoken[d] \subseteq {b}
      BY <1>0, <2>2, StoreRuledFacts
    <3>4. opening[d] + Cardinality(Granted(d))
            <= lock[d].n + MaxInitiatorMsgs * resets[d] + (IF Unmarked(d) THEN 1 ELSE 0)
      BY <3>3 DEF CountInv, PMInv
    <3>5. CASE d = c
      <4>1. Cardinality(Granted(d)') + 1 <= Cardinality(Granted(d))
        BY <1>1, <2>2, <3>5, CountTypes, OneLess
      <4>2. opening'[d] \in {opening[d], opening[d] + 1}
        BY <1>0, <2>2, <3>5, StoreRuledFacts
      <4> QED BY <1>1, <3>1, <3>2, <3>4, <4>1, <4>2, CountTypes, CountTypesPrimed
    <3>6. CASE d # c
      <4>1. Cardinality(Granted(d)') <= Cardinality(Granted(d))
        BY <1>1, CountTypes, SmallerCount
      <4>2. opening'[d] = opening[d]
        BY <1>0, <2>2, <3>6, StoreRuledFacts
      <4> QED BY <1>1, <3>1, <3>2, <3>4, <4>1, <4>2, CountTypes, CountTypesPrimed
    <3> QED BY <3>5, <3>6
  <2> QED BY <1>0, <2>2, <2>3, <2>4, StoreRuledFacts
<1> QED BY <1>2, <1>3

LEMMA CommitReplyStep ==
  ASSUME PMInv, NEW j \in Calls, CommitReply(j)
  PROVE  PMInv'
<1> USE DEF guardVars, iceVars, locals, bounds
<1>0. /\ TypeOK /\ pc[j] = "tx" /\ StoreReply(j) /\ Goto(j, "complete")
      /\ UNCHANGED <<guardVars, iceVars, locals, stale, bounds>>
  BY DEF PMInv, CommitReply
<1>1. TypeOK'
  BY <1>0, StoreReplyFacts, ReportFacts DEF TypeOK
<1>2. CallInv' /\ GuardInv'
  BY <1>0, StoreReplyFacts, ReportFacts
<1>3. /\ \A r \in Requests : Pending(r)' \subseteq Pending(r) \ {j}
      /\ j \in Pending(req[j])
  BY <1>0, StoreReplyFacts, ReportFacts DEF Pending
<1>4. CreditInv'
  <2>1. PICK r \in Requests : r = req[j]
    BY <1>0, StoreReplyFacts
  <2>2. sent' = [sent EXCEPT ![r] = @ + 1] /\ j \in Pending(r)
    BY <1>0, <1>3, <2>1, StoreReplyFacts
  <2> QED BY <1>0, <1>3, <2>2, StoredOnCredit DEF PMInv
<1>5. MarkInv' /\ CountInv'
  BY <1>0, StoreReplyFacts
<1> QED BY <1>1, <1>2, <1>4, <1>5 DEF PMInv

\* The opening message is not marked yet, or will never be.
LEMMA CreateFacts ==
  ASSUME PMInv, NEW j \in Calls, pc[j] = "create", NEW c \in ConvIds,
         CreateConversation(j, c), UNCHANGED <<lock, broken, tried>>,
         \A d \in ConvIds : Granted(d)' \subseteq Granted(d),
         \A d \in ConvIds : Unmarked(d) => Unmarked(d)',
         (UNCHANGED resets /\ Unmarked(c)') \/ LosesCount(c)
  PROVE  MarkInv' /\ CountInv'
<1>0. /\ TypeOK /\ CallInv /\ req[j] \in Requests /\ Sender[req[j]] = Visitor
      /\ c \notin convs /\ convs' = convs \cup {c} /\ StoreRuled(c, req[j])
  BY DEF PMInv, CallInv, CallOK, TypeOK, CreateConversation
<1>1. /\ spoken'[c] = {Visitor} /\ opening'[c] \in {0, 1} /\ tried[c] = {}
      /\ lock[c] = NoLock /\ c \notin broken /\ opening[c] = 0 /\ spoken[c] = {}
  <2>1. opening[c] = 0 /\ spoken[c] = {} /\ tried[c] = {}
    BY <1>0 DEF PMInv, MarkInv
  <2>2. lock[c] = NoLock /\ c \notin broken
    <3>1. /\ lock[c] # NoLock => lock[c].by \in tried[c]
          /\ c \in broken => tried[c] = Agents
      BY DEF PMInv, MarkInv
    <3> QED BY <2>1, <3>1 DEF Agents
  <2>3. spoken'[c] = {Visitor}
    BY <1>0, <2>1, StoreRuledFacts
  <2>4. opening'[c] \in {0, 1}
    BY <1>0, <2>1, StoreRuledFacts
  <2> QED BY <2>1, <2>2, <2>3, <2>4
<1>2. \A d \in ConvIds : d # c => opening'[d] = opening[d] /\ spoken'[d] = spoken[d]
  BY <1>0, StoreRuledFacts
<1>3. /\ \A d \in ConvIds : resets[d] \in Nat /\ (d # c => resets'[d] = resets[d])
      /\ resets'[c] = resets[c] \/ resets'[c] = resets[c] + 1
      /\ resets'[c] = resets[c] => Unmarked(c)'
  <2>1. \A d \in ConvIds : resets[d] \in Nat
    BY <1>0 DEF TypeOK
  <2>2. CASE UNCHANGED resets /\ Unmarked(c)'
    BY <2>1, <2>2
  <2>3. CASE LosesCount(c)
    BY <1>0, <2>1, <2>3 DEF TypeOK, LosesCount
  <2> QED BY <2>2, <2>3
<1>4. MarkInv'
  <2> SUFFICES ASSUME NEW d \in ConvIds
      PROVE /\ lock'[d] # NoLock => lock'[d].by \in tried'[d]
            /\ d \in broken' => tried'[d] = Agents
            /\ resets'[d] = 0 /\ d \notin broken' =>
                 tried'[d] = IF lock'[d] = NoLock THEN {} ELSE {lock'[d].by}
            /\ spoken'[d] \subseteq
                 tried'[d] \cup (IF Unmarked(d)' \/ resets'[d] > 0 THEN {Visitor} ELSE {})
            /\ d \notin convs' => opening'[d] = 0 /\ spoken'[d] = {} /\ tried'[d] = {}
    BY DEF MarkInv
  <2>1. CASE d = c
    <3>1. Unmarked(d)' \/ resets'[d] > 0
      BY <1>3, <2>1
    <3> QED BY <1>0, <1>1, <2>1, <3>1
  <2>2. CASE d # c
    BY <1>0, <1>2, <1>3, <2>2 DEF PMInv, MarkInv
  <2> QED BY <2>1, <2>2
<1>5. CountInv'
  <2> SUFFICES ASSUME NEW d \in ConvIds, NEW b \in Agents,
                      tried[d] \subseteq {b}, spoken'[d] \subseteq {b}
      PROVE opening'[d] + Cardinality(Granted(d)')
              <= lock[d].n + MaxInitiatorMsgs * resets'[d] + (IF Unmarked(d)' THEN 1 ELSE 0)
    BY DEF CountInv
  <2>1. opening[d] \in Nat /\ resets[d] \in Nat /\ lock[d].n \in Nat
    BY <1>0 DEF TypeOK, Lock, NoLock
  <2>2. /\ MaxInitiatorMsgs * resets[d] \in Nat
        /\ MaxInitiatorMsgs * (resets[d] + 1) = MaxInitiatorMsgs * resets[d] + MaxInitiatorMsgs
    BY <2>1, NatTimes
  <2>3. spoken[d] \subseteq {b}
    BY <1>1, <1>2
  <2>4. opening[d] + Cardinality(Granted(d))
          <= lock[d].n + MaxInitiatorMsgs * resets[d] + (IF Unmarked(d) THEN 1 ELSE 0)
    BY <2>3 DEF CountInv, PMInv
  <2>5. Cardinality(Granted(d)') <= Cardinality(Granted(d))
    BY CountTypes, SmallerCount
  <2>6. CASE d = c
    <3>1. ~Unmarked(d)
      BY <1>0, <2>6 DEF Unmarked, CallInv, CallOK
    <3>2. opening'[d] \in {opening[d], opening[d] + 1}
      BY <1>1, <2>6
    <3>3. CASE resets'[d] = resets[d] + 1
      BY <2>1, <2>2, <2>4, <2>5, <3>1, <3>2, <3>3, CountTypes, CountTypesPrimed
    <3>4. CASE resets'[d] = resets[d]
      <4>1. Unmarked(d)'
        BY <1>3, <2>6, <3>4
      <4> QED BY <2>1, <2>2, <2>4, <2>5, <3>1, <3>2, <3>4, <4>1, CountTypes, CountTypesPrimed
    <3> QED BY <1>3, <2>6, <3>3, <3>4
  <2>7. CASE d # c
    <3>1. opening'[d] = opening[d] /\ resets'[d] = resets[d]
      BY <1>2, <1>3, <2>7
    <3> QED BY <2>1, <2>2, <2>4, <2>5, <3>1, CountTypes, CountTypesPrimed
  <2> QED BY <2>6, <2>7
<1> QED BY <1>4, <1>5

LEMMA CommitConversationStep ==
  ASSUME PMInv, NEW j \in Calls, NEW c \in ConvIds, CommitConversation(j, c)
  PROVE  PMInv'
<1> USE DEF guardVars, iceVars, bounds
<1>0. /\ TypeOK /\ CallInv /\ CallOK(j) /\ pc[j] = "create" /\ req[j] \in Requests
      /\ CreateConversation(j, c) /\ c \notin convs /\ convs' = convs \cup {c}
      /\ StoreRuled(c, req[j]) /\ conv' = [conv EXCEPT ![j] = c] /\ pc' = [pc EXCEPT ![j] = "mark"]
      /\ UNCHANGED <<guardVars, iceVars, req, ice, stale, bounds>>
  BY DEF PMInv, CommitConversation, CreateConversation, Goto, CallInv, CallOK, TypeOK
<1>1. TypeOK'
  <2>1. /\ pc' \in [Calls -> Steps] /\ conv' \in [Calls -> ConvIds \cup {"none"}]
        /\ convs' \subseteq ConvIds
    BY <1>0 DEF TypeOK, Steps
  <2> QED BY <1>0, <2>1, StoreRuledFacts DEF TypeOK
<1>2. /\ pc'[j] = "mark" /\ conv'[j] = c
      /\ \A k \in Calls : k # j => pc'[k] = pc[k] /\ conv'[k] = conv[k]
  BY <1>0 DEF TypeOK
<1>3. CallInv'
  <2> SUFFICES ASSUME NEW k \in Calls PROVE CallOK(k)'
    BY DEF CallInv
  <2>1. CallOK(k) /\ \A l \in Calls : pc[l] = "mark" => conv[l] \in convs
    BY <1>0 DEF CallInv, CallOK
  <2>2. CASE k = j
    BY <1>0, <1>2, <2>1, <2>2 DEF CallOK
  <2>3. CASE k # j
    BY <1>0, <1>2, <2>1, <2>3 DEF CallOK
  <2> QED BY <2>2, <2>3
<1>4. GuardInv'
  BY <1>0, <1>2 DEF PMInv, GuardInv
<1>5. /\ \A d \in ConvIds : Granted(d)' \subseteq Granted(d)
      /\ \A d \in ConvIds : Unmarked(d) => Unmarked(d)'
      /\ Unmarked(c)'
  BY <1>0, <1>2 DEF Granted, Unmarked
<1>6. MarkInv' /\ CountInv'
  BY <1>0, <1>5, CreateFacts
<1>7. CreditInv'
  <2>1. PICK r \in Requests : r = req[j]
    BY <1>0
  <2>2. /\ sent' = [sent EXCEPT ![r] = @ + 1] /\ j \in Pending(r)
        /\ \A q \in Requests : Pending(q)' \subseteq Pending(q) \ {j}
    BY <1>0, <1>2, <2>1, StoreRuledFacts DEF Pending
  <2> QED BY <1>0, <2>2, StoredOnCredit DEF PMInv
<1> QED BY <1>1, <1>3, <1>4, <1>6, <1>7 DEF PMInv

LEMMA CommitAnswerLostStep ==
  ASSUME PMInv, NEW j \in Calls, CommitAnswerLost(j)
  PROVE  PMInv'
<1> USE DEF locals, iceVars
<1>0. /\ TypeOK /\ CallInv /\ Fault /\ pc[j] \in {"tx", "create"} /\ req[j] \in Requests
      /\ lapses' = [lapses EXCEPT ![req[j]] = @ + 1]
      /\ UNCHANGED <<guard, lock, broken, tried, locals, stale>>
  BY DEF PMInv, CommitAnswerLost, CallInv, CallOK, TypeOK
<1>a. lapses' \in [Requests -> Nat]
  BY <1>0 DEF TypeOK
<1>1. CASE /\ pc[j] = "tx" /\ StoreReply(j) /\ Goto(j, "rollback") /\ UNCHANGED resets
  <2>1. TypeOK'
    BY <1>0, <1>1, <1>a, StoreReplyFacts, ReportFacts, FaultType DEF TypeOK
  <2>2. CallInv' /\ GuardInv'
    BY <1>0, <1>1, StoreReplyFacts, ReportFacts
  <2>3. \A q \in Requests : Pending(q)' \subseteq Pending(q)
    BY <1>0, <1>1, StoreReplyFacts, ReportFacts DEF Pending
  <2>4. CreditInv'
    <3>1. PICK r \in Requests : r = req[j]
      BY <1>0
    <3>2. sent' = [sent EXCEPT ![r] = @ + 1] /\ lapses' = [lapses EXCEPT ![r] = @ + 1]
      BY <1>0, <1>1, <3>1, StoreReplyFacts
    <3> QED BY <1>0, <2>3, <3>2, StoredOnCredit DEF PMInv
  <2>5. MarkInv' /\ CountInv'
    BY <1>0, <1>1, StoreReplyFacts
  <2> QED BY <2>1, <2>2, <2>4, <2>5 DEF PMInv
<1>2. CASE /\ pc[j] = "create" /\ Goto(j, "release")
           /\ \E c \in ConvIds : CreateConversation(j, c) /\ LosesCount(c)
  <2>1. PICK c \in ConvIds : CreateConversation(j, c) /\ LosesCount(c)
    BY <1>2
  <2>2. c \notin convs /\ convs' = convs \cup {c} /\ StoreRuled(c, req[j])
    BY <2>1 DEF CreateConversation
  <2>3. /\ pc' \in [Calls -> Steps] /\ pc'[j] = "release"
        /\ \A k \in Calls : k # j => pc'[k] = pc[k]
    BY <1>0, <1>2 DEF Goto, TypeOK, Steps
  <2>4. TypeOK'
    BY <1>0, <1>a, <2>1, <2>2, <2>3, StoreRuledFacts, ResetsType, FaultType DEF TypeOK
  <2>5. CallInv'
    <3> SUFFICES ASSUME NEW k \in Calls PROVE CallOK(k)'
      BY DEF CallInv
    <3>1. CallOK(k)
      BY <1>0 DEF CallInv
    <3>2. CASE k = j
      BY <1>0, <1>2, <2>2, <2>3, <3>1, <3>2 DEF CallOK
    <3>3. CASE k # j
      BY <1>0, <2>2, <2>3, <3>1, <3>3 DEF CallOK
    <3> QED BY <3>2, <3>3
  <2>6. GuardInv'
    BY <1>0, <1>2, <2>3 DEF PMInv, GuardInv
  <2>7. /\ \A d \in ConvIds : Granted(d)' \subseteq Granted(d)
        /\ \A d \in ConvIds : Unmarked(d) => Unmarked(d)'
        /\ \A q \in Requests : Pending(q)' \subseteq Pending(q)
    BY <1>0, <1>2, <2>3 DEF Granted, Unmarked, Pending
  <2>8. MarkInv' /\ CountInv'
    BY <1>0, <1>2, <2>1, <2>7, CreateFacts
  <2>9. CreditInv'
    <3>1. PICK r \in Requests : r = req[j]
      BY <1>0
    <3>2. sent' = [sent EXCEPT ![r] = @ + 1] /\ lapses' = [lapses EXCEPT ![r] = @ + 1]
      BY <1>0, <2>2, <3>1, StoreRuledFacts
    <3> QED BY <1>0, <2>7, <3>2, StoredOnCredit DEF PMInv
  <2> QED BY <2>4, <2>5, <2>6, <2>8, <2>9 DEF PMInv
<1> QED BY <1>1, <1>2 DEF CommitAnswerLost

-----------------------------------------------------------------------------
(* The invariant and what follows from it *)

LEMMA PMStep == PMInv /\ [Next]_vars => PMInv'
<1> SUFFICES ASSUME PMInv, [Next]_vars PROVE PMInv'
  OBVIOUS
<1>1. CASE UNCHANGED vars
  BY <1>1 DEF vars, guardVars, database, iceVars, locals, bounds, PMInv, TypeOK, CallInv,
     CallOK, GuardInv, CreditInv, Pending, MarkInv, Unmarked, CountInv, Granted
<1>2. ASSUME NEW j \in Calls, SendStep(j) PROVE PMInv'
  BY <1>2, AcquireStep, MovingSteps, FindConversationStep, CheckAndSetStep, CommitReplyStep,
     CommitConversationStep, MarkOpeningStep, RollbackStep, CompleteStep, ReleaseStep
     DEF SendStep
<1>3. ASSUME NEW j \in Calls, FailureStep(j) PROVE PMInv'
  BY <1>3, IceBreakFailsStep, MarkFailsStep, MovingSteps, CommitAnswerLostStep, CrashStep
     DEF FailureStep
<1>4. ASSUME NEW r \in Requests, GuardExpires(r) PROVE PMInv'
  BY <1>4, GuardExpiresStep
<1>5. ASSUME NEW c \in ConvIds, IceBreakExpires(c) PROVE PMInv'
  BY <1>5, IceBreakExpiresStep
<1> QED BY <1>1, <1>2, <1>3, <1>4, <1>5 DEF Next

\* SendPM keeps guard, calls, database and ice break in agreement, whatever the
\* number of requests, conversations, overlapping calls, failures and expiries.
THEOREM PMInvariant == Spec => []PMInv
  BY PMInit, PMStep, PTL DEF Spec

\* Two calls under way for one request: the token of one of them has expired.
THEOREM GuardAdmitsOne == Spec => []OneSender
<1>1. PMInv => OneSender
  <2> SUFFICES ASSUME PMInv, NEW j \in Calls, NEW k \in Calls, j # k, pc[j] # "idle",
                      req[j] = req[k], j \notin stale, k \notin stale
      PROVE FALSE
    BY DEF OneSender
  <2>1. pc[k] # "idle"
    BY DEF PMInv, CallInv, CallOK
  <2> QED BY <2>1 DEF PMInv, GuardInv
<1> QED BY <1>1, PMInvariant, PTL

\* A request is stored once, plus once for every lapse of its guard.
THEOREM RequestSentOnce == Spec => []SentOnce
<1>1. PMInv => SentOnce
  <2> SUFFICES ASSUME PMInv, NEW r \in Requests PROVE sent[r] <= 1 + lapses[r]
    BY DEF SentOnce
  <2>1. sent[r] + Cardinality(Pending(r)) <= lapses[r] + (IF guard[r] = "free" THEN 0 ELSE 1)
    BY DEF PMInv, CreditInv
  <2>2. sent[r] \in Nat /\ lapses[r] \in Nat
    BY DEF PMInv, TypeOK
  <2> QED BY <2>1, <2>2, CountTypes
<1> QED BY <1>1, PMInvariant, PTL

\* Unanswered messages of an initiator are bounded by the ice-break window, up to
\* an unmarked opening message and lost counts.
THEOREM WindowIsBounded == Spec => []WindowBound
<1>1. PMInv => WindowBound
  <2> SUFFICES ASSUME PMInv, NEW c \in ConvIds, NEW a \in Agents,
                      tried[c] \subseteq {a}, spoken[c] \subseteq {a}
      PROVE opening[c] <= MaxInitiatorMsgs * (1 + resets[c]) + (IF Unmarked(c) THEN 1 ELSE 0)
    BY DEF WindowBound
  <2>1. opening[c] + Cardinality(Granted(c))
          <= lock[c].n + MaxInitiatorMsgs * resets[c] + (IF Unmarked(c) THEN 1 ELSE 0)
    BY DEF PMInv, CountInv
  <2>2. /\ opening[c] \in Nat /\ resets[c] \in Nat
        /\ lock[c].n \in Nat /\ lock[c].n <= MaxInitiatorMsgs
    BY DEF PMInv, TypeOK, Lock, NoLock
  <2>3. /\ MaxInitiatorMsgs * resets[c] \in Nat
        /\ MaxInitiatorMsgs * (1 + resets[c]) = MaxInitiatorMsgs * resets[c] + MaxInitiatorMsgs
    BY <2>2, NatTimes
  <2> QED BY <2>1, <2>2, <2>3, CountTypes
<1> QED BY <1>1, PMInvariant, PTL

\* Both have spoken and no mark is missing or lost: the ice is broken.
THEOREM SpokenBreaksIce == Spec => []BrokenOnceBothSpoke
<1>1. PMInv => BrokenOnceBothSpoke
  <2> SUFFICES ASSUME PMInv, NEW c \in ConvIds, spoken[c] = Agents, resets[c] = 0,
                      ~Unmarked(c), c \notin broken
      PROVE FALSE
    BY DEF BrokenOnceBothSpoke
  <2>1. Agents \subseteq tried[c]
    <3>1. spoken[c] \subseteq
            tried[c] \cup (IF Unmarked(c) \/ resets[c] > 0 THEN {Visitor} ELSE {})
      BY DEF PMInv, MarkInv
    <3>2. ~(resets[c] > 0)
      OBVIOUS
    <3> QED BY <3>1, <3>2
  <2>2. tried[c] = IF lock[c] = NoLock THEN {} ELSE {lock[c].by}
    BY DEF PMInv, MarkInv
  <2> QED BY <2>1, <2>2 DEF Agents
<1> QED BY <1>1, PMInvariant, PTL
=============================================================================
