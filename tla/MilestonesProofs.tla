-------------------------- MODULE MilestonesProofs --------------------------
(***************************************************************************)
(* Milestones for any counters, rules, messages, replicas and              *)
(* acknowledgements: the inductive invariant, that every threshold reached *)
(* is triggered unless a failure made its check slip, that a notified      *)
(* event comes back a bounded number of times, and that nothing is marked  *)
(* notified without having been shown.                                     *)
(***************************************************************************)
EXTENDS Milestones, FiniteSetTheorems, TLAPS

\* A threshold of a counter's rules makes an event.
LEMMA EventOf ==
  ASSUME NEW c \in Counters, NEW r \in RulesOf[c]
  PROVE  <<c, r>> \in Events /\ r \in Thresholds /\ r \in Nat
  BY RulesAssumption DEF Events, Thresholds

\* The rule a check comes to next is one of its counter's, and the only such.
LEMMA NextRuleOf ==
  ASSUME RecordedInv, NEW m \in Msgs, NEW r \in Thresholds, NextRule(m, r)
  PROVE  /\ CounterOf[m] \in Counters /\ r \in RulesOf[CounterOf[m]]
         /\ <<CounterOf[m], r>> \in Events
<1>1. CounterOf[m] \in Counters /\ r \in RulesOf[CounterOf[m]]
  BY MsgsAssumption DEF RecordedInv, NextRule
<1> QED BY <1>1, EventOf

LEMMA NextRuleIsUnique ==
  ASSUME RecordedInv, NEW m \in Msgs, NEW r \in Thresholds, NEW q \in Thresholds,
         NextRule(m, r), NextRule(m, q)
  PROVE  r = q
<1>1. r \in Nat /\ q \in Nat
  BY NextRuleOf, EventOf
<1> QED BY <1>1 DEF NextRule

-----------------------------------------------------------------------------
(* Types *)

LEMMA HandlerType ==
  ASSUME MilestoneInv, NEW m \in Msgs, HandlerStep(m)
  PROVE  TypeOK'
<1> USE DEF MilestoneInv, passes, acks
<1>1. CounterOf[m] \in Counters
  BY MsgsAssumption
<1>2. ASSUME Counted(m) PROVE count' \in [Counters -> Nat] /\ logged' \subseteq Feedback
  BY <1>1, <1>2 DEF Counted, TypeOK
<1>3. CASE Persist(m) \/ CountAnswerLost(m)
  BY <1>1, <1>2, <1>3, BoundsAssumption DEF Persist, CountAnswerLost, TypeOK
<1>4. CASE Deduplicated(m) \/ EndCheck(m) \/ Drop(m)
  BY <1>4 DEF Deduplicated, EndCheck, Drop, TypeOK
<1>5. CASE BeginCheck(m)
  <2>1. {r \in RulesOf[CounterOf[m]] : r <= count[CounterOf[m]]} \subseteq Thresholds
    BY <1>1, EventOf
  <2> QED BY <1>5, <2>1 DEF BeginCheck, TypeOK
<1>6. CASE HandlerFails(m)
  BY <1>1, <1>6, BoundsAssumption DEF HandlerFails, TypeOK
<1>7. ASSUME NEW r \in Thresholds, InsertEvent(m, r) PROVE TypeOK'
  BY <1>7, NextRuleOf DEF InsertEvent, TypeOK
<1>8. ASSUME NEW r \in Thresholds, EventExists(m, r) PROVE TypeOK'
  BY <1>8 DEF EventExists, TypeOK
<1>9. ASSUME NEW r \in Thresholds, Put(m, r) PROVE TypeOK'
  BY <1>9, NextRuleOf DEF Put, PutNotification, TypeOK
<1> QED BY <1>3, <1>4, <1>5, <1>6, <1>7, <1>8, <1>9 DEF HandlerStep

LEMMA DeliveryType ==
  ASSUME TypeOK,
         \/ \E p \in Replicas : RecoveryStep(p)
         \/ \E a \in Acks : ShowStep(a) \/ AckStep(a)
         \/ HashLost
  PROVE  TypeOK'
<1> USE DEF counting
<1>1. ASSUME NEW p \in Replicas, ListPage(p) PROVE TypeOK'
  <2>1. Page(p) \subseteq Events
    BY DEF Page
  <2>2. after' \in [Replicas -> 0..MaxStamp]
    BY <1>1, <2>1, BoundsAssumption DEF ListPage, TypeOK
  <2> QED BY <1>1, <2>1, <2>2 DEF ListPage, acks, TypeOK
<1>2. ASSUME NEW p \in Replicas, PassFails(p) \/ (\E e \in Events : PutRow(p, e))
      PROVE  TypeOK'
  BY <1>2, BoundsAssumption DEF PassFails, PutRow, PutNotification, acks, TypeOK
<1>3. ASSUME NEW a \in Acks, ShowStep(a) PROVE TypeOK'
  BY <1>3 DEF ShowStep, Refresh, ListPendingV2, AckV2, passes, TypeOK
<1>4. ASSUME NEW a \in Acks, AckDelete(a) \/ AckDeleteFails(a) \/ AckLost(a) PROVE TypeOK'
  BY <1>4 DEF AckDelete, AckDeleteFails, AckLost, passes, TypeOK
<1>5. ASSUME NEW a \in Acks, AckMark(a) PROVE TypeOK'
  BY <1>5 DEF AckMark, passes, TypeOK
<1>6. CASE HashLost
  BY <1>6 DEF HashLost, passes, acks, TypeOK
<1> QED BY <1>1, <1>2, <1>3, <1>4, <1>5, <1>6 DEF RecoveryStep, AckStep

-----------------------------------------------------------------------------
(* Counting and checking *)

\* What the handler of m leaves of another counter's cover.
LEMMA OtherCounters ==
  ASSUME MilestoneInv, NEW m \in Msgs, NEW c \in Counters, c # CounterOf[m],
         NEW r \in RulesOf[c], r <= count'[c],
         count'[c] = count[c], c \in slipped => c \in slipped',
         \A n \in Msgs \ {m} : pc'[n] = pc[n] /\ todo'[n] = todo[n],
         event[<<c, r>>] # "absent" => event'[<<c, r>>] # "absent"
  PROVE  Covered(c, r)'
<1>1. r \in Thresholds
  BY EventOf
<1> QED BY <1>1 DEF MilestoneInv, TriggerInv, Covered, InFlight

\* A counter just counted has a check to come, or has slipped.
LEMMA CountedTrigger ==
  ASSUME MilestoneInv, NEW m \in Msgs, Persist(m) \/ CountAnswerLost(m)
  PROVE  TriggerInv'
<1> SUFFICES ASSUME NEW c \in Counters, NEW r \in RulesOf[c], r <= count'[c]
             PROVE  Covered(c, r)'
  BY DEF TriggerInv
<1>1. CASE c = CounterOf[m]
  BY <1>1 DEF Persist, CountAnswerLost, Covered, MilestoneInv, TypeOK
<1>2. CASE c # CounterOf[m]
  BY <1>2, OtherCounters
  DEF Persist, CountAnswerLost, Counted, MilestoneInv, TypeOK
<1> QED BY <1>1, <1>2

\* The check has every threshold reached before it.
LEMMA BeginCheckTrigger ==
  ASSUME MilestoneInv, NEW m \in Msgs, BeginCheck(m)
  PROVE  TriggerInv'
<1> SUFFICES ASSUME NEW c \in Counters, NEW r \in RulesOf[c], r <= count'[c]
             PROVE  Covered(c, r)'
  BY DEF TriggerInv
<1>1. CASE c = CounterOf[m]
  BY <1>1 DEF BeginCheck, Covered, InFlight, MilestoneInv, TypeOK
<1>2. CASE c # CounterOf[m]
  BY <1>2, OtherCounters DEF BeginCheck, MilestoneInv, TypeOK
<1> QED BY <1>1, <1>2

\* A check leaves a threshold behind only once its event is there.
LEMMA RuleTrigger ==
  ASSUME MilestoneInv, NEW m \in Msgs, NEW r \in Thresholds,
         InsertEvent(m, r) \/ EventExists(m, r) \/ Put(m, r)
  PROVE  TriggerInv'
<1> SUFFICES ASSUME NEW c \in Counters, NEW q \in RulesOf[c], q <= count'[c]
             PROVE  Covered(c, q)'
  BY DEF TriggerInv
<1>1. /\ <<CounterOf[m], r>> \in Events
      /\ <<c, q>> \in Events /\ q \in Thresholds
  BY NextRuleOf, EventOf DEF MilestoneInv, InsertEvent, EventExists, Put
<1>2. \A e \in Events : event[e] # "absent" => event'[e] # "absent"
  BY <1>1 DEF InsertEvent, EventExists, Put, MilestoneInv, TypeOK
<1>3. event'[<<CounterOf[m], r>>] # "absent"
  BY <1>1 DEF InsertEvent, EventExists, Put, MilestoneInv, TypeOK, RecordedInv
<1>4. count' = count /\ slipped' = slipped
  BY DEF InsertEvent, EventExists, Put
<1>5. \A n \in Msgs \ {m} : pc'[n] = pc[n] /\ todo'[n] = todo[n]
  BY DEF InsertEvent, EventExists, Put, MilestoneInv, TypeOK
<1>6. /\ InFlight(m)' /\ pc[m] # "check"
      /\ todo[m] \subseteq todo'[m] \cup {r}
  BY DEF InsertEvent, EventExists, Put, MilestoneInv, TypeOK, InFlight
<1>7. CASE c = CounterOf[m]
  <2>1. Covered(c, q)
    BY <1>1, <1>4 DEF MilestoneInv, TriggerInv
  <2>2. CASE q = r
    BY <1>3, <1>7, <2>2 DEF Covered
  <2>3. CASE q # r
    BY <1>1, <1>2, <1>4, <1>5, <1>6, <2>1, <2>3 DEF Covered, InFlight
  <2> QED BY <2>2, <2>3
<1>8. CASE c # CounterOf[m]
  BY <1>1, <1>2, <1>4, <1>5, <1>8, OtherCounters
<1> QED BY <1>7, <1>8

\* A handler that ends has nothing left to go through, or makes its counter slip.
LEMMA EndTrigger ==
  ASSUME MilestoneInv, NEW m \in Msgs,
         Deduplicated(m) \/ EndCheck(m) \/ Drop(m) \/ HandlerFails(m)
  PROVE  TriggerInv'
<1> SUFFICES ASSUME NEW c \in Counters, NEW r \in RulesOf[c], r <= count'[c]
             PROVE  Covered(c, r)'
  BY DEF TriggerInv
<1>1. r \in Thresholds /\ count' = count /\ event' = event
  BY EventOf DEF Deduplicated, EndCheck, Drop, HandlerFails
<1>2. slipped \subseteq slipped'
  BY DEF Deduplicated, EndCheck, Drop, HandlerFails
<1>3. \A n \in Msgs \ {m} : pc'[n] = pc[n] /\ todo'[n] = todo[n]
  BY DEF Deduplicated, EndCheck, Drop, HandlerFails, MilestoneInv, TypeOK
<1>4. CASE c = CounterOf[m]
  <2>1. Covered(c, r)
    BY <1>1 DEF MilestoneInv, TriggerInv
  <2>2. \/ c \in slipped'
        \/ pc[m] # "check" /\ (InFlight(m) => todo[m] = {})
    BY <1>4 DEF Deduplicated, EndCheck, Drop, HandlerFails, InFlight
  <2> QED BY <1>1, <1>2, <1>3, <2>1, <2>2 DEF Covered, InFlight
<1>5. CASE c # CounterOf[m]
  BY <1>1, <1>2, <1>3, <1>5, OtherCounters
<1> QED BY <1>4, <1>5

-----------------------------------------------------------------------------
(* Returns of notified events *)

\* The size of what may still put an event: some replicas and one handler.
LEMMA ListersSize ==
  ASSUME NEW S \in SUBSET Replicas
  PROVE  /\ IsFiniteSet(S) /\ Cardinality(S) \in Nat /\ Cardinality(Replicas) \in Nat
         /\ Cardinality(S) <= Cardinality(Replicas)
  BY ReplicasAssumption, FS_Subset, FS_CardinalityType

LEMMA PuttersSize ==
  ASSUME NEW S, \A x, y \in S : x = y
  PROVE  IsFiniteSet(S) /\ Cardinality(S) \in 0..1
<1>1. CASE S = {}
  BY <1>1, FS_EmptySet
<1>2. CASE S # {}
  <2>1. PICK x \in S : S = {x}
    BY <1>2
  <2> QED BY <2>1, FS_Singleton
<1> QED BY <1>1, <1>2

\* Nobody came to list the event or to put it, and its status is what it was.
LEMMA ReturnsShrink ==
  ASSUME MilestoneInv, NEW e \in Events, event'[e] = event[e], returns'[e] = returns[e],
         Listers(e)' \subseteq Listers(e), Putters(e)' \subseteq Putters(e)
  PROVE  ReturnsOf(e)'
<1>1. ReturnsOf(e) /\ returns[e] \in Nat
  BY DEF MilestoneInv, ReturnsInv, TypeOK
<1>2. IsFiniteSet(Listers(e)) /\ IsFiniteSet(Putters(e))
  BY <1>1, ListersSize, PuttersSize DEF Listers, ReturnsOf
<1>3. /\ Cardinality(Listers(e)') \in Nat /\ Cardinality(Listers(e)) \in Nat
      /\ Cardinality(Listers(e)') <= Cardinality(Listers(e))
      /\ Cardinality(Putters(e)') \in Nat /\ Cardinality(Putters(e)) \in Nat
      /\ Cardinality(Putters(e)') <= Cardinality(Putters(e))
  BY <1>2, FS_Subset, FS_CardinalityType
<1>4. Cardinality(Replicas) \in Nat
  BY ReplicasAssumption, FS_CardinalityType
<1>5. \A m, n \in Putters(e)' : m = n
  BY <1>1 DEF ReturnsOf
<1>6. returns'[e] + Cardinality(Listers(e)') + Cardinality(Putters(e)')
        <= returns[e] + Cardinality(Listers(e)) + Cardinality(Putters(e))
  BY <1>1, <1>3
<1>7. event'[e] # "notified" => returns'[e] = 0
  BY <1>1 DEF ReturnsOf
<1>8. event'[e] = "notified" =>
        returns'[e] + Cardinality(Listers(e)') + Cardinality(Putters(e)')
          <= Cardinality(Replicas) + 1
  BY <1>1, <1>3, <1>4, <1>6 DEF ReturnsOf
<1> QED BY <1>5, <1>7, <1>8 DEF ReturnsOf

\* The handler that inserts an event is the only one to put it.
LEMMA InsertReturns ==
  ASSUME MilestoneInv, NEW m \in Msgs, NEW r \in Thresholds, InsertEvent(m, r)
  PROVE  ReturnsInv'
<1> DEFINE e == <<CounterOf[m], r>>
<1>1. e \in Events
  BY NextRuleOf DEF InsertEvent, MilestoneInv
<1>2. Putters(e) = {}
  BY DEF MilestoneInv, RecordedInv, InsertEvent, Putters
<1>3. event'[e] = "pending" /\ returns'[e] = 0
  BY <1>1 DEF InsertEvent, MilestoneInv, TypeOK, ReturnsInv, ReturnsOf
<1>4. Putters(e)' \subseteq {m}
  BY <1>2 DEF InsertEvent, MilestoneInv, TypeOK, Putters, NextRule
<1>5. ReturnsOf(e)'
  BY <1>3, <1>4 DEF ReturnsOf
<1>6. ASSUME NEW d \in Events, d # e PROVE ReturnsOf(d)'
  <2>1. event'[d] = event[d] /\ returns'[d] = returns[d] /\ Listers(d)' = Listers(d)
    BY <1>6 DEF InsertEvent, MilestoneInv, TypeOK, Listers, passes
  <2>2. ASSUME NEW n \in Putters(d)' PROVE n \in Putters(d)
    <3>1. n \in Msgs /\ CounterOf[n] = d[1] /\ NextRule(n, d[2]) /\ pc'[n] = "put"
      BY <2>2 DEF InsertEvent, Putters, NextRule
    <3>2. CASE n = m
      <4>1. d[2] \in Thresholds /\ d = <<d[1], d[2]>>
        BY DEF Events
      <4>2. d[2] = r
        BY <3>1, <3>2, <4>1, NextRuleIsUnique DEF InsertEvent, MilestoneInv
      <4> QED BY <1>6, <3>1, <3>2, <4>1, <4>2
    <3>3. CASE n # m
      BY <3>1, <3>3 DEF InsertEvent, MilestoneInv, TypeOK, Putters
    <3> QED BY <3>2, <3>3
  <2> QED BY <2>1, <2>2, ReturnsShrink
<1> QED BY <1>5, <1>6 DEF ReturnsInv

\* What a Put adds to the returns, it takes from those who may still put.
LEMMA PutReturns ==
  ASSUME MilestoneInv, NEW e \in Events, PutNotification(e), event' = event,
         \/ \E p \in Listers(e) : Listers(e)' = Listers(e) \ {p} /\ Putters(e)' = Putters(e)
         \/ \E m \in Putters(e) : Putters(e)' = Putters(e) \ {m} /\ Listers(e)' = Listers(e)
  PROVE  ReturnsOf(e)'
<1>1. ReturnsOf(e) /\ returns[e] \in Nat
  BY DEF MilestoneInv, ReturnsInv, TypeOK
<1>2. IsFiniteSet(Listers(e)) /\ IsFiniteSet(Putters(e))
  BY <1>1, ListersSize, PuttersSize DEF Listers, ReturnsOf
<1>3. Cardinality(Listers(e)) \in Nat /\ Cardinality(Putters(e)) \in Nat
  BY <1>2, FS_CardinalityType
<1>4. Cardinality(Listers(e)') + Cardinality(Putters(e)') + 1
        = Cardinality(Listers(e)) + Cardinality(Putters(e))
      /\ Cardinality(Listers(e)') \in Nat /\ Cardinality(Putters(e)') \in Nat
  <2>1. CASE \E p \in Listers(e) : Listers(e)' = Listers(e) \ {p} /\ Putters(e)' = Putters(e)
    <3>1. PICK p \in Listers(e) : Listers(e)' = Listers(e) \ {p} /\ Putters(e)' = Putters(e)
      BY <2>1
    <3>2. Cardinality(Listers(e) \ {p}) = Cardinality(Listers(e)) - 1
          /\ Cardinality(Listers(e) \ {p}) \in Nat
      BY <1>2, FS_RemoveElement, FS_CardinalityType
    <3> QED BY <1>3, <3>1, <3>2
  <2>2. CASE \E m \in Putters(e) : Putters(e)' = Putters(e) \ {m} /\ Listers(e)' = Listers(e)
    <3>1. PICK m \in Putters(e) : Putters(e)' = Putters(e) \ {m} /\ Listers(e)' = Listers(e)
      BY <2>2
    <3>2. Cardinality(Putters(e) \ {m}) = Cardinality(Putters(e)) - 1
          /\ Cardinality(Putters(e) \ {m}) \in Nat
      BY <1>2, FS_RemoveElement, FS_CardinalityType
    <3> QED BY <1>3, <3>1, <3>2
  <2> QED BY <2>1, <2>2
<1>5. /\ returns'[e] \in Nat /\ returns'[e] <= returns[e] + 1
      /\ event[e] # "notified" => returns'[e] = returns[e]
  BY <1>1 DEF PutNotification, MilestoneInv, TypeOK
<1>6. \A m, n \in Putters(e)' : m = n
  BY <1>1 DEF ReturnsOf
<1>7. Cardinality(Replicas) \in Nat
  BY ReplicasAssumption, FS_CardinalityType
<1>8. event'[e] = "notified" =>
        returns'[e] + Cardinality(Listers(e)') + Cardinality(Putters(e)')
          <= Cardinality(Replicas) + 1
  BY <1>1, <1>3, <1>4, <1>5, <1>7 DEF ReturnsOf
<1> QED BY <1>1, <1>5, <1>6, <1>8 DEF ReturnsOf

LEMMA HandlerReturns ==
  ASSUME MilestoneInv, NEW m \in Msgs, HandlerStep(m)
  PROVE  ReturnsInv'
<1>1. ASSUME pc'[m] # "put", \A n \in Msgs \ {m} : pc'[n] = pc[n] /\ todo'[n] = todo[n],
             event' = event, returns' = returns, rows' = rows
      PROVE  ReturnsInv'
  BY <1>1, ReturnsShrink DEF ReturnsInv, Listers, Putters, NextRule
<1>2. CASE \/ Persist(m) \/ Deduplicated(m) \/ BeginCheck(m) \/ EndCheck(m) \/ HandlerFails(m)
           \/ CountAnswerLost(m) \/ Drop(m) \/ \E r \in Thresholds : EventExists(m, r)
  BY <1>1, <1>2 DEF Persist, Deduplicated, BeginCheck, EndCheck, HandlerFails, CountAnswerLost,
                    Drop, EventExists, passes, MilestoneInv, TypeOK
<1>3. ASSUME NEW r \in Thresholds, Put(m, r) PROVE ReturnsInv'
  <2> DEFINE e == <<CounterOf[m], r>>
  <2>1. e \in Events /\ PutNotification(e) /\ event' = event /\ rows' = rows
    BY <1>3, NextRuleOf DEF Put, passes, MilestoneInv
  <2>2. /\ pc'[m] = "insert"
        /\ \A n \in Msgs \ {m} : pc'[n] = pc[n] /\ todo'[n] = todo[n]
    BY <1>3 DEF Put, MilestoneInv, TypeOK
  <2>3. \A d \in Events : Putters(d)' = Putters(d) \ {m} /\ Listers(d)' = Listers(d)
    BY <2>1, <2>2 DEF Putters, Listers, NextRule
  <2>4. m \in Putters(e)
    BY <1>3 DEF Put, Putters
  <2>5. ReturnsOf(e)'
    BY <2>1, <2>3, <2>4, PutReturns
  <2>6. ASSUME NEW d \in Events, d # e PROVE ReturnsOf(d)'
    <3>1. returns'[d] = returns[d]
      BY <2>1, <2>6 DEF PutNotification, MilestoneInv, TypeOK
    <3> QED BY <2>1, <2>3, <3>1, ReturnsShrink
  <2> QED BY <2>5, <2>6 DEF ReturnsInv
<1> QED BY <1>2, <1>3, InsertReturns DEF HandlerStep

LEMMA DeliveryReturns ==
  ASSUME MilestoneInv,
         \/ \E p \in Replicas : RecoveryStep(p)
         \/ \E a \in Acks : ShowStep(a) \/ AckStep(a)
         \/ HashLost
  PROVE  ReturnsInv'
<1>1. ASSUME UNCHANGED counting PROVE \A e \in Events : Putters(e)' = Putters(e)
  BY <1>1 DEF counting, Putters, NextRule
<1>2. ASSUME UNCHANGED <<counting, event, returns, rows>> PROVE ReturnsInv'
  BY <1>1, <1>2, ReturnsShrink DEF ReturnsInv, Listers
<1>3. ASSUME NEW p \in Replicas, ListPage(p) PROVE ReturnsInv'
  <2>1. UNCHANGED counting /\ event' = event /\ returns' = returns
    BY <1>3 DEF ListPage
  <2> SUFFICES ASSUME NEW e \in Events PROVE ReturnsOf(e)'
    BY DEF ReturnsInv
  <2>2. CASE event[e] = "notified"
    <3>1. Listers(e)' \subseteq Listers(e)
      BY <1>3, <2>2 DEF ListPage, Page, Listers, MilestoneInv, TypeOK
    <3> QED BY <1>1, <2>1, <3>1, ReturnsShrink
  <2>3. CASE event[e] # "notified"
    BY <1>1, <2>1, <2>3 DEF ReturnsOf, ReturnsInv, MilestoneInv
  <2> QED BY <2>2, <2>3
<1>4. ASSUME NEW p \in Replicas, PassFails(p) PROVE ReturnsInv'
  <2>1. \A e \in Events : Listers(e)' \subseteq Listers(e)
    BY <1>4 DEF PassFails, Listers, MilestoneInv, TypeOK
  <2>2. UNCHANGED counting /\ event' = event /\ returns' = returns
    BY <1>4 DEF PassFails
  <2> QED BY <1>1, <2>1, <2>2, ReturnsShrink DEF ReturnsInv
<1>5. ASSUME NEW p \in Replicas, NEW e \in Events, PutRow(p, e) PROVE ReturnsInv'
  <2>1. UNCHANGED counting /\ event' = event /\ PutNotification(e)
    BY <1>5 DEF PutRow
  <2>2. p \in Listers(e) /\ Listers(e)' = Listers(e) \ {p}
    BY <1>5 DEF PutRow, Listers, MilestoneInv, TypeOK
  <2>3. ReturnsOf(e)'
    BY <1>1, <2>1, <2>2, PutReturns
  <2>4. ASSUME NEW d \in Events, d # e PROVE ReturnsOf(d)'
    <3>1. returns'[d] = returns[d]
      BY <2>1, <2>4 DEF PutNotification, MilestoneInv, TypeOK
    <3>2. Listers(d)' \subseteq Listers(d)
      BY <1>5, <2>4 DEF PutRow, Listers, MilestoneInv, TypeOK
    <3> QED BY <1>1, <2>1, <3>1, <3>2, ReturnsShrink
  <2> QED BY <2>3, <2>4 DEF ReturnsInv
<1>6. ASSUME NEW a \in Acks, AckMark(a) PROVE ReturnsInv'
  <2>1. UNCHANGED counting /\ returns' = returns /\ rows' = rows
    BY <1>6 DEF AckMark, passes
  <2> SUFFICES ASSUME NEW e \in Events PROVE ReturnsOf(e)'
    BY DEF ReturnsInv
  <2>2. Listers(e)' = Listers(e) /\ Putters(e)' = Putters(e)
    BY <1>1, <2>1 DEF Listers
  <2>3. CASE event'[e] = event[e]
    BY <2>1, <2>2, <2>3, ReturnsShrink
  <2>4. CASE event'[e] # event[e]
    <3>1. event'[e] = "notified" /\ returns'[e] = 0
      BY <1>6, <2>1, <2>4 DEF AckMark, MilestoneInv, ReturnsInv, ReturnsOf
    <3>2. /\ \A m, n \in Putters(e) : m = n
          /\ Cardinality(Putters(e)) \in 0..1
      BY PuttersSize DEF MilestoneInv, ReturnsInv, ReturnsOf
    <3>3. /\ Cardinality(Listers(e)) \in Nat /\ Cardinality(Replicas) \in Nat
          /\ Cardinality(Listers(e)) <= Cardinality(Replicas)
      BY ListersSize DEF Listers
    <3> QED BY <2>2, <3>1, <3>2, <3>3 DEF ReturnsOf
  <2> QED BY <2>3, <2>4
<1>7. ASSUME NEW a \in Acks, ShowStep(a) \/ AckDelete(a) \/ AckDeleteFails(a) \/ AckLost(a)
      PROVE  ReturnsInv'
  BY <1>2, <1>7 DEF ShowStep, Refresh, ListPendingV2, AckV2, AckDelete, AckDeleteFails, AckLost,
                    passes
<1>8. ASSUME HashLost PROVE ReturnsInv'
  BY <1>2, <1>8 DEF HashLost, passes
<1> QED BY <1>3, <1>4, <1>5, <1>6, <1>7, <1>8 DEF RecoveryStep, AckStep

-----------------------------------------------------------------------------
(* Recorded events *)

LEMMA HandlerRecorded ==
  ASSUME MilestoneInv, NEW m \in Msgs, HandlerStep(m)
  PROVE  RecordedInv' /\ NotifiedWasShown'
<1> USE DEF MilestoneInv, passes, acks
<1>1. CASE Persist(m) \/ CountAnswerLost(m) \/ Deduplicated(m) \/ EndCheck(m) \/ Drop(m)
  BY <1>1 DEF Persist, CountAnswerLost, Deduplicated, EndCheck, Drop, TypeOK, RecordedInv,
              NextRule, NotifiedWasShown
<1>2. CASE BeginCheck(m)
  BY <1>2 DEF BeginCheck, TypeOK, RecordedInv, NextRule, NotifiedWasShown
<1>3. CASE HandlerFails(m)
  BY <1>3 DEF HandlerFails, TypeOK, RecordedInv, NextRule, NotifiedWasShown
<1>4. ASSUME NEW r \in Thresholds, InsertEvent(m, r)
      PROVE  RecordedInv' /\ NotifiedWasShown'
  <2>1. <<CounterOf[m], r>> \in Events
    BY <1>4, NextRuleOf DEF InsertEvent
  <2>2. /\ event'[<<CounterOf[m], r>>] = "pending"
        /\ \A e \in Events \ {<<CounterOf[m], r>>} : event'[e] = event[e]
    BY <1>4, <2>1 DEF InsertEvent, TypeOK
  <2>3. \A e \in Events : event[e] # "absent" => event'[e] # "absent"
    BY <2>1, <2>2
  <2>4. NotifiedWasShown'
    BY <1>4, <2>2 DEF InsertEvent, NotifiedWasShown
  <2>5. ASSUME NEW n \in Msgs, NEW q \in Thresholds, pc'[n] = "put", NextRule(n, q)'
        PROVE  event'[<<CounterOf[n], q>>] # "absent"
    <3>1. NextRule(n, q)
      BY <1>4, <2>5 DEF InsertEvent, NextRule
    <3>2. <<CounterOf[n], q>> \in Events
      BY <3>1, NextRuleOf
    <3>3. CASE n = m
      <4>1. q = r
        BY <1>4, <3>1, <3>3, NextRuleIsUnique DEF InsertEvent
      <4> QED BY <2>2, <3>3, <4>1
    <3>4. CASE n # m
      BY <1>4, <2>3, <2>5, <3>1, <3>2, <3>4 DEF InsertEvent, TypeOK, RecordedInv
    <3> QED BY <3>3, <3>4
  <2> QED BY <1>4, <2>3, <2>4, <2>5 DEF InsertEvent, RecordedInv
<1>5. ASSUME NEW r \in Thresholds, EventExists(m, r)
      PROVE  RecordedInv' /\ NotifiedWasShown'
  BY <1>5 DEF EventExists, TypeOK, RecordedInv, NextRule, NotifiedWasShown
<1>6. ASSUME NEW r \in Thresholds, Put(m, r)
      PROVE  RecordedInv' /\ NotifiedWasShown'
  <2>1. event[<<CounterOf[m], r>>] # "absent"
    BY <1>6 DEF Put, RecordedInv
  <2> QED BY <1>6, <2>1 DEF Put, PutNotification, TypeOK, RecordedInv, NextRule, NotifiedWasShown
<1> QED BY <1>1, <1>2, <1>3, <1>4, <1>5, <1>6 DEF HandlerStep

\* Showing, acknowledging and recovering keep to recorded events, and record none.
LEMMA DeliveryKeepsInv ==
  ASSUME MilestoneInv,
         \/ \E p \in Replicas : RecoveryStep(p)
         \/ \E a \in Acks : ShowStep(a) \/ AckStep(a)
         \/ HashLost
  PROVE  MilestoneInv'
<1> USE DEF MilestoneInv
<1>1. TypeOK'
  BY DeliveryType
<1>2. UNCHANGED counting /\ \A e \in Events : event'[e] = "absent" <=> event[e] = "absent"
  BY DEF RecoveryStep, ListPage, PassFails, PutRow, ShowStep, Refresh, ListPendingV2, AckV2,
         AckStep, AckDelete, AckDeleteFails, AckMark, AckLost, HashLost, TypeOK
<1>3. TriggerInv'
  <2> SUFFICES ASSUME NEW c \in Counters, NEW r \in RulesOf[c], r <= count'[c]
               PROVE  Covered(c, r)'
    BY DEF TriggerInv
  <2>1. <<c, r>> \in Events /\ Covered(c, r)
    BY <1>2, EventOf DEF counting, TriggerInv
  <2> QED BY <1>2, <2>1 DEF counting, Covered, InFlight
<1>4. /\ \A m \in Msgs : todo'[m] \subseteq RulesOf[CounterOf[m]]
      /\ \A m \in Msgs, r \in Thresholds :
           pc'[m] = "put" /\ NextRule(m, r)' => event'[<<CounterOf[m], r>>] # "absent"
  BY <1>2, NextRuleOf DEF counting, RecordedInv, NextRule
<1>5. ASSUME NEW p \in Replicas, RecoveryStep(p) PROVE RecordedInv' /\ NotifiedWasShown'
  <2>1. CASE ListPage(p)
    <3>1. \A e \in Page(p) : e \in Events /\ event[e] # "absent"
      BY DEF Page
    <3> QED BY <1>4, <2>1, <3>1 DEF ListPage, acks, TypeOK, RecordedInv, NotifiedWasShown
  <2>2. CASE PassFails(p)
    BY <1>4, <2>2 DEF PassFails, acks, TypeOK, RecordedInv, NotifiedWasShown
  <2>3. ASSUME NEW e \in Events, PutRow(p, e) PROVE RecordedInv' /\ NotifiedWasShown'
    BY <1>4, <2>3 DEF PutRow, PutNotification, acks, TypeOK, RecordedInv, NotifiedWasShown
  <2> QED BY <1>5, <2>1, <2>2, <2>3 DEF RecoveryStep
<1>6. ASSUME NEW a \in Acks, ShowStep(a) PROVE RecordedInv' /\ NotifiedWasShown'
  <2>1. CASE Refresh(a)
    BY <1>4, <2>1 DEF Refresh, passes, TypeOK, RecordedInv, NotifiedWasShown
  <2>2. ASSUME NEW S \in SUBSET Events, ListPendingV2(S)
        PROVE  RecordedInv' /\ NotifiedWasShown'
    BY <1>4, <2>2 DEF ListPendingV2, passes, RecordedInv, NotifiedWasShown
  <2>3. ASSUME NEW S \in SUBSET Events, AckV2(a, S)
        PROVE  RecordedInv' /\ NotifiedWasShown'
    <3>1. \A e \in S : event[e] # "absent"
      BY <2>3 DEF AckV2, RecordedInv
    <3> QED BY <1>4, <2>3, <3>1 DEF AckV2, passes, TypeOK, RecordedInv, NotifiedWasShown
  <2> QED BY <1>6, <2>1, <2>2, <2>3 DEF ShowStep
<1>7. ASSUME NEW a \in Acks, AckStep(a) PROVE RecordedInv' /\ NotifiedWasShown'
  BY <1>2, <1>4, <1>7 DEF AckStep, AckDelete, AckDeleteFails, AckMark, AckLost, passes, TypeOK,
                          RecordedInv, NotifiedWasShown
<1>8. ASSUME HashLost PROVE RecordedInv' /\ NotifiedWasShown'
  BY <1>4, <1>8 DEF HashLost, passes, acks, RecordedInv, NotifiedWasShown
<1> QED BY <1>1, <1>3, <1>5, <1>6, <1>7, <1>8, DeliveryReturns

-----------------------------------------------------------------------------

LEMMA InvInit == Init => MilestoneInv
<1> SUFFICES ASSUME Init PROVE MilestoneInv
  OBVIOUS
<1>1. TypeOK /\ TriggerInv /\ RecordedInv /\ NotifiedWasShown
  BY RulesAssumption, BoundsAssumption
  DEF Init, TypeOK, TriggerInv, RecordedInv, NotifiedWasShown, NextRule
<1>2. ReturnsInv
  BY DEF Init, ReturnsInv, ReturnsOf, Putters
<1> QED BY <1>1, <1>2 DEF MilestoneInv

LEMMA InvStep == MilestoneInv /\ [Next]_vars => MilestoneInv'
<1> SUFFICES ASSUME MilestoneInv, [Next]_vars PROVE MilestoneInv'
  OBVIOUS
<1>1. ASSUME NEW m \in Msgs, HandlerStep(m) PROVE MilestoneInv'
  <2>1. TriggerInv'
    BY <1>1, CountedTrigger, BeginCheckTrigger, RuleTrigger, EndTrigger DEF HandlerStep
  <2> QED BY <1>1, <2>1, HandlerType, HandlerRecorded, HandlerReturns DEF MilestoneInv
<1>2. CASE \/ \E p \in Replicas : RecoveryStep(p)
           \/ \E a \in Acks : ShowStep(a) \/ AckStep(a)
           \/ HashLost
  BY <1>2, DeliveryKeepsInv
<1>3. CASE UNCHANGED vars
  <2> USE <1>3 DEF vars, counting, passes, acks, MilestoneInv
  <2>1. TypeOK' /\ TriggerInv'
    BY DEF TypeOK, TriggerInv, Covered, InFlight
  <2>2. RecordedInv' /\ NotifiedWasShown'
    BY DEF RecordedInv, NextRule, NotifiedWasShown
  <2>3. ReturnsInv'
    BY DEF ReturnsInv, ReturnsOf, Listers, Putters, NextRule
  <2> QED BY <2>1, <2>2, <2>3
<1> QED BY <1>1, <1>2, <1>3 DEF Next

\* What counters, events, Redis and responses keep between them holds in
\* every reachable state, for any rules, messages, replicas and refreshes.
THEOREM MilestoneInvariant == Spec => []MilestoneInv
<1> QED BY InvInit, InvStep, PTL DEF Spec

\* A threshold that was reached has its event once the handlers of the counter
\* are through, unless a failure made the last check slip: Check goes through
\* every rule reached, whichever handler counted or inserted first.
THEOREM ReachedThresholdsTriggered == Spec => []ReachedIsTriggered
<1>1. MilestoneInv => ReachedIsTriggered
  BY DEF MilestoneInv, TriggerInv, Covered, InFlight, ReachedIsTriggered
<1> QED BY <1>1, MilestoneInvariant, PTL

\* RecoverPendingNotifications lists pending events only and Check puts only what
\* it inserted, so a notified event comes back into Redis at most once for each
\* replica and once for its handler, however often passes and hashes fail.
THEOREM NotifiedReturnsBounded == Spec => []ReturnsBounded
<1>1. MilestoneInv => ReturnsBounded
  <2> SUFFICES ASSUME MilestoneInv, NEW e \in Events
               PROVE  returns[e] <= Cardinality(Replicas) + 1
    BY DEF ReturnsBounded
  <2>1. ReturnsOf(e) /\ returns[e] \in Nat
    BY DEF MilestoneInv, ReturnsInv, TypeOK
  <2>2. /\ Cardinality(Listers(e)) \in Nat /\ Cardinality(Putters(e)) \in 0..1
        /\ Cardinality(Replicas) \in Nat
    BY <2>1, ListersSize, PuttersSize DEF Listers, ReturnsOf
  <2> QED BY <2>1, <2>2 DEF ReturnsOf
<1> QED BY <1>1, MilestoneInvariant, PTL

\* AckNotifications marks only what a response has carried, of the feed or of the
\* V2 listing whose ids a client names, so no event leaves the pending ones that
\* recovery lists without having been shown.
THEOREM NotifiedEventsWereShown == Spec => []NotifiedWasShown
<1>1. MilestoneInv => NotifiedWasShown
  BY DEF MilestoneInv
<1> QED BY <1>1, MilestoneInvariant, PTL
=============================================================================
