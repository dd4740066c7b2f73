-------------------------- MODULE ItemOutboxProofs --------------------------
(***************************************************************************)
(* The outbox for any set of items and replicas and any batch size: its    *)
(* inductive invariant, and that it implements exactly-once delivery up to *)
(* what Redis scripts that outlive the time-out of their caller repeat.    *)
(***************************************************************************)
EXTENDS ItemOutbox, TLAPS

\* A pass has one current row: the smallest it has still to go through.
LEMMA CurrentIsUnique ==
  ASSUME NEW w \in Workers, NEW i \in Items, NEW j \in Items,
         Current(w, i), Current(w, j)
  PROVE  i = j
  BY ItemsAssumption DEF Current

\* The script keeps the types of what it writes.
LEMMA ScriptType ==
  ASSUME NEW i \in Items, marker \subseteq Items, stream \in Seq(Items), PublishScript(i)
  PROVE  marker' \subseteq Items /\ stream' \in Seq(Items)
<1>1. CASE i \in marker
  BY <1>1 DEF PublishScript
<1>2. CASE i \notin marker
  <2>1. stream' = Append(stream, i) /\ marker' = marker \cup {i}
    BY <1>2 DEF PublishScript
  <2> QED BY <2>1
<1> QED BY <1>1, <1>2

\* What one run of the Redis script does to the stream, item by item.
LEMMA ScriptEffect ==
  ASSUME TypeOK, NEW i \in Items, PublishScript(i), i \in marker => InStream(i)
  PROVE  /\ marker' = marker \cup {i}
         /\ stream' \in Seq(Items)
         /\ InStream(i)'
         /\ \A j \in Items : j # i => (InStream(j)' <=> InStream(j))
         /\ \A j \in Items : j # i => (AtMostOnce(j)' <=> AtMostOnce(j))
         /\ AtMostOnce(i) /\ (InStream(i) => i \in marker) => AtMostOnce(i)'
<1>1. CASE i \in marker
  BY <1>1 DEF PublishScript, InStream, AtMostOnce, TypeOK
<1>2. CASE i \notin marker
  <2>1. stream' = Append(stream, i) /\ marker' = marker \cup {i}
    BY <1>2 DEF PublishScript
  <2>2. stream \in Seq(Items) /\ Len(stream) \in Nat
    BY DEF TypeOK
  <2>3. /\ stream' \in Seq(Items)
        /\ Len(stream') = Len(stream) + 1
        /\ stream'[Len(stream) + 1] = i
        /\ \A n \in 1..Len(stream) : stream'[n] = stream[n]
    BY <2>1, <2>2
  <2>4. InStream(i)'
    BY <2>2, <2>3 DEF InStream
  <2>5. ASSUME NEW j \in Items, j # i
        PROVE  (InStream(j)' <=> InStream(j)) /\ (AtMostOnce(j)' <=> AtMostOnce(j))
    BY <2>2, <2>3, <2>5 DEF InStream, AtMostOnce
  <2>6. ASSUME AtMostOnce(i), InStream(i) => i \in marker
        PROVE  AtMostOnce(i)'
    BY <1>2, <2>2, <2>3, <2>6 DEF InStream, AtMostOnce
  <2> QED BY <2>1, <2>3, <2>4, <2>5, <2>6
<1> QED BY <1>1, <1>2

LEMMA TypeStep == TypeOK /\ [Next]_vars => TypeOK'
<1> SUFFICES ASSUME TypeOK, [Next]_vars PROVE TypeOK'
  OBVIOUS
<1> USE DEF TypeOK, RowState, PassState, scripts
<1>1. ASSUME NEW i \in Items, PublishItem(i) PROVE TypeOK'
  BY <1>1 DEF PublishItem
<1>2. ASSUME NEW i \in Items, LateScript(i) PROVE TypeOK'
  <2>1. late' \in [Items -> 0..MaxLate]
    BY <1>2, LateAssumption DEF LateScript
  <2>2. marker' \subseteq Items /\ stream' \in Seq(Items)
    BY <1>2, ScriptType DEF LateScript
  <2> QED BY <1>2, <2>1, <2>2 DEF LateScript
<1>3. ASSUME NEW w \in Workers, RecoverStep(w) PROVE TypeOK'
  <2>1. CASE ListUndispatched(w) \/ ListAcknowledged(w) \/ EndPass(w)
    BY <2>1 DEF ListUndispatched, ListAcknowledged, EndPass, Listing
  <2>2. ASSUME NEW i \in Items, LockRow(w, i) \/ SkipRow(w, i) PROVE TypeOK'
    BY <2>2 DEF LockRow, SkipRow
  <2>3. ASSUME NEW i \in Items, Eval(w, i) PROVE TypeOK'
    <3>1. marker' \subseteq Items /\ stream' \in Seq(Items)
      BY <2>3, ScriptType DEF Eval
    <3> QED BY <2>3, <3>1 DEF Eval
  <2>4. ASSUME NEW i \in Items, Acknowledge(w, i) PROVE TypeOK'
    BY <2>4 DEF Acknowledge
  <2>5. ASSUME NEW i \in Items, DeleteMarker(w, i) \/ DeleteRow(w, i) PROVE TypeOK'
    BY <2>5 DEF DeleteMarker, DeleteRow
  <2> QED BY <1>3, <2>1, <2>2, <2>3, <2>4, <2>5 DEF RecoverStep
<1>4. ASSUME NEW w \in Workers, FailureStep(w) PROVE TypeOK'
  <2>1. EndsInError(w)
    BY <1>4 DEF FailureStep, Fail, EvalAnswerLost, EvalTimesOut, CommitAnswerLost
  <2>2. /\ lock' \in [Items -> Workers \cup {NoWorker}]
        /\ pc' \in [Workers -> PassState]
        /\ rows' \in [Workers -> SUBSET Items]
    BY <2>1 DEF EndsInError, Release
  <2>3. CASE Fail(w)
    BY <2>2, <2>3 DEF Fail
  <2>4. ASSUME NEW i \in Items, EvalAnswerLost(w, i) PROVE TypeOK'
    <3>1. marker' \subseteq Items /\ stream' \in Seq(Items)
      BY <2>4, ScriptType DEF EvalAnswerLost
    <3> QED BY <2>2, <2>4, <3>1 DEF EvalAnswerLost
  <2>5. ASSUME NEW i \in Items, EvalTimesOut(w, i) PROVE TypeOK'
    <3>1. late' \in [Items -> 0..MaxLate]
      BY <2>5, LateAssumption DEF EvalTimesOut
    <3> QED BY <2>2, <2>5, <3>1 DEF EvalTimesOut
  <2>6. ASSUME NEW i \in Items, CommitAnswerLost(w, i) PROVE TypeOK'
    BY <2>2, <2>6 DEF CommitAnswerLost
  <2> QED BY <1>4, <2>3, <2>4, <2>5, <2>6 DEF FailureStep
<1>5. CASE UNCHANGED vars
  BY <1>5 DEF vars
<1> QED BY <1>1, <1>2, <1>3, <1>4, <1>5 DEF Next

\* A step that leaves the stream alone leaves what is said of it alone.
LEMMA StreamUnchanged ==
  ASSUME stream' = stream
  PROVE  \A i \in Items : (InStream(i)' <=> InStream(i)) /\ (AtMostOnce(i)' <=> AtMostOnce(i))
  BY DEF InStream, AtMostOnce

\* The end of a pass by an error gives up every row lock the replica holds.
LEMMA ErrorEffect ==
  ASSUME TypeOK, NEW w \in Workers, EndsInError(w)
  PROVE  /\ pc'[w] = "idle" /\ rows'[w] = {}
         /\ \A v \in Workers : v # w => pc'[v] = pc[v] /\ rows'[v] = rows[v]
         /\ \A i \in Items : lock'[i] = IF lock[i] = w THEN NoWorker ELSE lock[i]
         /\ \A v \in Workers, i \in Items :
              Current(v, i)' => v # w /\ Current(v, i)
         /\ \A v \in Workers, i \in Items :
              Current(v, i) => v = w \/ Current(v, i)'
  BY DEF EndsInError, Release, TypeOK, Current

LEMMA PublishItemStep ==
  ASSUME OutboxInv, NEW i \in Items, PublishItem(i) PROVE OutboxInv'
<1> USE DEF OutboxInv, scripts
<1>1. TypeOK'
  BY TypeStep DEF Next
<1>2. stream' = stream
  BY DEF PublishItem
<1>3. \A v \in Workers, j \in Items : Current(v, j)' <=> Current(v, j)
  BY DEF PublishItem, Current
<1>4. DispatchOwnsRow' /\ LockInv' /\ PassInv'
  BY <1>3 DEF PublishItem, TypeOK, DispatchOwnsRow, LockInv, PassInv, Current
<1>5. MarkerInv' /\ NothingLost'
  BY <1>2, StreamUnchanged DEF PublishItem, TypeOK, MarkerInv, NothingLost
<1>6. OnceInv'
  <2>1. ~InStream(i) => AtMostOnce(i)
    BY DEF InStream, AtMostOnce
  <2> QED BY <1>2, <2>1, StreamUnchanged DEF PublishItem, TypeOK, MarkerInv, OnceInv
<1> QED BY <1>1, <1>4, <1>5, <1>6

LEMMA LateScriptStep ==
  ASSUME OutboxInv, NEW i \in Items, LateScript(i) PROVE OutboxInv'
<1> USE DEF OutboxInv, scripts
<1>1. TypeOK'
  BY TypeStep DEF Next
<1>2. PublishScript(i) /\ (i \in marker => InStream(i))
  BY DEF LateScript, MarkerInv
<1>3. row[i] # "absent" /\ i \in lapsed
  BY DEF LateScript, MarkerInv, OnceInv
<1>4. \A v \in Workers, j \in Items : Current(v, j)' <=> Current(v, j)
  BY DEF LateScript, Current
<1>5. marker' = marker \cup {i}
  BY <1>2, ScriptEffect
<1>6. DispatchOwnsRow' /\ LockInv' /\ PassInv'
  BY <1>4, <1>5 DEF LateScript, TypeOK, DispatchOwnsRow, LockInv, PassInv
<1>7. MarkerInv' /\ NothingLost'
  BY <1>2, <1>3, ScriptEffect DEF LateScript, TypeOK, MarkerInv, NothingLost
<1>8. OnceInv'
  BY <1>2, <1>3, ScriptEffect DEF LateScript, TypeOK, MarkerInv, OnceInv
<1> QED BY <1>1, <1>6, <1>7, <1>8

\* The listings, the skipped rows and the end of a pass touch neither store.
LEMMA QuietStep ==
  ASSUME OutboxInv, NEW w \in Workers,
         \/ ListUndispatched(w) \/ ListAcknowledged(w) \/ EndPass(w)
         \/ \E i \in Items : SkipRow(w, i)
  PROVE  OutboxInv'
<1> USE DEF OutboxInv, scripts
<1>1. TypeOK'
  BY TypeStep DEF Next, RecoverStep
<1>2. UNCHANGED <<row, lock, marker, stream, scripts>>
  BY DEF ListUndispatched, ListAcknowledged, EndPass, SkipRow
<1>3. /\ \A v \in Workers : v # w => pc'[v] = pc[v] /\ rows'[v] = rows[v]
      /\ pc[w] \notin {"eval", "ack"} /\ pc'[w] \notin {"eval", "ack"}
  BY DEF ListUndispatched, ListAcknowledged, EndPass, SkipRow, TypeOK
<1>4. \A v \in Workers, j \in Items : v # w => (Current(v, j)' <=> Current(v, j))
  BY <1>3 DEF Current
<1>5. DispatchOwnsRow' /\ LockInv'
  BY <1>2, <1>3, <1>4 DEF DispatchOwnsRow, LockInv, TypeOK
<1>6. \A j \in rows'[w] : row[j] # "absent" /\ (pc'[w] \in {"clean", "delete"} => row[j] # "queued")
  BY DEF ListUndispatched, ListAcknowledged, EndPass, SkipRow, TypeOK, Listing, PassInv
<1>7. PassInv'
  BY <1>2, <1>3, <1>4, <1>6 DEF PassInv, TypeOK
<1>8. MarkerInv' /\ NothingLost' /\ OnceInv'
  BY <1>2, StreamUnchanged DEF MarkerInv, NothingLost, OnceInv
<1> QED BY <1>1, <1>5, <1>7, <1>8

LEMMA LockRowStep ==
  ASSUME OutboxInv, NEW w \in Workers, NEW i \in Items, LockRow(w, i) PROVE OutboxInv'
<1> USE DEF OutboxInv, scripts
<1>1. TypeOK'
  BY TypeStep DEF Next, RecoverStep
<1>2. \A v \in Workers, j \in Items : Current(v, j)' <=> Current(v, j)
  BY DEF LockRow, Current
<1>3. \A j \in Items : Current(w, j) => j = i
  BY CurrentIsUnique DEF LockRow
<1>4. \A v \in Workers : v # NoWorker
  BY NoWorkerAssumption
<1>5. DispatchOwnsRow'
  BY <1>2, <1>3, <1>4 DEF LockRow, TypeOK, DispatchOwnsRow
<1>6. LockInv' /\ PassInv'
  BY <1>2, <1>3, <1>4 DEF LockRow, TypeOK, LockInv, PassInv
<1>7. MarkerInv' /\ NothingLost' /\ OnceInv'
  BY StreamUnchanged DEF LockRow, MarkerInv, NothingLost, OnceInv
<1> QED BY <1>1, <1>5, <1>6, <1>7

LEMMA EvalStep ==
  ASSUME OutboxInv, NEW w \in Workers, NEW i \in Items, Eval(w, i) PROVE OutboxInv'
<1> USE DEF OutboxInv, scripts
<1>1. TypeOK'
  BY TypeStep DEF Next, RecoverStep
<1>2. PublishScript(i) /\ (i \in marker => InStream(i))
  BY DEF Eval, MarkerInv
<1>3. row[i] = "queued"
  BY DEF Eval, DispatchOwnsRow
<1>4. \A v \in Workers, j \in Items : Current(v, j)' <=> Current(v, j)
  BY DEF Eval, Current
<1>5. \A j \in Items : Current(w, j) => j = i
  BY CurrentIsUnique DEF Eval
<1>6. marker' = marker \cup {i}
  BY <1>2, ScriptEffect
<1>7. DispatchOwnsRow' /\ LockInv' /\ PassInv'
  BY <1>4, <1>5, <1>6 DEF Eval, TypeOK, DispatchOwnsRow, LockInv, PassInv
<1>8. MarkerInv' /\ NothingLost'
  BY <1>2, <1>3, ScriptEffect DEF Eval, TypeOK, MarkerInv, NothingLost
<1>9. OnceInv'
  BY <1>2, <1>3, ScriptEffect DEF Eval, TypeOK, MarkerInv, OnceInv
<1> QED BY <1>1, <1>7, <1>8, <1>9

LEMMA AcknowledgeStep ==
  ASSUME OutboxInv, NEW w \in Workers, NEW i \in Items, Acknowledge(w, i) PROVE OutboxInv'
<1> USE DEF OutboxInv, scripts
<1>1. TypeOK'
  BY TypeStep DEF Next, RecoverStep
<1>2. \A v \in Workers, j \in Items : v # w => (Current(v, j)' <=> Current(v, j))
  BY DEF Acknowledge, Current, TypeOK
<1>3. lock[i] = w /\ i \in marker
  BY DEF Acknowledge, DispatchOwnsRow, PassInv
<1>4. \A j \in Items : lock[j] = w => j = i
  BY CurrentIsUnique DEF Acknowledge, LockInv
<1>5. DispatchOwnsRow'
  BY <1>2, <1>3 DEF Acknowledge, TypeOK, DispatchOwnsRow
<1>6. LockInv'
  BY <1>2, <1>4, NoWorkerAssumption DEF Acknowledge, TypeOK, LockInv
<1>7. PassInv'
  BY <1>2 DEF Acknowledge, TypeOK, PassInv
<1>8. MarkerInv' /\ NothingLost' /\ OnceInv'
  BY <1>3, StreamUnchanged DEF Acknowledge, TypeOK, MarkerInv, NothingLost, OnceInv
<1> QED BY <1>1, <1>5, <1>6, <1>7, <1>8

LEMMA DeleteMarkerStep ==
  ASSUME OutboxInv, NEW w \in Workers, NEW i \in Items, DeleteMarker(w, i) PROVE OutboxInv'
<1> USE DEF OutboxInv, scripts
<1>1. TypeOK'
  BY TypeStep DEF Next, RecoverStep
<1>2. \A v \in Workers, j \in Items : Current(v, j)' <=> Current(v, j)
  BY DEF DeleteMarker, Current
<1>3. row[i] # "queued" /\ row[i] # "absent"
  BY DEF DeleteMarker, PassInv, Current
<1>4. DispatchOwnsRow' /\ LockInv'
  BY <1>2 DEF DeleteMarker, TypeOK, DispatchOwnsRow, LockInv
<1>5. PassInv'
  BY <1>2, <1>3 DEF DeleteMarker, TypeOK, DispatchOwnsRow, PassInv
<1>6. MarkerInv' /\ NothingLost' /\ OnceInv'
  BY <1>3, StreamUnchanged DEF DeleteMarker, TypeOK, MarkerInv, NothingLost, OnceInv
<1> QED BY <1>1, <1>4, <1>5, <1>6

LEMMA DeleteRowStep ==
  ASSUME OutboxInv, NEW w \in Workers, NEW i \in Items, DeleteRow(w, i) PROVE OutboxInv'
<1> USE DEF OutboxInv, scripts
<1>1. TypeOK'
  BY TypeStep DEF Next, RecoverStep
<1>2. \A v \in Workers, j \in Items : v # w => (Current(v, j)' <=> Current(v, j))
  BY DEF DeleteRow, Current, TypeOK
<1>3. \A j \in Items :
        /\ row[j] = "queued" <=> row'[j] = "queued"
        /\ row[j] = "absent" <=> row'[j] = "absent"
  BY DEF DeleteRow, TypeOK
<1>4. DispatchOwnsRow' /\ LockInv'
  BY <1>2, <1>3 DEF DeleteRow, TypeOK, DispatchOwnsRow, LockInv
<1>5. PassInv'
  BY <1>2, <1>3 DEF DeleteRow, TypeOK, PassInv
<1>6. MarkerInv' /\ OnceInv'
  BY <1>3, StreamUnchanged DEF DeleteRow, MarkerInv, OnceInv
<1>7. NothingLost'
  BY StreamUnchanged DEF DeleteRow, TypeOK, NothingLost
<1> QED BY <1>1, <1>4, <1>5, <1>6, <1>7

\* Every failure leaves the pass parts of the invariant to the error lemma; what
\* is left is what the failed call did to the stores.
LEMMA FailureKeepsPasses ==
  ASSUME OutboxInv, NEW w \in Workers, EndsInError(w),
         marker \subseteq marker',
         \A j \in Items : row'[j] = row[j] \/ (lock[j] = w /\ row'[j] = "acked")
  PROVE  DispatchOwnsRow' /\ LockInv' /\ PassInv'
<1> USE DEF OutboxInv, scripts
<1>1. DispatchOwnsRow'
  BY ErrorEffect, NoWorkerAssumption DEF DispatchOwnsRow
<1>2. LockInv'
  BY ErrorEffect, NoWorkerAssumption DEF LockInv
<1>3. PassInv'
  BY ErrorEffect DEF PassInv, TypeOK
<1> QED BY <1>1, <1>2, <1>3

LEMMA FailureStepKeepsInv ==
  ASSUME OutboxInv, NEW w \in Workers, FailureStep(w) PROVE OutboxInv'
<1> USE DEF OutboxInv, scripts
<1>1. TypeOK'
  BY TypeStep DEF Next
<1>2. CASE Fail(w)
  <2>1. DispatchOwnsRow' /\ LockInv' /\ PassInv'
    BY <1>2, FailureKeepsPasses DEF Fail
  <2>2. MarkerInv' /\ NothingLost' /\ OnceInv'
    BY <1>2, StreamUnchanged DEF Fail, MarkerInv, NothingLost, OnceInv
  <2> QED BY <1>1, <2>1, <2>2
<1>3. ASSUME NEW i \in Items, EvalAnswerLost(w, i) PROVE OutboxInv'
  <2>1. PublishScript(i) /\ (i \in marker => InStream(i)) /\ row[i] = "queued"
    BY <1>3 DEF EvalAnswerLost, MarkerInv, DispatchOwnsRow
  <2>2. DispatchOwnsRow' /\ LockInv' /\ PassInv'
    BY <1>3, <2>1, ScriptEffect, FailureKeepsPasses DEF EvalAnswerLost
  <2>3. MarkerInv' /\ NothingLost'
    BY <1>3, <2>1, ScriptEffect DEF EvalAnswerLost, MarkerInv, NothingLost
  <2>4. OnceInv'
    BY <1>3, <2>1, ScriptEffect DEF EvalAnswerLost, MarkerInv, OnceInv
  <2> QED BY <1>1, <2>2, <2>3, <2>4
<1>4. ASSUME NEW i \in Items, EvalTimesOut(w, i) PROVE OutboxInv'
  <2>1. row[i] = "queued"
    BY <1>4 DEF EvalTimesOut, DispatchOwnsRow
  <2>2. DispatchOwnsRow' /\ LockInv' /\ PassInv'
    BY <1>4, FailureKeepsPasses DEF EvalTimesOut
  <2>3. MarkerInv' /\ NothingLost' /\ OnceInv'
    BY <1>4, <2>1, StreamUnchanged DEF EvalTimesOut, TypeOK, MarkerInv, NothingLost, OnceInv
  <2> QED BY <1>1, <2>2, <2>3
<1>5. ASSUME NEW i \in Items, CommitAnswerLost(w, i) PROVE OutboxInv'
  <2>1. lock[i] = w /\ i \in marker
    BY <1>5 DEF CommitAnswerLost, DispatchOwnsRow, PassInv
  <2>2. DispatchOwnsRow' /\ LockInv' /\ PassInv'
    BY <1>5, <2>1, FailureKeepsPasses DEF CommitAnswerLost, TypeOK
  <2>3. MarkerInv' /\ NothingLost' /\ OnceInv'
    BY <1>5, <2>1, StreamUnchanged
    DEF CommitAnswerLost, TypeOK, MarkerInv, NothingLost, OnceInv
  <2> QED BY <1>1, <2>2, <2>3
<1> QED BY <1>2, <1>3, <1>4, <1>5 DEF FailureStep

LEMMA InvInit == Init => OutboxInv
  BY LateAssumption, NoWorkerAssumption
  DEF Init, OutboxInv, TypeOK, RowState, PassState, DispatchOwnsRow, LockInv, PassInv,
      MarkerInv, OnceInv, NothingLost, InStream, AtMostOnce, Current

LEMMA InvStep == OutboxInv /\ [Next]_vars => OutboxInv'
<1> SUFFICES ASSUME OutboxInv, [Next]_vars PROVE OutboxInv'
  OBVIOUS
<1>1. ASSUME NEW i \in Items, PublishItem(i) \/ LateScript(i) PROVE OutboxInv'
  BY <1>1, PublishItemStep, LateScriptStep
<1>2. ASSUME NEW w \in Workers, RecoverStep(w) PROVE OutboxInv'
  <2>1. CASE \E i \in Items : LockRow(w, i) \/ Eval(w, i) \/ Acknowledge(w, i)
    BY <2>1, LockRowStep, EvalStep, AcknowledgeStep
  <2>2. CASE \E i \in Items : SkipRow(w, i) \/ DeleteMarker(w, i) \/ DeleteRow(w, i)
    BY <2>2, QuietStep, DeleteMarkerStep, DeleteRowStep
  <2>3. CASE ListUndispatched(w) \/ ListAcknowledged(w) \/ EndPass(w)
    BY <2>3, QuietStep
  <2> QED BY <1>2, <2>1, <2>2, <2>3 DEF RecoverStep
<1>3. ASSUME NEW w \in Workers, FailureStep(w) PROVE OutboxInv'
  BY <1>3, FailureStepKeepsInv
<1>4. CASE UNCHANGED vars
  <2>1. TypeOK'
    BY TypeStep DEF OutboxInv
  <2>2. DispatchOwnsRow' /\ LockInv' /\ PassInv'
    BY <1>4 DEF vars, OutboxInv, DispatchOwnsRow, LockInv, PassInv, Current
  <2>3. MarkerInv' /\ NothingLost' /\ OnceInv'
    BY <1>4, StreamUnchanged DEF vars, scripts, OutboxInv, MarkerInv, NothingLost, OnceInv
  <2> QED BY <2>1, <2>2, <2>3 DEF OutboxInv
<1> QED BY <1>1, <1>2, <1>3, <1>4 DEF Next

\* The relation that pkg/itemdispatch keeps between the outbox rows, the row
\* locks, the Redis markers and the stream holds in every reachable state.
THEOREM OutboxInvariant == Spec => []OutboxInv
<1> QED BY InvInit, InvStep, PTL DEF Spec

\* Dispatch never records a publication that Redis did not make.
THEOREM OutboxNothingLost == Spec => []NothingLost
<1>1. OutboxInv => NothingLost
  BY DEF OutboxInv
<1> QED BY <1>1, OutboxInvariant, PTL

\* Two replicas never work on one row at a time: Dispatch holds the row lock, and
\* the row is still unacknowledged, from FOR UPDATE SKIP LOCKED to its commit.
THEOREM OutboxDispatchOwnsRow == Spec => []DispatchOwnsRow
<1>1. OutboxInv => DispatchOwnsRow
  BY DEF OutboxInv
<1> QED BY <1>1, OutboxInvariant, PTL

\* Until the SQL acknowledgement, late scripts, retries and rival replicas add
\* an item to the stream at most once.
THEOREM OutboxDeduplicated == Spec => []DeduplicatedUntilAck
<1>1. OutboxInv => DeduplicatedUntilAck
  BY DEF OutboxInv, OnceInv, DeduplicatedUntilAck
<1> QED BY <1>1, OutboxInvariant, PTL

\* A step that neither creates a row nor adds to the stream is a stutter of the
\* abstract publication; a script run for a row that is not acknowledged is at
\* most a delivery; and one that outlived its caller repeats what is left out.
LEMMA StutterStep ==
  ASSUME OutboxInv, stream' = stream, lapsed \subseteq lapsed',
         \A j \in Items : row'[j] = "absent" <=> row[j] = "absent",
         \A j \in Items : j \in lapsed' => j \in lapsed \/ row[j] = "queued"
  PROVE  UNCHANGED Publication!pubVars
<1>1. ASSUME NEW j \in Items PROVE Deliveries(j)' = Deliveries(j)
  <2>1. (InStream(j)' <=> InStream(j)) /\ (AtMostOnce(j)' <=> AtMostOnce(j))
    BY StreamUnchanged
  <2>2. j \in lapsed' => j \in lapsed \/ AtMostOnce(j)
    BY DEF OutboxInv, OnceInv
  <2> QED BY <2>1, <2>2 DEF Deliveries
<1> QED BY <1>1 DEF Publication!pubVars

LEMMA ScriptDelivers ==
  ASSUME OutboxInv, OutboxInv', NEW i \in Items, PublishScript(i), row' = row,
         lapsed' = lapsed, row[i] = "queued" \/ (i \in lapsed /\ row[i] # "absent")
  PROVE  [Publication!PubNext]_(Publication!pubVars)
<1>1. i \in marker => InStream(i)
  BY DEF OutboxInv, MarkerInv
<1>2. ASSUME NEW j \in Items, j # i PROVE Deliveries(j)' = Deliveries(j)
  <2>1. (InStream(j)' <=> InStream(j)) /\ (AtMostOnce(j)' <=> AtMostOnce(j))
    BY <1>1, <1>2, ScriptEffect DEF OutboxInv
  <2> QED BY <2>1 DEF Deliveries
<1>3. Deliveries(i)' = 1
  <2>1. InStream(i)'
    BY <1>1, ScriptEffect DEF OutboxInv
  <2>2. AtMostOnce(i)' \/ i \in lapsed'
    BY DEF OutboxInv, OnceInv
  <2> QED BY <2>1, <2>2 DEF Deliveries
<1>4. CASE InStream(i)
  <2>1. Deliveries(i) = 1
    BY <1>4 DEF OutboxInv, OnceInv, Deliveries
  <2> QED BY <1>2, <1>3, <2>1 DEF Publication!pubVars
<1>5. CASE ~InStream(i)
  <2>1. Deliveries(i) = 0
    BY <1>5 DEF Deliveries
  <2>2. [j \in Items |-> Deliveries(j)]' = [[j \in Items |-> Deliveries(j)] EXCEPT ![i] = 1]
    BY <1>2, <1>3
  <2>3. Publication!Deliver(i)
    BY <2>1, <2>2 DEF Publication!Deliver
  <2> QED BY <2>3 DEF Publication!PubNext
<1> QED BY <1>4, <1>5

LEMMA RefinementStep ==
  ASSUME OutboxInv, OutboxInv', [Next]_vars
  PROVE  [Publication!PubNext]_(Publication!pubVars)
<1> USE DEF scripts
<1>1. ASSUME NEW i \in Items, PublishItem(i)
      PROVE  [Publication!PubNext]_(Publication!pubVars)
  <2>1. \A j \in Items : Deliveries(j)' = Deliveries(j)
    BY <1>1, StreamUnchanged DEF PublishItem, Deliveries
  <2>2. Publication!Accept(i)
    BY <1>1, <2>1 DEF PublishItem, OutboxInv, TypeOK, Publication!Accept
  <2> QED BY <2>2 DEF Publication!PubNext
<1>2. ASSUME NEW i \in Items, LateScript(i)
      PROVE  [Publication!PubNext]_(Publication!pubVars)
  <2>1. i \in lapsed /\ row[i] # "absent"
    BY <1>2 DEF LateScript, OutboxInv, OnceInv, MarkerInv
  <2> QED BY <1>2, <2>1, ScriptDelivers DEF LateScript
<1>3. ASSUME NEW w \in Workers, RecoverStep(w)
      PROVE  [Publication!PubNext]_(Publication!pubVars)
  <2>1. ASSUME NEW i \in Items, Eval(w, i)
        PROVE  [Publication!PubNext]_(Publication!pubVars)
    BY <2>1, ScriptDelivers DEF Eval, OutboxInv, DispatchOwnsRow
  <2>2. ASSUME NEW i \in Items, LockRow(w, i) \/ SkipRow(w, i) \/ DeleteMarker(w, i)
        PROVE  UNCHANGED Publication!pubVars
    BY <2>2, StutterStep DEF LockRow, SkipRow, DeleteMarker
  <2>3. ASSUME NEW i \in Items, Acknowledge(w, i) \/ DeleteRow(w, i)
        PROVE  UNCHANGED Publication!pubVars
    <3>1. Acknowledge(w, i) => row[i] = "queued"
      BY DEF Acknowledge, OutboxInv, DispatchOwnsRow
    <3>2. \A j \in Items : row'[j] = "absent" <=> row[j] = "absent"
      BY <2>3, <3>1 DEF Acknowledge, DeleteRow, OutboxInv, TypeOK
    <3> QED BY <2>3, <3>2, StutterStep DEF Acknowledge, DeleteRow
  <2>4. CASE ListUndispatched(w) \/ ListAcknowledged(w) \/ EndPass(w)
    BY <2>4, StutterStep DEF ListUndispatched, ListAcknowledged, EndPass
  <2> QED BY <1>3, <2>1, <2>2, <2>3, <2>4 DEF RecoverStep
<1>4. ASSUME NEW w \in Workers, FailureStep(w)
      PROVE  [Publication!PubNext]_(Publication!pubVars)
  <2>1. ASSUME NEW i \in Items, EvalAnswerLost(w, i)
        PROVE  [Publication!PubNext]_(Publication!pubVars)
    BY <2>1, ScriptDelivers DEF EvalAnswerLost, OutboxInv, DispatchOwnsRow
  <2>2. ASSUME NEW i \in Items, EvalTimesOut(w, i)
        PROVE  UNCHANGED Publication!pubVars
    <3>1. row[i] = "queued"
      BY <2>2 DEF EvalTimesOut, OutboxInv, DispatchOwnsRow
    <3> QED BY <2>2, <3>1, StutterStep DEF EvalTimesOut
  <2>3. ASSUME NEW i \in Items, CommitAnswerLost(w, i)
        PROVE  UNCHANGED Publication!pubVars
    <3>1. row[i] = "queued"
      BY <2>3 DEF CommitAnswerLost, OutboxInv, DispatchOwnsRow
    <3>2. \A j \in Items : row'[j] = "absent" <=> row[j] = "absent"
      BY <2>3, <3>1 DEF CommitAnswerLost, OutboxInv, TypeOK
    <3> QED BY <2>3, <3>2, StutterStep DEF CommitAnswerLost
  <2>4. CASE Fail(w)
    BY <2>4, StutterStep DEF Fail
  <2> QED BY <1>4, <2>1, <2>2, <2>3, <2>4 DEF FailureStep
<1>5. CASE UNCHANGED vars
  BY <1>5, StutterStep DEF vars
<1> QED BY <1>1, <1>2, <1>3, <1>4, <1>5 DEF Next

\* The outbox implements exactly-once delivery of accepted publications
\* (ItemPublication), whatever fails and however many replicas run Recover;
\* only scripts that outlive the time-out of their caller repeat a delivery.
THEOREM OutboxImplementsPublication == Spec => ExactlyOnce
<1>1. Init => Publication!PubInit
  <2> SUFFICES ASSUME Init PROVE Publication!PubInit
    OBVIOUS
  <2>1. \A i \in Items : ~InStream(i)
    BY DEF Init, InStream
  <2> QED BY <2>1 DEF Init, Deliveries, Publication!PubInit
<1>2. OutboxInv /\ OutboxInv' /\ [Next]_vars => [Publication!PubNext]_(Publication!pubVars)
  BY RefinementStep
<1> QED BY <1>1, <1>2, OutboxInvariant, PTL DEF Spec, ExactlyOnce, Publication!PubSpec

\* What a step adds to the stream was not acknowledged, or a script that
\* outlived its caller added it.
LEMMA NotReplayed ==
  ASSUME OutboxInv, [Next]_vars, NEW i \in Items, row[i] \in {"acked", "retired"},
         stream' # stream, stream'[Len(stream')] = i
  PROVE  late[i] > 0
<1>1. PICK j \in Items : PublishScript(j) /\ (row[j] = "queued" \/ late[j] > 0)
  <2>1. ASSUME NEW j \in Items, LateScript(j) PROVE PublishScript(j) /\ late[j] > 0
    BY <2>1 DEF LateScript
  <2>2. ASSUME NEW w \in Workers, NEW j \in Items, Eval(w, j) \/ EvalAnswerLost(w, j)
        PROVE  PublishScript(j) /\ row[j] = "queued"
    BY <2>2 DEF Eval, EvalAnswerLost, OutboxInv, DispatchOwnsRow
  <2>3. ASSUME NEW w \in Workers, RecoverStep(w)
        PROVE  \E j \in Items : Eval(w, j)
    BY <2>3 DEF RecoverStep, ListUndispatched, ListAcknowledged, EndPass, LockRow, SkipRow,
                Acknowledge, DeleteMarker, DeleteRow
  <2>4. ASSUME NEW w \in Workers, FailureStep(w)
        PROVE  \E j \in Items : EvalAnswerLost(w, j)
    BY <2>4 DEF FailureStep, Fail, EvalTimesOut, CommitAnswerLost
  <2> QED BY <2>1, <2>2, <2>3, <2>4 DEF Next, PublishItem, vars
<1>2. stream' = Append(stream, j)
  BY <1>1 DEF PublishScript
<1>3. i = j
  BY <1>2 DEF OutboxInv, TypeOK
<1> QED BY <1>1, <1>3

\* Once PostgreSQL has the acknowledgement of an item, no pass, no rival replica
\* and no crash during the cleanup adds it to the stream again; only a script
\* whose caller gave up on it can.
THEOREM AcknowledgedNotReplayed == Spec => AckedNeverReplayed
<1>1. OutboxInv /\ [Next]_vars =>
        [\A i \in Items :
           row[i] \in {"acked", "retired"} /\ stream' # stream /\ stream'[Len(stream')] = i
             => late[i] > 0]_vars
  BY NotReplayed
<1> QED BY <1>1, OutboxInvariant, PTL DEF Spec, AckedNeverReplayed
=============================================================================
