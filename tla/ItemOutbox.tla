----------------------------- MODULE ItemOutbox -----------------------------
(***************************************************************************)
(* pkg/itemdispatch: the durable bridge from accepted publications to the  *)
(* Redis stream that the item pipeline reads.                              *)
(*                                                                         *)
(* PublishItem writes an outbox row in the transaction that creates the    *)
(* item.  Every pipeline replica runs Run, a loop of Recover passes; a     *)
(* pass lists undispatched rows, dispatches each one under a row lock      *)
(* (script in Redis, then the acknowledgement in PostgreSQL) and then      *)
(* retires the acknowledged rows (marker in Redis, then the row).          *)
(*                                                                         *)
(* PostgreSQL and Redis fail independently: any call may fail before it    *)
(* takes effect, after it took effect with its answer lost, or (Redis      *)
(* only) take effect after the caller gave up on it.                       *)
(***************************************************************************)
EXTENDS Naturals, Sequences, FiniteSets

CONSTANTS
  Items,    \* item ids; ordered, as Recover lists rows by item_id
  Workers,  \* pipeline replicas, each running Run
  Batch,    \* the LIMIT of a listing (100 in the code)
  MaxLate,  \* how many scripts may run after their caller timed out
  NoWorker  \* the owner of an unlocked row

ASSUME ItemsAssumption == Items \subseteq Nat
ASSUME BatchAssumption == Batch \in Nat \ {0}
ASSUME LateAssumption == MaxLate \in Nat
ASSUME NoWorkerAssumption == NoWorker \notin Workers

VARIABLES
  row,     \* row[i]: item_publish_outbox row of item i
  lock,    \* lock[i]: the replica whose transaction holds the row lock
  marker,  \* items with a marker key item:publish:dispatch:<id> in Redis
  stream,  \* item ids added to stream:item:publish, oldest first
  late,    \* late[i]: scripts for i sent by callers that gave up, not run yet
  lapsed,  \* items for which a caller ever left a script behind
  pc,      \* pc[w]: where replica w is in its Recover pass
  rows     \* rows[w]: the listed rows the pass has still to go through

scripts == <<late, lapsed>>
vars == <<row, lock, marker, stream, scripts, pc, rows>>

RowState == {"absent", "queued", "acked", "retired"}
PassState == {"idle", "dispatch", "eval", "ack", "clean", "delete"}

TypeOK ==
  /\ row \in [Items -> RowState]
  /\ lock \in [Items -> Workers \cup {NoWorker}]
  /\ marker \subseteq Items
  /\ stream \in Seq(Items)
  /\ late \in [Items -> 0..MaxLate]
  /\ lapsed \subseteq Items
  /\ pc \in [Workers -> PassState]
  /\ rows \in [Workers -> SUBSET Items]

Init ==
  /\ row = [i \in Items |-> "absent"]
  /\ lock = [i \in Items |-> NoWorker]
  /\ marker = {}
  /\ stream = << >>
  /\ late = [i \in Items |-> 0] /\ lapsed = {}
  /\ pc = [w \in Workers |-> "idle"]
  /\ rows = [w \in Workers |-> {}]

-----------------------------------------------------------------------------
(* Publication *)

\* PublishItem's transaction commits: item, processed row, stats and outbox
\* row appear together.  A transaction that fails leaves nothing.
PublishItem(i) ==
  /\ row[i] = "absent"
  /\ row' = [row EXCEPT ![i] = "queued"]
  /\ UNCHANGED <<lock, marker, stream, scripts, pc, rows>>

-----------------------------------------------------------------------------
(* The Redis script: add once per marker. *)

\* Seeded fault: the marker is written and not consulted.
PublishScriptAlwaysAdds(i) ==
  /\ stream' = Append(stream, i)
  /\ marker' = marker \cup {i}

PublishScript(i) ==
  \/ /\ i \in marker
     /\ UNCHANGED <<marker, stream>>
  \/ /\ i \notin marker
     /\ stream' = Append(stream, i)
     /\ marker' = marker \cup {i}

-----------------------------------------------------------------------------
(* One Recover pass *)

\* Seeded fault: an off-by-one in the limit.
ListingOffByOne(st) ==
  {i \in Items : row[i] = st /\ Cardinality({j \in Items : row[j] = st /\ j <= i}) < Batch}

\* The Batch smallest rows in state st: ORDER BY item_id LIMIT Batch.
Listing(st) ==
  {i \in Items : row[i] = st /\ Cardinality({j \in Items : row[j] = st /\ j < i}) < Batch}

Current(w, i) == i \in rows[w] /\ \A j \in rows[w] : i <= j

\* Recover's first query.
ListUndispatched(w) ==
  /\ pc[w] = "idle"
  /\ pc' = [pc EXCEPT ![w] = "dispatch"]
  /\ rows' = [rows EXCEPT ![w] = Listing("queued")]
  /\ UNCHANGED <<row, lock, marker, stream, scripts>>

\* Seeded faults: the row is read without a lock; an acknowledged row is taken
\* too; the acknowledgement comes before the script.
LockRowUnlocked(w, i) ==
  /\ pc[w] = "dispatch" /\ Current(w, i)
  /\ row[i] = "queued"
  /\ lock' = [lock EXCEPT ![i] = w]
  /\ pc' = [pc EXCEPT ![w] = "eval"]
  /\ UNCHANGED <<row, marker, stream, scripts, rows>>

LockRowAcknowledged(w, i) ==
  /\ pc[w] = "dispatch" /\ Current(w, i)
  /\ row[i] \in {"queued", "acked"} /\ lock[i] = NoWorker
  /\ lock' = [lock EXCEPT ![i] = w]
  /\ pc' = [pc EXCEPT ![w] = "eval"]
  /\ UNCHANGED <<row, marker, stream, scripts, rows>>

LockRowThenAcknowledge(w, i) ==
  /\ pc[w] = "dispatch" /\ Current(w, i)
  /\ row[i] = "queued" /\ lock[i] = NoWorker
  /\ lock' = [lock EXCEPT ![i] = w]
  /\ pc' = [pc EXCEPT ![w] = "ack"]
  /\ UNCHANGED <<row, marker, stream, scripts, rows>>

\* Dispatch: SELECT ... FOR UPDATE SKIP LOCKED finds the row.
LockRow(w, i) ==
  /\ pc[w] = "dispatch" /\ Current(w, i)
  /\ row[i] = "queued" /\ lock[i] = NoWorker
  /\ lock' = [lock EXCEPT ![i] = w]
  /\ pc' = [pc EXCEPT ![w] = "eval"]
  /\ UNCHANGED <<row, marker, stream, scripts, rows>>

\* Dispatch: the row is locked, acknowledged or gone; ErrRecordNotFound is nil.
SkipRow(w, i) ==
  /\ pc[w] = "dispatch" /\ Current(w, i)
  /\ row[i] # "queued" \/ lock[i] # NoWorker
  /\ rows' = [rows EXCEPT ![w] = @ \ {i}]
  /\ UNCHANGED <<row, lock, marker, stream, scripts, pc>>

\* Dispatch: the script answered in time.
Eval(w, i) ==
  /\ pc[w] = "eval" /\ Current(w, i)
  /\ PublishScript(i)
  /\ pc' = [pc EXCEPT ![w] = "ack"]
  /\ UNCHANGED <<row, lock, scripts, rows>>

\* Dispatch: dispatched_at is set and the transaction commits.
Acknowledge(w, i) ==
  /\ pc[w] = "ack" /\ Current(w, i)
  /\ row' = [row EXCEPT ![i] = "acked"]
  /\ lock' = [lock EXCEPT ![i] = NoWorker]
  /\ rows' = [rows EXCEPT ![w] = @ \ {i}]
  /\ pc' = [pc EXCEPT ![w] = "dispatch"]
  /\ UNCHANGED <<marker, stream, scripts>>

\* Recover's second query, once the first list is through.
ListAcknowledged(w) ==
  /\ pc[w] = "dispatch" /\ rows[w] = {}
  /\ pc' = [pc EXCEPT ![w] = "clean"]
  /\ rows' = [rows EXCEPT ![w] = Listing("acked")]
  /\ UNCHANGED <<row, lock, marker, stream, scripts>>

DeleteMarker(w, i) ==
  /\ pc[w] = "clean" /\ Current(w, i)
  /\ marker' = marker \ {i}
  /\ pc' = [pc EXCEPT ![w] = "delete"]
  /\ UNCHANGED <<row, lock, stream, scripts, rows>>

\* Seeded fault: the marker goes, the row stays.
DeleteRowForgotten(w, i) ==
  /\ pc[w] = "delete" /\ Current(w, i)
  /\ rows' = [rows EXCEPT ![w] = @ \ {i}]
  /\ pc' = [pc EXCEPT ![w] = "clean"]
  /\ UNCHANGED <<row, lock, marker, stream, scripts>>

\* DELETE ... WHERE dispatched_at IS NOT NULL: a no-op if another replica did it.
DeleteRow(w, i) ==
  /\ pc[w] = "delete" /\ Current(w, i)
  /\ row' = IF row[i] = "acked" THEN [row EXCEPT ![i] = "retired"] ELSE row
  /\ rows' = [rows EXCEPT ![w] = @ \ {i}]
  /\ pc' = [pc EXCEPT ![w] = "clean"]
  /\ UNCHANGED <<lock, marker, stream, scripts>>

EndPass(w) ==
  /\ pc[w] = "clean" /\ rows[w] = {}
  /\ pc' = [pc EXCEPT ![w] = "idle"]
  /\ UNCHANGED <<row, lock, marker, stream, scripts, rows>>

-----------------------------------------------------------------------------
(* Failures: a pass ends at its first error; the ticker starts the next. *)

Release(w) == [i \in Items |-> IF lock[i] = w THEN NoWorker ELSE lock[i]]

EndsInError(w) ==
  /\ pc' = [pc EXCEPT ![w] = "idle"]
  /\ rows' = [rows EXCEPT ![w] = {}]
  /\ lock' = Release(w)

\* A call fails before it took effect, or the replica stops and restarts: the
\* open transaction rolls back.
Fail(w) ==
  /\ pc[w] # "idle"
  /\ EndsInError(w)
  /\ UNCHANGED <<row, marker, stream, scripts>>

\* The script ran and its answer was lost.
EvalAnswerLost(w, i) ==
  /\ pc[w] = "eval" /\ Current(w, i)
  /\ PublishScript(i)
  /\ EndsInError(w)
  /\ UNCHANGED <<row, scripts>>

\* The two-second budget ran out with the script still on its way to Redis.
EvalTimesOut(w, i) ==
  /\ pc[w] = "eval" /\ Current(w, i)
  /\ late[i] < MaxLate
  /\ late' = [late EXCEPT ![i] = @ + 1]
  /\ lapsed' = lapsed \cup {i}
  /\ EndsInError(w)
  /\ UNCHANGED <<row, marker, stream>>

LateScript(i) ==
  /\ late[i] > 0
  /\ late' = [late EXCEPT ![i] = @ - 1]
  /\ PublishScript(i)
  /\ UNCHANGED <<row, lock, lapsed, pc, rows>>

\* COMMIT took effect and its answer was lost.
CommitAnswerLost(w, i) ==
  /\ pc[w] = "ack" /\ Current(w, i)
  /\ row' = [row EXCEPT ![i] = "acked"]
  /\ EndsInError(w)
  /\ UNCHANGED <<marker, stream, scripts>>

-----------------------------------------------------------------------------

RecoverStep(w) ==
  \/ ListUndispatched(w)
  \/ ListAcknowledged(w)
  \/ EndPass(w)
  \/ \E i \in Items :
       \/ LockRow(w, i)
       \/ SkipRow(w, i)
       \/ Eval(w, i)
       \/ Acknowledge(w, i)
       \/ DeleteMarker(w, i)
       \/ DeleteRow(w, i)

FailureStep(w) ==
  \/ Fail(w)
  \/ \E i \in Items :
       \/ EvalAnswerLost(w, i)
       \/ EvalTimesOut(w, i)
       \/ CommitAnswerLost(w, i)

Next ==
  \/ \E i \in Items : PublishItem(i) \/ LateScript(i)
  \/ \E w \in Workers : RecoverStep(w) \/ FailureStep(w)

Spec == Init /\ [][Next]_vars

-----------------------------------------------------------------------------
(* Properties *)

InStream(i) == \E n \in 1..Len(stream) : stream[n] = i

AtMostOnce(i) ==
  \A m, n \in 1..Len(stream) : stream[m] = i /\ stream[n] = i => m = n

\* An acknowledged item is in the stream: PostgreSQL never records a dispatch
\* that Redis did not make, however calls fail (Dispatch's order of effects).
NothingLost ==
  \A i \in Items : row[i] \in {"acked", "retired"} => InStream(i)

\* Until PostgreSQL confirms the dispatch, retries after uncertain outcomes,
\* scripts that run late and rival replicas add an item once ("Keep uncertain
\* Redis outcomes deduplicated until PostgreSQL confirms dispatch").
DeduplicatedUntilAck ==
  \A i \in Items : row[i] = "queued" => AtMostOnce(i)

\* One replica at a time dispatches a row, and only a row not yet acknowledged.
DispatchOwnsRow ==
  \A w \in Workers, i \in Items :
    pc[w] \in {"eval", "ack"} /\ Current(w, i) => lock[i] = w /\ row[i] = "queued"

\* The parts of the inductive invariant.  A row lock is held by a transaction in
\* its script or acknowledgement step only; a pass acknowledges with the marker
\* in place, goes through rows that exist, and cleans acknowledged rows only.
LockInv ==
  \A w \in Workers, i \in Items :
    lock[i] = w => pc[w] \in {"eval", "ack"} /\ Current(w, i)

PassInv ==
  \A w \in Workers, i \in Items :
    /\ pc[w] = "ack" /\ Current(w, i) => i \in marker
    /\ i \in rows[w] => row[i] # "absent"
    /\ i \in rows[w] /\ pc[w] \in {"clean", "delete"} => row[i] # "queued"

\* The marker stands for the stream entry until the row is acknowledged.
MarkerInv ==
  \A i \in Items :
    /\ i \in marker => InStream(i)
    /\ row[i] = "queued" /\ InStream(i) => i \in marker
    /\ row[i] = "absent" => ~InStream(i) /\ late[i] = 0

OnceInv ==
  \A i \in Items :
    /\ row[i] = "queued" \/ i \notin lapsed => AtMostOnce(i)
    /\ late[i] > 0 => i \in lapsed

\* The inductive invariant of the outbox: what every interleaving of replicas,
\* failures and late scripts keeps between PostgreSQL and Redis.
OutboxInv ==
  TypeOK /\ DispatchOwnsRow /\ LockInv /\ PassInv /\ MarkerInv /\ OnceInv /\ NothingLost

\* Once acknowledged, an item is added again by no pass and no crash during
\* cleanup; only a script its caller gave up on could still do so.
AckedNeverReplayed ==
  [][\A i \in Items :
       row[i] \in {"acked", "retired"} /\ stream' # stream /\ stream'[Len(stream')] = i
         => late[i] > 0]_vars

\* How often item i was handed over, with repetitions by scripts that outlived
\* their caller left out.
Deliveries(i) ==
  IF ~InStream(i) THEN 0 ELSE IF AtMostOnce(i) \/ i \in lapsed THEN 1 ELSE 2

\* The outbox implements exactly-once delivery: every accepted item at most once,
\* but for scripts that Redis ran after their caller had timed out.
Publication == INSTANCE ItemPublication WITH
  accepted <- {i \in Items : row[i] # "absent"},
  delivered <- [i \in Items |-> Deliveries(i)]

ExactlyOnce == Publication!PubSpec

\* Every call a replica makes is bounded by a context and its ticker starts a
\* new pass after each pass, so no replica rests for ever.  PostgreSQL and Redis
\* are shared: a call that the replicas repeat for ever does not fail for ever.
Fairness ==
  /\ \A w \in Workers : WF_vars(RecoverStep(w) \/ FailureStep(w))
  /\ SF_vars(\E w \in Workers, i \in Items : LockRow(w, i))
  /\ SF_vars(\E w \in Workers, i \in Items : Eval(w, i))
  /\ SF_vars(\E w \in Workers, i \in Items : Acknowledge(w, i))
  /\ SF_vars(\E w \in Workers : ListAcknowledged(w))
  /\ SF_vars(\E w \in Workers, i \in Items : DeleteMarker(w, i))
  /\ SF_vars(\E w \in Workers, i \in Items : DeleteRow(w, i))

FairSpec == Spec /\ Fairness

\* Every accepted publication reaches the stream (Run never gives a row up).
EventuallyDelivered == \A i \in Items : row[i] = "queued" ~> InStream(i)

\* Every dispatched item's row and marker are retired: neither store grows for
\* ever ("Bound the Redis marker lifetime only after the SQL acknowledgement").
\* Only a script that outlived its caller can set the marker again later on.
EventuallyRetired ==
  \A i \in Items : i \in marker ~> (row[i] = "retired" /\ (i \notin marker \/ i \in lapsed))
=============================================================================
