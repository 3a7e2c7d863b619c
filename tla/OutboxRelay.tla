---------------------------- MODULE OutboxRelay ----------------------------
(***************************************************************************)
(* The transactional outbox: services store integration events in the      *)
(* outbox_events table inside a unit of work (gorm_outbox.Storage,         *)
(* outbox_queue, persistence/uow) and relay replicas poll the table,       *)
(* publish each row to JetStream and mark it (gorm_outbox.Relay).          *)
(*                                                                         *)
(* One step is one statement against the database, one publish, or one     *)
(* wait of the relay's loop.  The database (read committed, sequence for   *)
(* the row id) and JetStream (deduplication by MsgId inside a window) are  *)
(* modelled from how the relay uses them.                                  *)
(***************************************************************************)
EXTENDS Integers, FiniteSets

CONSTANTS
    Sessions,     \* database sessions that run units of work
    Relays,       \* relay replicas, one goroutine each
    MaxId,        \* bound: rows ever inserted
    BatchSize,    \* Relay.batchSize
    Malformed,    \* ids of rows whose envelope does not marshal
    MaxFaults,    \* bound: crashes, Stops, broker and database errors
    MaxExpiries   \* bound: times one message leaves the Duplicates window

ASSUME OutboxAssumption ==
    /\ MaxId \in Nat
    /\ BatchSize \in Nat \ {0}
    /\ Malformed \subseteq 1..MaxId
    /\ MaxFaults \in Nat
    /\ MaxExpiries \in Nat

Ids == 1..MaxId

VARIABLES
    \* outbox_events
    nextId,       \* the bigserial sequence
    staged,       \* staged[s]: rows inserted by the open transaction of s
    committed,    \* rows every session can see
    preds,        \* history: rows already committed when a row was inserted
    published,    \* rows with published_at set
    failed,       \* rows with failed_at set
    \* JetStream
    copies,       \* copies[i]: times the stream stored message i
    dedup,        \* messages inside the Duplicates window
    expired,      \* expired[i]: times i left the window
    inflight,     \* inflight[i]: publishes the client gave up on, still on the wire
    \* relay replicas
    pc,           \* where the loop of a replica is
    batch,        \* rows of the current drain still to be processed
    full,         \* the current drain listed batchSize rows
    cancelled,    \* the relay's lifetime context is cancelled
    seen,         \* history: kinds of error met in the current drain
    faults        \* faults spent

dbVars     == <<nextId, staged, committed, preds>>
rowVars    == <<published, failed>>
brokerVars == <<copies, dedup, expired, inflight>>
relayVars  == <<pc, batch, full, cancelled, seen>>
vars == <<dbVars, rowVars, brokerVars, relayVars, faults>>

PCs == {"new", "list", "row", "mark", "busy", "idle", "failed", "done", "down"}

TableType ==
    /\ nextId \in 1..(MaxId + 1)
    /\ staged \in [Sessions -> SUBSET Ids]
    /\ committed \in SUBSET Ids
    /\ preds \in [Ids -> SUBSET Ids]
    /\ published \in SUBSET Ids
    /\ failed \in SUBSET Ids

StreamType ==
    /\ copies \in [Ids -> Nat]
    /\ dedup \in SUBSET Ids
    /\ expired \in [Ids -> 0..MaxExpiries]
    /\ inflight \in [Ids -> Nat]

RelayType ==
    /\ pc \in [Relays -> PCs]
    /\ batch \in [Relays -> SUBSET Ids]
    /\ full \in [Relays -> BOOLEAN]
    /\ cancelled \in [Relays -> BOOLEAN]
    /\ seen \in [Relays -> SUBSET {"broker", "db"}]
    /\ faults \in 0..MaxFaults

\* The types of the outbox table, the stream and the replicas; a replica holds rows of a poll
\* exactly while its drain is processing them.
TypeOK ==
    /\ TableType
    /\ StreamType
    /\ RelayType
    /\ \A r \in Relays : batch[r] # {} <=> pc[r] \in {"row", "mark"}

Init ==
    /\ nextId = 1
    /\ staged = [s \in Sessions |-> {}]
    /\ committed = {}
    /\ preds = [i \in Ids |-> {}]
    /\ published = {}
    /\ failed = {}
    /\ copies = [i \in Ids |-> 0]
    /\ dedup = {}
    /\ expired = [i \in Ids |-> 0]
    /\ inflight = [i \in Ids |-> 0]
    /\ pc = [r \in Relays |-> "new"]
    /\ batch = [r \in Relays |-> {}]
    /\ full = [r \in Relays |-> FALSE]
    /\ cancelled = [r \in Relays |-> FALSE]
    /\ seen = [r \in Relays |-> {}]
    /\ faults = 0

Fault == faults < MaxFaults /\ faults' = faults + 1

Stored(i) == copies[i] > 0

-----------------------------------------------------------------------------
(* Units of work.                                                          *)

\* repository.create: the insert draws the next id, in the ambient transaction of session s.
create(s) ==
    /\ nextId <= MaxId
    /\ nextId' = nextId + 1
    /\ preds' = [preds EXCEPT ![nextId] = committed]
    /\ staged' = [staged EXCEPT ![s] = @ \union {nextId}]

StoreOutsideTx(s) ==
    /\ nextId <= MaxId
    /\ nextId' = nextId + 1
    /\ preds' = [preds EXCEPT ![nextId] = committed]
    /\ committed' = committed \union {nextId}
    /\ UNCHANGED <<staged, rowVars, brokerVars, relayVars, faults>>

\* Storage.Store (and OutboxQueue.Enqueue) in session s.  Without an ambient transaction gorm wraps
\* the insert in one of its own: this step followed by DoCommit.
Store(s) ==
    /\ create(s)
    /\ UNCHANGED <<committed, rowVars, brokerVars, relayVars, faults>>

\* unitOfWork.Do: fn returned nil and the transaction commits.
DoCommit(s) ==
    /\ staged[s] # {}
    /\ committed' = committed \union staged[s]
    /\ staged' = [staged EXCEPT ![s] = {}]
    /\ UNCHANGED <<nextId, preds, rowVars, brokerVars, relayVars, faults>>

\* unitOfWork.Do: fn returned an error (a failed Store among them) or panicked.
DoRollback(s) ==
    /\ staged[s] # {}
    /\ staged' = [staged EXCEPT ![s] = {}]
    /\ UNCHANGED <<nextId, committed, preds, rowVars, brokerVars, relayVars, faults>>

-----------------------------------------------------------------------------
(* The Duplicates window of the stream, and publishes still on the wire.   *)

\* The stream takes message i: stored once while i is in the Duplicates window.
Receive(i) ==
    /\ copies' = IF i \in dedup THEN copies ELSE [copies EXCEPT ![i] = @ + 1]
    /\ dedup' = dedup \union {i}

\* A publish the client stopped waiting for reaches the stream after all.
ArriveLate(i) ==
    /\ inflight[i] > 0
    /\ inflight' = [inflight EXCEPT ![i] = @ - 1]
    /\ Receive(i)
    /\ UNCHANGED <<expired, dbVars, rowVars, relayVars, faults>>

\* ... or never does.
DropLate(i) ==
    /\ inflight[i] > 0
    /\ inflight' = [inflight EXCEPT ![i] = @ - 1]
    /\ UNCHANGED <<copies, dedup, expired, dbVars, rowVars, relayVars, faults>>

\* The Duplicates window of message i closes.
Expire(i) ==
    /\ i \in dedup
    /\ expired[i] < MaxExpiries
    /\ dedup' = dedup \ {i}
    /\ expired' = [expired EXCEPT ![i] = @ + 1]
    /\ UNCHANGED <<copies, inflight, dbVars, rowVars, relayVars, faults>>

-----------------------------------------------------------------------------
(* The relay's goroutine.                                                  *)

Unpublished == committed \ (published \union failed)

\* Rows a poll returns: the first BatchSize of them in id order.
listUnpublished ==
    {i \in Unpublished : Cardinality({j \in Unpublished : j < i}) < BatchSize}

\* Row i is the next one the drain of r processes.
Current(r, i) == i \in batch[r] /\ \A j \in batch[r] : i <= j

\* The drain is done with row i: the next row, or the drainResult of the finished batch.
NextRow(r, i) ==
    /\ batch' = [batch EXCEPT ![r] = @ \ {i}]
    /\ pc' = [pc EXCEPT ![r] = CASE batch[r] # {i} -> "row"
                                 [] batch[r] = {i} /\ full[r] -> "busy"
                                 [] OTHER -> "idle"]
    /\ UNCHANGED <<full, cancelled>>

FailKeepsBatch(r, kind) ==
    /\ pc' = [pc EXCEPT ![r] = "failed"]
    /\ seen' = [seen EXCEPT ![r] = @ \union {kind}]
    /\ UNCHANGED <<batch, full, cancelled>>

\* The drain returns drainFailed.
Fail(r, kind) ==
    /\ pc' = [pc EXCEPT ![r] = "failed"]
    /\ batch' = [batch EXCEPT ![r] = {}]
    /\ seen' = [seen EXCEPT ![r] = @ \union {kind}]
    /\ UNCHANGED <<full, cancelled>>

Start(r) ==
    /\ pc[r] = "new"
    /\ pc' = [pc EXCEPT ![r] = "list"]
    /\ UNCHANGED <<batch, full, cancelled, seen, dbVars, rowVars, brokerVars, faults>>

\* Stop cancels the lifetime context; it then only waits for the loop to end.
Stop(r) ==
    /\ pc[r] \notin {"done", "down"}
    /\ ~cancelled[r]
    /\ Fault
    /\ cancelled' = [cancelled EXCEPT ![r] = TRUE]
    /\ UNCHANGED <<pc, batch, full, seen, dbVars, rowVars, brokerVars>>

\* drain, the poll: rows, an empty outbox, or an error (always one under a cancelled context).
DrainList(r) ==
    /\ pc[r] = "list"
    /\ ~cancelled[r]
    /\ listUnpublished # {}
    /\ batch' = [batch EXCEPT ![r] = listUnpublished]
    /\ full' = [full EXCEPT ![r] = Cardinality(listUnpublished) = BatchSize]
    /\ pc' = [pc EXCEPT ![r] = "row"]
    /\ seen' = [seen EXCEPT ![r] = {}]
    /\ UNCHANGED <<cancelled, dbVars, rowVars, brokerVars, faults>>

DrainEmpty(r) ==
    /\ pc[r] = "list"
    /\ ~cancelled[r]
    /\ listUnpublished = {}
    /\ pc' = [pc EXCEPT ![r] = "idle"]
    /\ seen' = [seen EXCEPT ![r] = {}]
    /\ UNCHANGED <<batch, full, cancelled, dbVars, rowVars, brokerVars, faults>>

DrainListFails(r) ==
    /\ pc[r] = "list"
    /\ IF cancelled[r] THEN UNCHANGED faults ELSE Fault
    /\ Fail(r, "db")
    /\ UNCHANGED <<dbVars, rowVars, brokerVars>>

QuarantineStopsBatch(r, i) ==
    /\ pc[r] = "row"
    /\ Current(r, i)
    /\ i \in Malformed
    /\ ~cancelled[r]
    /\ Fail(r, "broker")
    /\ UNCHANGED <<rowVars, dbVars, brokerVars, faults>>

\* drain, a row whose envelope does not marshal: quarantine it and go on.
Quarantine(r, i) ==
    /\ pc[r] = "row"
    /\ Current(r, i)
    /\ i \in Malformed
    /\ ~cancelled[r]
    /\ failed' = failed \union {i}
    /\ NextRow(r, i)
    /\ UNCHANGED <<seen, published, dbVars, brokerVars, faults>>

\* The quarantine error is only logged; the update may have been applied all the same.
QuarantineFails(r, i) ==
    /\ pc[r] = "row"
    /\ Current(r, i)
    /\ i \in Malformed
    /\ \/ cancelled[r] /\ UNCHANGED <<faults, failed>>
       \/ ~cancelled[r] /\ Fault /\ failed' \in {failed, failed \union {i}}
    /\ NextRow(r, i)
    /\ seen' = [seen EXCEPT ![r] = @ \union {"db"}]
    /\ UNCHANGED <<published, dbVars, brokerVars>>

PublishWithoutMsgId(r, i) ==
    /\ pc[r] = "row"
    /\ Current(r, i)
    /\ i \notin Malformed
    /\ copies' = [copies EXCEPT ![i] = @ + 1]
    /\ dedup' = dedup \union {i}
    /\ pc' = [pc EXCEPT ![r] = "mark"]
    /\ UNCHANGED <<expired, inflight, batch, full, cancelled, seen, dbVars, rowVars, faults>>

\* drain, js.Publish: the stream has acknowledged row i, as new or as a duplicate.
Publish(r, i) ==
    /\ pc[r] = "row"
    /\ Current(r, i)
    /\ i \notin Malformed
    /\ Receive(i)
    /\ pc' = [pc EXCEPT ![r] = "mark"]
    /\ UNCHANGED <<expired, inflight, batch, full, cancelled, seen, dbVars, rowVars, faults>>

PublishErrorIgnored(r, i) ==
    /\ pc[r] = "row"
    /\ Current(r, i)
    /\ i \notin Malformed
    /\ Fault
    /\ inflight' \in {inflight, [inflight EXCEPT ![i] = @ + 1]}
    /\ pc' = [pc EXCEPT ![r] = "mark"]
    /\ UNCHANGED <<copies, dedup, expired, batch, full, cancelled, seen, dbVars, rowVars>>

PublishErrorContinues(r, i) ==
    /\ pc[r] = "row"
    /\ Current(r, i)
    /\ i \notin Malformed
    /\ Fault
    /\ inflight' \in {inflight, [inflight EXCEPT ![i] = @ + 1]}
    /\ NextRow(r, i)
    /\ UNCHANGED <<copies, dedup, expired, seen, dbVars, rowVars>>

\* drain, js.Publish fails, or times out with the message still on the wire: the batch stops.
PublishFails(r, i) ==
    /\ pc[r] = "row"
    /\ Current(r, i)
    /\ i \notin Malformed
    /\ Fault
    /\ inflight' \in {inflight, [inflight EXCEPT ![i] = @ + 1]}
    /\ Fail(r, "broker")
    /\ UNCHANGED <<copies, dedup, expired, dbVars, rowVars>>

\* drain, markPublished.
MarkPublished(r, i) ==
    /\ pc[r] = "mark"
    /\ Current(r, i)
    /\ ~cancelled[r]
    /\ published' = published \union {i}
    /\ NextRow(r, i)
    /\ UNCHANGED <<seen, failed, dbVars, brokerVars, faults>>

\* The error is only logged and the drain continues; the update may have been applied.
MarkFails(r, i) ==
    /\ pc[r] = "mark"
    /\ Current(r, i)
    /\ \/ cancelled[r] /\ UNCHANGED <<faults, published>>
       \/ ~cancelled[r] /\ Fault /\ published' \in {published, published \union {i}}
    /\ NextRow(r, i)
    /\ seen' = [seen EXCEPT ![r] = @ \union {"db"}]
    /\ UNCHANGED <<failed, dbVars, brokerVars>>

\* loop: the wait after a drain ends (none after a full batch).
Wake(r) ==
    /\ pc[r] \in {"busy", "idle", "failed"}
    /\ ~cancelled[r]
    /\ pc' = [pc EXCEPT ![r] = "list"]
    /\ UNCHANGED <<batch, full, cancelled, seen, dbVars, rowVars, brokerVars, faults>>

QuitOnlyWhenIdle(r) ==
    /\ pc[r] = "idle"
    /\ cancelled[r]
    /\ pc' = [pc EXCEPT ![r] = "done"]
    /\ UNCHANGED <<batch, full, cancelled, seen, dbVars, rowVars, brokerVars, faults>>

\* loop: every wait ends on the cancelled context, and the loop closes done.
Quit(r) ==
    /\ pc[r] \in {"busy", "idle", "failed"}
    /\ cancelled[r]
    /\ pc' = [pc EXCEPT ![r] = "done"]
    /\ UNCHANGED <<batch, full, cancelled, seen, dbVars, rowVars, brokerVars, faults>>

\* The process dies between any two steps.
Crash(r) ==
    /\ pc[r] \notin {"done", "down"}
    /\ Fault
    /\ pc' = [pc EXCEPT ![r] = "down"]
    /\ batch' = [batch EXCEPT ![r] = {}]
    /\ UNCHANGED <<full, cancelled, seen, dbVars, rowVars, brokerVars>>

\* A new process builds a new relay, after a crash or once Stop has returned.
NewRelay(r) ==
    /\ pc[r] \in {"done", "down"} \/ (pc[r] = "new" /\ cancelled[r])
    /\ pc' = [pc EXCEPT ![r] = "new"]
    /\ batch' = [batch EXCEPT ![r] = {}]
    /\ full' = [full EXCEPT ![r] = FALSE]
    /\ cancelled' = [cancelled EXCEPT ![r] = FALSE]
    /\ seen' = [seen EXCEPT ![r] = {}]
    /\ UNCHANGED <<dbVars, rowVars, brokerVars, faults>>

-----------------------------------------------------------------------------
DB(s) == Store(s) \/ DoCommit(s) \/ DoRollback(s)

Broker(i) == ArriveLate(i) \/ DropLate(i) \/ Expire(i)

Row(r, i) ==
    \/ Quarantine(r, i)
    \/ QuarantineFails(r, i)
    \/ Publish(r, i)
    \/ PublishFails(r, i)
    \/ MarkPublished(r, i)
    \/ MarkFails(r, i)

\* The goroutine of replica r takes a step.
Loop(r) ==
    \/ DrainList(r)
    \/ DrainEmpty(r)
    \/ DrainListFails(r)
    \/ \E i \in Ids : Row(r, i)
    \/ Wake(r)
    \/ Quit(r)

Next ==
    \/ \E s \in Sessions : DB(s)
    \/ \E i \in Ids : Broker(i)
    \/ \E r \in Relays : Loop(r) \/ Start(r) \/ Stop(r) \/ Crash(r) \/ NewRelay(r)

Spec == Init /\ [][Next]_vars

\* The goroutine keeps running, and the process is started again after it stopped or died.
Fairness ==
    \A r \in Relays : WF_vars(Loop(r)) /\ WF_vars(Start(r)) /\ WF_vars(NewRelay(r))

FairSpec == Spec /\ Fairness

-----------------------------------------------------------------------------
(* Properties.                                                             *)

\* A row leaves the poll (published_at or failed_at set) only when the stream holds its message or
\* when it can never be sent: no crash, lost acknowledgement or failed update loses an event.
NoEventLost ==
    \A i \in published \union failed : Stored(i) \/ i \in Malformed

\* Causal order: when a row was inserted after others had been committed, its message reaches the
\* stream, or the wire, only after theirs, through every replica, retry and late publish.
CausalOrder ==
    \A j \in Ids : (Stored(j) \/ inflight[j] > 0) =>
        \A i \in preds[j] : Stored(i) \/ i \in Malformed

\* The MsgId of a publish bounds the duplicates: a message is stored at most once per closing of
\* its Duplicates window plus once, however often the relays publish it.
CopyBound == \A i \in Ids : copies[i] <= 1 + expired[i]

-----------------------------------------------------------------------------
(* The inductive invariant behind the three safety properties.             *)

\* Ids are drawn in order; staged rows belong to one session and are not visible yet; what a row
\* follows was committed before it and has a smaller id.
TableInv ==
    /\ \A i \in committed : i < nextId
    /\ \A s \in Sessions : \A i \in staged[s] : i < nextId /\ i \notin committed
    /\ \A s, t \in Sessions : s # t => staged[s] \intersect staged[t] = {}
    /\ \A j \in Ids : \A i \in preds[j] : i \in committed /\ i < j

\* Only committed, well-formed rows are sent, and only those sent are marked.
SentInv ==
    /\ \A i \in Ids : (Stored(i) \/ inflight[i] > 0) => i \in committed \ Malformed
    /\ published \subseteq {i \in committed : Stored(i)}
    /\ failed \subseteq committed \intersect Malformed

\* What a row of a batch follows is in the stream, unsendable, or earlier in the same batch.
BatchInv ==
    \A r \in Relays :
        /\ batch[r] \subseteq committed
        /\ \A j \in batch[r] : \A i \in preds[j] :
              Stored(i) \/ i \in Malformed \/ i \in batch[r]
        /\ pc[r] = "mark" => \A i \in batch[r] : Current(r, i) => Stored(i)

\* A message in the Duplicates window is stored, and a copy beyond it is paid for by an expiry.
WindowInv ==
    \A i \in Ids :
        /\ i \in dedup => Stored(i) /\ copies[i] <= expired[i] + 1
        /\ i \notin dedup => copies[i] <= expired[i]

\* Holds initially, is preserved by every step, and implies the safety properties.
IInv == TypeOK /\ TableInv /\ SentInv /\ BatchInv /\ CausalOrder /\ WindowInv

-----------------------------------------------------------------------------
\* relay.go:52 says a broker or database error is followed by the error backoff.
DbErrorsBackOff == \A r \in Relays : pc[r] \in {"busy", "idle"} => "db" \notin seen[r]

\* A stopped relay's loop ends (or its process dies), in the middle of a batch too.
StopTerminates ==
    \A r \in Relays : (cancelled[r] /\ pc[r] # "new") ~> pc[r] \in {"done", "down"}

\* The relay implements the outbox contract.
Contract == INSTANCE OutboxContract WITH
    staged <- UNION {staged[s] : s \in Sessions},
    delivered <- {i \in Ids : Stored(i)},
    retired <- published \union failed

\* Every step of the relay is a step the contract allows.
ImplementsContract == Contract!Spec

\* The contract's promise: what was committed is delivered, unless unsendable, and retired.
ContractSettled == Contract!Settled
=============================================================================
