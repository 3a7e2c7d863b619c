------------------------- MODULE OutboxRelayProofs -------------------------
(***************************************************************************)
(* Proofs about OutboxRelay, for any number of sessions, replicas, rows,   *)
(* faults and window expiries.                                             *)
(***************************************************************************)
EXTENDS OutboxRelay, FiniteSetTheorems, TLAPS

USE DEF Ids

-----------------------------------------------------------------------------
(* Type correctness.                                                       *)

\* The types hold initially.
LEMMA TypeInit == Init => TypeOK
  BY OutboxAssumption DEF Init, TypeOK, TableType, StreamType, RelayType, PCs

\* Rows returned by a poll are visible rows.
LEMMA ListedVisible == listUnpublished \subseteq committed \ (published \union failed)
  BY DEF listUnpublished, Unpublished

\* Moving on to the next row keeps the types of the replicas.
LEMMA NextRowType ==
  ASSUME TypeOK, NEW r \in Relays, NEW i \in Ids, Current(r, i), NextRow(r, i),
         seen' \in [Relays -> SUBSET {"broker", "db"}], faults' \in 0..MaxFaults
  PROVE  RelayType' /\ \A q \in Relays : batch'[q] # {} <=> pc'[q] \in {"row", "mark"}
  <1> DEFINE e == CASE batch[r] # {i} -> "row"
                    [] batch[r] = {i} /\ full[r] -> "busy"
                    [] OTHER -> "idle"
  <1>1. /\ pc' = [pc EXCEPT ![r] = e]
        /\ e \in {"row", "busy", "idle"}
        /\ e = "row" <=> batch[r] # {i}
    BY DEF NextRow, TypeOK, RelayType
  <1> HIDE DEF e
  <1>2. batch' = [batch EXCEPT ![r] = batch[r] \ {i}] /\ full' = full /\ cancelled' = cancelled
    BY DEF NextRow
  <1>3. RelayType'
    BY <1>1, <1>2 DEF TypeOK, RelayType, PCs
  <1>4. ASSUME NEW q \in Relays PROVE batch'[q] # {} <=> pc'[q] \in {"row", "mark"}
    <2>1. CASE q = r
      <3>1. pc'[q] = e /\ batch'[q] = batch[r] \ {i} /\ i \in batch[r]
        BY <1>1, <1>2, <2>1 DEF TypeOK, RelayType, Current
      <3> QED BY <3>1, <1>1
    <2>2. CASE q # r
      <3>1. pc'[q] = pc[q] /\ batch'[q] = batch[q]
        BY <1>1, <1>2, <2>2 DEF TypeOK, RelayType
      <3> QED BY <3>1 DEF TypeOK
    <2> QED BY <2>1, <2>2
  <1> QED BY <1>3, <1>4

\* Ending a drain, or the process, keeps the types of the replicas.
LEMMA EmptyBatchType ==
  ASSUME TypeOK, NEW r \in Relays, NEW e \in PCs \ {"row", "mark"},
         pc' = [pc EXCEPT ![r] = e], batch' = [batch EXCEPT ![r] = {}] \/ (UNCHANGED batch /\ batch[r] = {}),
         full' \in [Relays -> BOOLEAN], cancelled' \in [Relays -> BOOLEAN],
         seen' \in [Relays -> SUBSET {"broker", "db"}], faults' \in 0..MaxFaults
  PROVE  RelayType' /\ \A q \in Relays : batch'[q] # {} <=> pc'[q] \in {"row", "mark"}
  <1>1. RelayType'
    BY DEF TypeOK, RelayType, PCs
  <1>2. ASSUME NEW q \in Relays PROVE batch'[q] # {} <=> pc'[q] \in {"row", "mark"}
    BY DEF TypeOK, RelayType, PCs
  <1> QED BY <1>1, <1>2

\* The stream taking a message keeps the types of the stream.
LEMMA ReceiveType ==
  ASSUME StreamType, NEW i \in Ids, Receive(i)
  PROVE  copies' \in [Ids -> Nat] /\ dedup' \in SUBSET Ids
  BY DEF Receive, StreamType

\* Every step keeps the types, and a drain holds rows exactly while it processes them.
LEMMA TypeStep == TypeOK /\ [Next]_vars => TypeOK'
  <1> SUFFICES ASSUME TypeOK, [Next]_vars PROVE TypeOK'
    OBVIOUS
  <1> USE OutboxAssumption
  <1>1. ASSUME NEW s \in Sessions, DB(s) PROVE TypeOK'
    <2>1. TableType'
      <3>1. CASE Store(s)
        BY <3>1 DEF Store, create, TypeOK, TableType, rowVars
      <3>2. CASE DoCommit(s)
        BY <3>2 DEF DoCommit, TypeOK, TableType, rowVars
      <3>3. CASE DoRollback(s)
        BY <3>3 DEF DoRollback, TypeOK, TableType, rowVars
      <3> QED BY <1>1, <3>1, <3>2, <3>3 DEF DB
    <2>2. UNCHANGED <<brokerVars, relayVars, faults>>
      BY <1>1 DEF DB, Store, DoCommit, DoRollback
    <2> QED BY <2>1, <2>2 DEF TypeOK, StreamType, RelayType, brokerVars, relayVars
  <1>2. ASSUME NEW i \in Ids, Broker(i) PROVE TypeOK'
    <2>1. StreamType'
      <3>1. CASE ArriveLate(i)
        <4>1. inflight[i] - 1 \in Nat /\ inflight' = [inflight EXCEPT ![i] = inflight[i] - 1]
          BY <3>1 DEF ArriveLate, TypeOK, StreamType
        <4>2. expired' = expired /\ copies' \in [Ids -> Nat] /\ dedup' \in SUBSET Ids
          BY <3>1, ReceiveType DEF ArriveLate, TypeOK
        <4> QED BY <4>1, <4>2 DEF TypeOK, StreamType
      <3>2. CASE DropLate(i)
        BY <3>2 DEF DropLate, TypeOK, StreamType
      <3>3. CASE Expire(i)
        <4>1. expired[i] + 1 \in 0..MaxExpiries
          BY <3>3 DEF Expire, TypeOK, StreamType
        <4> QED BY <3>3, <4>1 DEF Expire, TypeOK, StreamType
      <3> QED BY <1>2, <3>1, <3>2, <3>3 DEF Broker
    <2>2. UNCHANGED <<dbVars, rowVars, relayVars, faults>>
      BY <1>2 DEF Broker, ArriveLate, DropLate, Expire
    <2> QED BY <2>1, <2>2 DEF TypeOK, TableType, RelayType, dbVars, rowVars, relayVars
  <1>3. ASSUME NEW r \in Relays, NEW i \in Ids, Row(r, i) PROVE TypeOK'
    <2>1. TableType'
      BY <1>3 DEF Row, Quarantine, QuarantineFails, Publish, PublishFails, MarkPublished,
                  MarkFails, TypeOK, TableType, dbVars, rowVars
    <2>2. StreamType'
      <3>1. CASE Publish(r, i)
        BY <3>1, ReceiveType DEF Publish, TypeOK, StreamType
      <3>2. CASE PublishFails(r, i)
        BY <3>2 DEF PublishFails, TypeOK, StreamType
      <3>3. CASE UNCHANGED brokerVars
        BY <3>3 DEF TypeOK, StreamType, brokerVars
      <3> QED
        BY <1>3, <3>1, <3>2, <3>3
        DEF Row, Quarantine, QuarantineFails, MarkPublished, MarkFails
    <2>3. faults' \in 0..MaxFaults
      BY <1>3 DEF Row, Quarantine, QuarantineFails, Publish, PublishFails, MarkPublished,
                  MarkFails, Fault, TypeOK, RelayType
    <2>4. seen' \in [Relays -> SUBSET {"broker", "db"}]
      BY <1>3 DEF Row, Quarantine, QuarantineFails, Publish, PublishFails, MarkPublished,
                  MarkFails, Fail, TypeOK, RelayType
    <2>5. RelayType' /\ \A q \in Relays : batch'[q] # {} <=> pc'[q] \in {"row", "mark"}
      <3>1. CASE Publish(r, i)
        BY <3>1 DEF Publish, TypeOK, RelayType, PCs
      <3>2. CASE PublishFails(r, i)
        <4>1. /\ pc' = [pc EXCEPT ![r] = "failed"]
              /\ batch' = [batch EXCEPT ![r] = {}]
              /\ full' = full /\ cancelled' = cancelled
          BY <3>2 DEF PublishFails, Fail
        <4> QED BY <4>1, <2>3, <2>4, EmptyBatchType DEF TypeOK, RelayType, PCs
      <3>3. CASE NextRow(r, i) /\ Current(r, i)
        BY <3>3, <2>3, <2>4, NextRowType
      <3> QED
        BY <1>3, <3>1, <3>2, <3>3
        DEF Row, Quarantine, QuarantineFails, MarkPublished, MarkFails
    <2> QED BY <2>1, <2>2, <2>5 DEF TypeOK
  <1>4. ASSUME NEW r \in Relays, Loop(r) PROVE TypeOK'
    <2>1. CASE DrainList(r)
      <3>1. RelayType'
        BY <2>1, ListedVisible DEF DrainList, TypeOK, TableType, RelayType, PCs
      <3>2. \A q \in Relays : batch'[q] # {} <=> pc'[q] \in {"row", "mark"}
        BY <2>1 DEF DrainList, TypeOK, RelayType, PCs
      <3> QED BY <2>1, <3>1, <3>2
              DEF DrainList, TypeOK, TableType, StreamType, dbVars, rowVars, brokerVars
    <2>2. ASSUME NEW e \in {"idle", "failed", "list", "done"},
                 pc' = [pc EXCEPT ![r] = e],
                 batch' = [batch EXCEPT ![r] = {}] \/ (UNCHANGED batch /\ batch[r] = {}),
                 UNCHANGED <<full, cancelled, dbVars, rowVars, brokerVars>>,
                 seen' \in [Relays -> SUBSET {"broker", "db"}], faults' \in 0..MaxFaults
          PROVE  TypeOK'
      <3>1. RelayType' /\ \A q \in Relays : batch'[q] # {} <=> pc'[q] \in {"row", "mark"}
        BY <2>2, EmptyBatchType DEF TypeOK, RelayType, PCs
      <3> QED BY <2>2, <3>1 DEF TypeOK, TableType, StreamType, dbVars, rowVars, brokerVars
    <2>3. CASE DrainEmpty(r)
      <3>1. batch[r] = {}
        BY <2>3 DEF DrainEmpty, TypeOK
      <3>2. seen' \in [Relays -> SUBSET {"broker", "db"}] /\ faults' \in 0..MaxFaults
        BY <2>3 DEF DrainEmpty, TypeOK, RelayType
      <3> QED BY <2>3, <2>2, <3>1, <3>2 DEF DrainEmpty
    <2>4. CASE DrainListFails(r)
      <3>1. seen' \in [Relays -> SUBSET {"broker", "db"}] /\ faults' \in 0..MaxFaults
        BY <2>4 DEF DrainListFails, Fail, Fault, TypeOK, RelayType
      <3> QED BY <2>4, <2>2, <3>1 DEF DrainListFails, Fail
    <2>5. CASE Wake(r) \/ Quit(r)
      <3>1. batch[r] = {}
        BY <2>5 DEF Wake, Quit, TypeOK
      <3>2. seen' \in [Relays -> SUBSET {"broker", "db"}] /\ faults' \in 0..MaxFaults
        BY <2>5 DEF Wake, Quit, TypeOK, RelayType
      <3> QED BY <2>5, <2>2, <3>1, <3>2 DEF Wake, Quit
    <2> QED BY <1>3, <1>4, <2>1, <2>3, <2>4, <2>5 DEF Loop
  <1>5. ASSUME NEW r \in Relays, Start(r) \/ Stop(r) \/ Crash(r) \/ NewRelay(r) PROVE TypeOK'
    <2>1. RelayType'
      <3>1. CASE Start(r)
        BY <3>1 DEF Start, TypeOK, RelayType, PCs
      <3>2. CASE Stop(r)
        BY <3>2 DEF Stop, Fault, TypeOK, RelayType
      <3>3. CASE Crash(r)
        BY <3>3 DEF Crash, Fault, TypeOK, RelayType, PCs
      <3>4. CASE NewRelay(r)
        BY <3>4 DEF NewRelay, TypeOK, RelayType, PCs
      <3> QED BY <1>5, <3>1, <3>2, <3>3, <3>4
    <2>2. \A q \in Relays : batch'[q] # {} <=> pc'[q] \in {"row", "mark"}
      BY <1>5 DEF Start, Stop, Crash, NewRelay, TypeOK, RelayType, PCs
    <2>3. UNCHANGED <<dbVars, rowVars, brokerVars>>
      BY <1>5 DEF Start, Stop, Crash, NewRelay
    <2> QED BY <2>1, <2>2, <2>3 DEF TypeOK, TableType, StreamType, dbVars, rowVars, brokerVars
  <1>6. CASE UNCHANGED vars
    BY <1>6 DEF vars, dbVars, rowVars, brokerVars, relayVars, TypeOK, TableType, StreamType, RelayType
  <1> QED BY <1>1, <1>2, <1>4, <1>5, <1>6 DEF Next

\* The types of the outbox, the broker and the replicas hold in every reachable state.
THEOREM TypeCorrect == Spec => []TypeOK
  BY TypeInit, TypeStep, PTL DEF Spec

-----------------------------------------------------------------------------
(* The inductive invariant.                                                *)

\* The stream holds a message it has taken, and nothing is ever taken back.
LEMMA ReceiveStores ==
  ASSUME TypeOK, WindowInv, NEW i \in Ids, Receive(i)
  PROVE  /\ Stored(i)'
         /\ \A j \in Ids \ {i} : copies'[j] = copies[j]
         /\ \A j \in Ids : Stored(j) => Stored(j)'
  <1>1. CASE i \in dedup
    BY <1>1 DEF Receive, Stored, WindowInv
  <1>2. CASE i \notin dedup
    <2>1. copies' = [copies EXCEPT ![i] = copies[i] + 1] /\ copies \in [Ids -> Nat]
      BY <1>2 DEF Receive, TypeOK, StreamType
    <2> QED BY <2>1 DEF Stored
  <1> QED BY <1>1, <1>2

\* The only steps that touch the stream's counters are publishes and the broker's own.
LEMMA StreamFrame ==
  ASSUME [Next]_vars
  PROVE  \/ UNCHANGED brokerVars
         \/ \E i \in Ids : Broker(i)
         \/ \E r \in Relays, i \in Ids : Publish(r, i) \/ PublishFails(r, i)
  <1>1. ASSUME NEW s \in Sessions, DB(s) PROVE UNCHANGED brokerVars
    BY <1>1 DEF DB, Store, DoCommit, DoRollback
  <1>2. ASSUME NEW r \in Relays, Start(r) \/ Stop(r) \/ Crash(r) \/ NewRelay(r)
        PROVE  UNCHANGED brokerVars
    BY <1>2 DEF Start, Stop, Crash, NewRelay
  <1>3. ASSUME NEW r \in Relays, Loop(r)
        PROVE  UNCHANGED brokerVars \/ \E i \in Ids : Publish(r, i) \/ PublishFails(r, i)
    BY <1>3 DEF Loop, DrainList, DrainEmpty, DrainListFails, Row, Quarantine, QuarantineFails,
                MarkPublished, MarkFails, Wake, Quit
  <1>4. CASE UNCHANGED vars
    BY <1>4 DEF vars
  <1> QED BY <1>1, <1>2, <1>3, <1>4 DEF Next

\* The only steps that touch the table's rows and transactions are those of the sessions.
LEMMA TableFrame ==
  ASSUME [Next]_vars
  PROVE  UNCHANGED dbVars \/ \E s \in Sessions : DB(s)
  <1>1. ASSUME NEW r \in Relays, Start(r) \/ Stop(r) \/ Crash(r) \/ NewRelay(r)
        PROVE  UNCHANGED dbVars
    BY <1>1 DEF Start, Stop, Crash, NewRelay
  <1>2. ASSUME NEW r \in Relays, Loop(r) PROVE UNCHANGED dbVars
    BY <1>2 DEF Loop, DrainList, DrainEmpty, DrainListFails, Row, Quarantine, QuarantineFails,
                Publish, PublishFails, MarkPublished, MarkFails, Wake, Quit
  <1>3. ASSUME NEW i \in Ids, Broker(i) PROVE UNCHANGED dbVars
    BY <1>3 DEF Broker, ArriveLate, DropLate, Expire
  <1>4. CASE UNCHANGED vars
    BY <1>4 DEF vars
  <1> QED BY <1>1, <1>2, <1>3, <1>4 DEF Next

\* Committed rows stay committed, what they follow is fixed, and stored messages stay stored.
LEMMA Grows ==
  ASSUME TypeOK, TableInv, WindowInv, [Next]_vars
  PROVE  /\ committed \subseteq committed'
         /\ \A j \in committed : preds'[j] = preds[j]
         /\ \A i \in Ids : Stored(i) => Stored(i)'
  <1>1. committed \subseteq committed' /\ \A j \in committed : preds'[j] = preds[j]
    <2>1. ASSUME NEW s \in Sessions, Store(s)
          PROVE  committed' = committed /\ \A j \in committed : preds'[j] = preds[j]
      <3>1. \A j \in committed : j # nextId /\ j \in Ids
        BY DEF TableInv, TypeOK, TableType
      <3> QED BY <2>1, <3>1 DEF Store, create, TypeOK, TableType
    <2>2. ASSUME NEW s \in Sessions, DoCommit(s) \/ DoRollback(s)
          PROVE  committed \subseteq committed' /\ preds' = preds
      BY <2>2 DEF DoCommit, DoRollback
    <2> QED BY <2>1, <2>2, TableFrame DEF DB, dbVars
  <1>2. ASSUME NEW i \in Ids, Stored(i) PROVE Stored(i)'
    <2>1. CASE UNCHANGED brokerVars
      BY <1>2, <2>1 DEF Stored, brokerVars
    <2>2. ASSUME NEW j \in Ids, Broker(j) PROVE Stored(i)'
      <3>1. CASE Receive(j)
        BY <3>1, <1>2, ReceiveStores
      <3>2. CASE UNCHANGED copies
        BY <3>2, <1>2 DEF Stored
      <3> QED BY <2>2, <3>1, <3>2 DEF Broker, ArriveLate, DropLate, Expire
    <2>3. ASSUME NEW r \in Relays, NEW j \in Ids, Publish(r, j) \/ PublishFails(r, j)
          PROVE  Stored(i)'
      <3>1. CASE Receive(j)
        BY <3>1, <1>2, ReceiveStores
      <3>2. CASE UNCHANGED copies
        BY <3>2, <1>2 DEF Stored
      <3> QED BY <2>3, <3>1, <3>2 DEF Publish, PublishFails
    <2> QED BY <2>1, <2>2, <2>3, StreamFrame
  <1> QED BY <1>1, <1>2

\* The table: fresh ids are larger than every committed one, and rows of open transactions are
\* invisible and owned by one session.
LEMMA TableStep ==
  ASSUME TypeOK, TableInv, [Next]_vars
  PROVE  TableInv'
  <1>1. ASSUME NEW s \in Sessions, Store(s) PROVE TableInv'
    <2>1. /\ nextId \in Ids /\ nextId' = nextId + 1 /\ committed' = committed
          /\ preds' = [preds EXCEPT ![nextId] = committed]
          /\ staged' = [staged EXCEPT ![s] = staged[s] \union {nextId}]
      BY <1>1, OutboxAssumption DEF Store, create, TypeOK, TableType
    <2>2. \A i \in committed' : i < nextId'
      BY <2>1 DEF TableInv, TypeOK, TableType
    <2>3. \A t \in Sessions : \A i \in staged'[t] : i < nextId' /\ i \notin committed'
      BY <2>1 DEF TableInv, TypeOK, TableType
    <2>4. \A t, u \in Sessions : t # u => staged'[t] \intersect staged'[u] = {}
      <3>1. \A t \in Sessions : nextId \notin staged[t]
        BY DEF TableInv, TypeOK, TableType
      <3> QED BY <2>1, <3>1 DEF TableInv, TypeOK, TableType
    <2>5. \A j \in Ids : \A i \in preds'[j] : i \in committed' /\ i < j
      BY <2>1 DEF TableInv, TypeOK, TableType
    <2> QED BY <2>2, <2>3, <2>4, <2>5 DEF TableInv
  <1>2. ASSUME NEW s \in Sessions, DoCommit(s) PROVE TableInv'
    <2>1. /\ nextId' = nextId /\ preds' = preds
          /\ committed' = committed \union staged[s]
          /\ staged' = [staged EXCEPT ![s] = {}]
      BY <1>2 DEF DoCommit
    <2>2. \A t \in Sessions : \A i \in staged'[t] : i < nextId' /\ i \notin committed'
      BY <2>1 DEF TableInv, TypeOK, TableType
    <2> QED BY <2>1, <2>2 DEF TableInv, TypeOK, TableType
  <1>3. ASSUME NEW s \in Sessions, DoRollback(s) PROVE TableInv'
    BY <1>3 DEF DoRollback, TableInv, TypeOK, TableType
  <1>4. CASE UNCHANGED dbVars
    BY <1>4 DEF dbVars, TableInv
  <1> QED BY <1>1, <1>2, <1>3, <1>4, TableFrame DEF DB

\* The Duplicates window: one copy per window.
LEMMA WindowStep ==
  ASSUME TypeOK, WindowInv, [Next]_vars
  PROVE  WindowInv'
  <1>1. ASSUME NEW i \in Ids, Receive(i), expired' = expired PROVE WindowInv'
    <2>1. CASE i \in dedup
      <3>1. copies' = copies /\ dedup' = dedup
        BY <1>1, <2>1 DEF Receive
      <3> QED BY <1>1, <3>1 DEF WindowInv, Stored
    <2>2. CASE i \notin dedup
      <3>1. copies' = [copies EXCEPT ![i] = copies[i] + 1] /\ dedup' = dedup \union {i}
        BY <1>1, <2>2 DEF Receive
      <3>2. ASSUME NEW j \in Ids
            PROVE  /\ j \in dedup' => copies'[j] > 0 /\ copies'[j] <= expired'[j] + 1
                   /\ j \notin dedup' => copies'[j] <= expired'[j]
        <4>1. copies[i] \in Nat /\ expired[i] \in Nat /\ copies[i] <= expired[i]
          BY <2>2, OutboxAssumption DEF WindowInv, TypeOK, StreamType
        <4>2. CASE j = i
          BY <1>1, <3>1, <4>1, <4>2 DEF TypeOK, StreamType
        <4>3. CASE j # i
          <5>1. copies'[j] = copies[j] /\ (j \in dedup' <=> j \in dedup)
            BY <3>1, <4>3 DEF TypeOK, StreamType
          <5> QED BY <1>1, <5>1 DEF WindowInv, Stored
        <4> QED BY <4>2, <4>3
      <3> QED BY <3>2 DEF WindowInv, Stored
    <2> QED BY <2>1, <2>2
  <1>2. CASE UNCHANGED <<copies, dedup, expired>>
    BY <1>2 DEF WindowInv, Stored
  <1>3. ASSUME NEW i \in Ids, Expire(i) PROVE WindowInv'
    <2>1. /\ i \in dedup /\ dedup' = dedup \ {i} /\ copies' = copies
          /\ expired' = [expired EXCEPT ![i] = expired[i] + 1]
      BY <1>3 DEF Expire
    <2>2. \A j \in Ids : copies[j] \in Nat /\ expired[j] \in Nat
      BY OutboxAssumption DEF TypeOK, StreamType
    <2>3. ASSUME NEW j \in Ids
          PROVE  /\ j \in dedup' => copies'[j] > 0 /\ copies'[j] <= expired'[j] + 1
                 /\ j \notin dedup' => copies'[j] <= expired'[j]
      <3>1. expired'[j] = IF j = i THEN expired[j] + 1 ELSE expired[j]
        BY <2>1 DEF TypeOK, StreamType
      <3> QED BY <2>1, <2>2, <3>1 DEF WindowInv, Stored
    <2> QED BY <2>3 DEF WindowInv, Stored
  <1>4. ASSUME NEW i \in Ids, Broker(i) PROVE WindowInv'
    BY <1>1, <1>2, <1>3, <1>4 DEF Broker, ArriveLate, DropLate
  <1>5. ASSUME NEW r \in Relays, NEW i \in Ids, Publish(r, i) \/ PublishFails(r, i)
        PROVE  WindowInv'
    BY <1>1, <1>2, <1>5 DEF Publish, PublishFails
  <1>6. CASE UNCHANGED brokerVars
    BY <1>2, <1>6 DEF brokerVars
  <1> QED BY <1>4, <1>5, <1>6, StreamFrame

\* A row is sent only from the batch of a replica, as its current row, when it is well-formed.
LEMMA SendFacts ==
  ASSUME TypeOK, BatchInv, TableInv, NEW r \in Relays, NEW i \in Ids,
         pc[r] = "row", Current(r, i), i \notin Malformed
  PROVE  /\ i \in committed
         /\ \A k \in preds[i] : Stored(k) \/ k \in Malformed
  <1>1. i \in batch[r] /\ batch[r] \subseteq committed
    BY DEF Current, BatchInv
  <1>2. ASSUME NEW k \in preds[i] PROVE Stored(k) \/ k \in Malformed
    <2>1. k < i /\ k \in Ids
      BY DEF TableInv, TypeOK, TableType
    <2>2. k \notin batch[r]
      BY <2>1 DEF Current
    <2> QED BY <1>1, <2>2 DEF BatchInv
  <1> QED BY <1>1, <1>2

\* Only committed, well-formed rows are sent; marks follow the stream's acknowledgement.
LEMMA SentStep ==
  ASSUME TypeOK, TableInv, SentInv, BatchInv, WindowInv, [Next]_vars
  PROVE  SentInv'
  <1>1. \A i \in Ids : (Stored(i) \/ inflight[i] > 0)' => i \in committed' \ Malformed
    <2>1. CASE UNCHANGED brokerVars
      BY <2>1, Grows DEF brokerVars, Stored, SentInv
    <2>2. ASSUME NEW i \in Ids, Broker(i), NEW j \in Ids, (Stored(j) \/ inflight[j] > 0)'
          PROVE  j \in committed' \ Malformed
      <3>1. CASE ArriveLate(i)
        <4>1. inflight[i] > 0 /\ i \in committed \ Malformed
          BY <3>1 DEF ArriveLate, SentInv
        <4>2. CASE j = i
          BY <4>1, <4>2, Grows
        <4>3. CASE j # i
          <5>1. copies'[j] = copies[j] /\ inflight'[j] = inflight[j]
            BY <3>1, <4>3, ReceiveStores DEF ArriveLate, TypeOK, StreamType
          <5> QED BY <2>2, <5>1, Grows DEF Stored, SentInv
        <4> QED BY <4>2, <4>3
      <3>2. CASE DropLate(i)
        <4>1. copies' = copies /\ inflight[i] > 0 /\ (j # i => inflight'[j] = inflight[j])
          BY <3>2 DEF DropLate, TypeOK, StreamType
        <4> QED BY <2>2, <4>1, Grows DEF Stored, SentInv
      <3>3. CASE Expire(i)
        BY <2>2, <3>3, Grows DEF Expire, Stored, SentInv
      <3> QED BY <2>2, <3>1, <3>2, <3>3 DEF Broker
    <2>3. ASSUME NEW r \in Relays, NEW i \in Ids, Publish(r, i) \/ PublishFails(r, i),
                 NEW j \in Ids, (Stored(j) \/ inflight[j] > 0)'
          PROVE  j \in committed' \ Malformed
      <3>1. i \in committed \ Malformed
        BY <2>3, SendFacts DEF Publish, PublishFails
      <3>2. CASE j = i
        BY <3>1, <3>2, Grows
      <3>3. CASE j # i
        <4>1. copies'[j] = copies[j]
          BY <2>3, <3>3, ReceiveStores DEF Publish, PublishFails
        <4>2. inflight'[j] = inflight[j]
          BY <2>3, <3>3 DEF Publish, PublishFails, TypeOK, StreamType
        <4> QED BY <2>3, <4>1, <4>2, Grows DEF Stored, SentInv
      <3> QED BY <3>2, <3>3
    <2> QED BY <2>1, <2>2, <2>3, StreamFrame
  <1>2. /\ published' \subseteq {i \in committed' : Stored(i)'}
        /\ failed' \subseteq committed' \intersect Malformed
    <2>1. CASE UNCHANGED rowVars
      BY <2>1, Grows DEF rowVars, SentInv, TypeOK, TableType
    <2>2. ASSUME NEW r \in Relays, NEW i \in Ids, MarkPublished(r, i) \/ MarkFails(r, i)
          PROVE  /\ published' \subseteq {j \in committed' : Stored(j)'}
                 /\ failed' \subseteq committed' \intersect Malformed
      <3>1. Stored(i) /\ i \in committed
        BY <2>2 DEF MarkPublished, MarkFails, BatchInv, Current
      <3>2. published' \subseteq published \union {i} /\ failed' = failed
        BY <2>2 DEF MarkPublished, MarkFails
      <3> QED BY <3>1, <3>2, Grows DEF SentInv, TypeOK, TableType
    <2>3. ASSUME NEW r \in Relays, NEW i \in Ids, Quarantine(r, i) \/ QuarantineFails(r, i)
          PROVE  /\ published' \subseteq {j \in committed' : Stored(j)'}
                 /\ failed' \subseteq committed' \intersect Malformed
      <3>1. i \in committed \intersect Malformed
        BY <2>3 DEF Quarantine, QuarantineFails, BatchInv, Current
      <3>2. failed' \subseteq failed \union {i} /\ published' = published
        BY <2>3 DEF Quarantine, QuarantineFails
      <3> QED BY <3>1, <3>2, Grows DEF SentInv, TypeOK, TableType
    <2>4. ASSUME NEW r \in Relays, Loop(r)
          PROVE  UNCHANGED rowVars \/ \E i \in Ids : \/ MarkPublished(r, i) \/ MarkFails(r, i)
                                                     \/ Quarantine(r, i) \/ QuarantineFails(r, i)
      BY <2>4 DEF Loop, DrainList, DrainEmpty, DrainListFails, Row, Publish, PublishFails, Wake, Quit
    <2>5. ASSUME NEW s \in Sessions, DB(s) PROVE UNCHANGED rowVars
      BY <2>5 DEF DB, Store, DoCommit, DoRollback
    <2>6. ASSUME NEW i \in Ids, Broker(i) PROVE UNCHANGED rowVars
      BY <2>6 DEF Broker, ArriveLate, DropLate, Expire
    <2>7. ASSUME NEW r \in Relays, Start(r) \/ Stop(r) \/ Crash(r) \/ NewRelay(r)
          PROVE  UNCHANGED rowVars
      BY <2>7 DEF Start, Stop, Crash, NewRelay
    <2>8. CASE UNCHANGED vars
      BY <2>1, <2>8 DEF vars
    <2> QED BY <2>1, <2>2, <2>3, <2>4, <2>5, <2>6, <2>7, <2>8 DEF Next
  <1> QED BY <1>1, <1>2 DEF SentInv

\* The limit of a poll cuts off the largest ids: a waiting row before a listed one is listed too.
LEMMA EarlierListed ==
  ASSUME TypeOK, NEW j \in listUnpublished, NEW i \in Unpublished, i < j
  PROVE  i \in listUnpublished
  <1> DEFINE Before(k) == {l \in Unpublished : l < k}
  <1>1. Unpublished \subseteq Ids /\ IsFiniteSet(Ids) /\ j \in Unpublished
    BY OutboxAssumption, FS_Interval DEF Unpublished, listUnpublished, TypeOK, TableType
  <1>2. Before(i) \subseteq Before(j)
    <2>1. ASSUME NEW l \in Unpublished, l < i PROVE l < j
      <3>1. l \in Int /\ i \in Int /\ j \in Int
        BY <1>1
      <3> QED BY <2>1, <3>1
    <2> QED BY <2>1
  <1>3. IsFiniteSet(Before(j))
    BY <1>1, FS_Subset
  <1>4. /\ IsFiniteSet(Before(i))
        /\ Cardinality(Before(i)) <= Cardinality(Before(j))
        /\ Cardinality(Before(i)) \in Nat /\ Cardinality(Before(j)) \in Nat
    BY <1>2, <1>3, FS_Subset, FS_CardinalityType
  <1>5. Cardinality(Before(j)) < BatchSize
    BY DEF listUnpublished
  <1> HIDE DEF Before
  <1>6. Cardinality(Before(i)) < BatchSize
    BY <1>4, <1>5, OutboxAssumption
  <1> QED BY <1>6 DEF listUnpublished, Before

\* The replicas' batches.
LEMMA BatchStep ==
  ASSUME TypeOK, TableInv, SentInv, BatchInv, WindowInv, [Next]_vars
  PROVE  BatchInv'
  <1> DEFINE Good(q) ==
        /\ batch'[q] \subseteq committed'
        /\ \A j \in batch'[q] : \A i \in preds'[j] :
              Stored(i)' \/ i \in Malformed \/ i \in batch'[q]
        /\ pc'[q] = "mark" => \A i \in batch'[q] : Current(q, i)' => Stored(i)'
  <1>0. ASSUME NEW q \in Relays, batch'[q] = {} PROVE Good(q)
    BY <1>0
  <1>1. ASSUME NEW q \in Relays, batch'[q] = batch[q], pc'[q] = pc[q] \/ pc'[q] # "mark" PROVE Good(q)
    <2>1. batch'[q] \subseteq committed'
      BY <1>1, Grows DEF BatchInv
    <2>2. ASSUME NEW j \in batch'[q], NEW i \in preds'[j]
          PROVE  Stored(i)' \/ i \in Malformed \/ i \in batch'[q]
      <3>1. j \in committed /\ j \in batch[q]
        BY <1>1, <2>2 DEF BatchInv
      <3>2. i \in preds[j] /\ i \in Ids
        BY <2>2, <3>1, Grows DEF TypeOK, TableType
      <3> QED BY <3>1, <3>2, <1>1, Grows DEF BatchInv
    <2>3. ASSUME pc'[q] = "mark", NEW i \in batch'[q], Current(q, i)' PROVE Stored(i)'
      <3>1. pc[q] = "mark" /\ Current(q, i) /\ i \in batch[q] /\ i \in Ids
        BY <1>1, <2>3 DEF Current, TypeOK, RelayType
      <3> QED BY <3>1, Grows DEF BatchInv
    <2> QED BY <2>1, <2>2, <2>3
  <1>2. ASSUME NEW r \in Relays, NEW q \in Relays \ {r}, Loop(r) \/ Start(r) \/ Stop(r) \/ Crash(r) \/ NewRelay(r)
        PROVE  Good(q)
    <2>1. batch'[q] = batch[q] /\ pc'[q] = pc[q]
      BY <1>2 DEF Loop, DrainList, DrainEmpty, DrainListFails, Row, Quarantine, QuarantineFails,
                  Publish, PublishFails, MarkPublished, MarkFails, Wake, Quit, Start, Stop, Crash,
                  NewRelay, NextRow, Fail, TypeOK, RelayType
    <2> QED BY <2>1, <1>1
  <1>3. ASSUME NEW r \in Relays, DrainList(r) PROVE Good(r)
    <2>1. /\ batch'[r] = listUnpublished /\ pc'[r] = "row"
          /\ committed' = committed /\ preds' = preds /\ copies' = copies
      BY <1>3 DEF DrainList, TypeOK, RelayType, dbVars, brokerVars
    <2>2. ASSUME NEW j \in listUnpublished, NEW i \in preds[j]
          PROVE  Stored(i) \/ i \in Malformed \/ i \in listUnpublished
      <3>1. i \in committed /\ i < j
        BY <2>2, ListedVisible DEF TableInv, TypeOK, TableType
      <3>2. CASE i \in Unpublished
        BY <3>1, <3>2, EarlierListed
      <3>3. CASE i \notin Unpublished
        BY <3>1, <3>3 DEF Unpublished, SentInv
      <3> QED BY <3>2, <3>3
    <2> QED BY <2>1, <2>2, ListedVisible DEF Stored
  <1>4. ASSUME NEW r \in Relays, NEW i \in Ids, NextRow(r, i), Current(r, i), Stored(i) \/ i \in Malformed
        PROVE  Good(r)
    <2>1. batch'[r] = batch[r] \ {i} /\ pc'[r] # "mark"
      BY <1>4 DEF NextRow, TypeOK, RelayType
    <2>2. ASSUME NEW j \in batch'[r], NEW k \in preds'[j]
          PROVE  Stored(k)' \/ k \in Malformed \/ k \in batch'[r]
      <3>1. j \in committed /\ j \in batch[r]
        BY <2>1 DEF BatchInv
      <3>2. k \in preds[j] /\ k \in Ids
        BY <2>2, <3>1, Grows DEF TypeOK, TableType
      <3>3. Stored(k) \/ k \in Malformed \/ k \in batch[r]
        BY <3>1, <3>2 DEF BatchInv
      <3> QED BY <3>2, <3>3, <2>1, <1>4, Grows
    <2> QED BY <2>1, <2>2, Grows DEF BatchInv
  <1>5. ASSUME NEW r \in Relays, NEW i \in Ids, Row(r, i) PROVE Good(r)
    <2>1. CASE Publish(r, i)
      <3>1. batch'[r] = batch[r] /\ Stored(i)' /\ Current(r, i)
        BY <2>1, ReceiveStores DEF Publish
      <3>2. batch'[r] \subseteq committed'
        BY <3>1, Grows DEF BatchInv
      <3>3. ASSUME NEW j \in batch'[r], NEW k \in preds'[j]
            PROVE  Stored(k)' \/ k \in Malformed \/ k \in batch'[r]
        <4>1. j \in committed /\ j \in batch[r]
          BY <3>1 DEF BatchInv
        <4>2. k \in preds[j] /\ k \in Ids
          BY <3>3, <4>1, Grows DEF TypeOK, TableType
        <4> QED BY <4>1, <4>2, <3>1, Grows DEF BatchInv
      <3>4. ASSUME NEW k \in batch'[r], Current(r, k)' PROVE Stored(k)'
        <4>1. k = i
          BY <3>1, <3>4 DEF Current, TypeOK, RelayType
        <4> QED BY <3>1, <4>1
      <3> QED BY <3>2, <3>3, <3>4
    <2>2. CASE PublishFails(r, i)
      BY <2>2, <1>0 DEF PublishFails, Fail, TypeOK, RelayType
    <2>3. CASE Quarantine(r, i) \/ QuarantineFails(r, i)
      BY <2>3, <1>4 DEF Quarantine, QuarantineFails
    <2>4. CASE MarkPublished(r, i) \/ MarkFails(r, i)
      <3>1. Stored(i)
        BY <2>4 DEF MarkPublished, MarkFails, BatchInv, Current
      <3> QED BY <2>4, <3>1, <1>4 DEF MarkPublished, MarkFails
    <2> QED BY <1>5, <2>1, <2>2, <2>3, <2>4 DEF Row
  <1>6. ASSUME NEW r \in Relays,
               DrainEmpty(r) \/ DrainListFails(r) \/ Wake(r) \/ Quit(r)
               \/ Start(r) \/ Stop(r) \/ Crash(r) \/ NewRelay(r)
        PROVE  Good(r)
    <2>1. batch'[r] = {} \/ (batch'[r] = batch[r] /\ (pc'[r] = pc[r] \/ pc'[r] # "mark"))
      BY <1>6 DEF DrainEmpty, DrainListFails, Wake, Quit, Start, Stop, Crash, NewRelay, Fail,
                  TypeOK, RelayType
    <2> QED BY <2>1, <1>0, <1>1
  <1>7. CASE UNCHANGED relayVars
    <2>1. batch' = batch /\ pc' = pc
      BY <1>7 DEF relayVars
    <2>2. \A q \in Relays : Good(q)
      BY <1>1, <2>1
    <2> QED BY <2>2 DEF BatchInv
  <1>8. ASSUME NEW r \in Relays, Loop(r) \/ Start(r) \/ Stop(r) \/ Crash(r) \/ NewRelay(r)
        PROVE  \A q \in Relays : Good(q)
    <2>1. Good(r)
      BY <1>3, <1>5, <1>6, <1>8 DEF Loop
    <2> QED BY <1>2, <1>8, <2>1
  <1>9. CASE \A q \in Relays : Good(q)
    BY <1>9 DEF BatchInv
  <1>10. [Next]_vars => UNCHANGED relayVars \/ \E r \in Relays : Loop(r) \/ Start(r) \/ Stop(r) \/ Crash(r) \/ NewRelay(r)
    BY DEF Next, DB, Store, DoCommit, DoRollback, Broker, ArriveLate, DropLate, Expire, vars
  <1> QED BY <1>7, <1>8, <1>9, <1>10

\* Causal order of first arrivals.
LEMMA CausalStep ==
  ASSUME TypeOK, TableInv, SentInv, BatchInv, WindowInv, CausalOrder, [Next]_vars
  PROVE  CausalOrder'
  <1> SUFFICES ASSUME NEW j \in Ids, (Stored(j) \/ inflight[j] > 0)', NEW i \in preds'[j]
               PROVE  Stored(i)' \/ i \in Malformed
    BY DEF CausalOrder
  <1>1. ASSUME j \in committed, \A k \in preds[j] : Stored(k) \/ k \in Malformed
        PROVE  Stored(i)' \/ i \in Malformed
    <2>1. i \in preds[j] /\ i \in Ids
      BY <1>1, Grows DEF TypeOK, TableType
    <2> QED BY <1>1, <2>1, Grows
  <1>2. CASE Stored(j) \/ inflight[j] > 0
    BY <1>1, <1>2 DEF SentInv, CausalOrder
  <1>3. ASSUME NEW k \in Ids, Broker(k) PROVE Stored(j) \/ inflight[j] > 0
    <2>1. CASE ArriveLate(k)
      <3>1. j # k => copies'[j] = copies[j] /\ inflight'[j] = inflight[j]
        BY <2>1, ReceiveStores DEF ArriveLate, TypeOK, StreamType
      <3> QED BY <2>1, <3>1 DEF ArriveLate, Stored
    <2>2. CASE DropLate(k)
      <3>1. j # k => copies'[j] = copies[j] /\ inflight'[j] = inflight[j]
        BY <2>2 DEF DropLate, TypeOK, StreamType
      <3> QED BY <2>2, <3>1 DEF DropLate, Stored
    <2>3. CASE Expire(k)
      BY <2>3 DEF Expire, Stored
    <2> QED BY <1>3, <2>1, <2>2, <2>3 DEF Broker
  <1>4. ASSUME NEW r \in Relays, NEW k \in Ids, Publish(r, k) \/ PublishFails(r, k)
        PROVE  Stored(i)' \/ i \in Malformed
    <2>1. CASE j = k
      BY <1>1, <1>4, <2>1, SendFacts DEF Publish, PublishFails
    <2>2. CASE j # k
      <3>1. copies'[j] = copies[j]
        BY <1>4, <2>2, ReceiveStores DEF Publish, PublishFails
      <3>2. inflight'[j] = inflight[j]
        BY <1>4, <2>2 DEF Publish, PublishFails, TypeOK, StreamType
      <3> QED BY <1>2, <3>1, <3>2 DEF Stored
    <2> QED BY <2>1, <2>2
  <1>5. CASE UNCHANGED brokerVars
    BY <1>2, <1>5 DEF brokerVars, Stored
  <1> QED BY <1>2, <1>3, <1>4, <1>5, StreamFrame

\* The inductive invariant holds initially ...
LEMMA IInvInit == Init => IInv
  <1> SUFFICES ASSUME Init PROVE IInv
    OBVIOUS
  <1>1. TypeOK
    BY TypeInit
  <1>2. TableInv /\ SentInv /\ BatchInv /\ CausalOrder /\ WindowInv
    BY OutboxAssumption
    DEF Init, TableInv, SentInv, BatchInv, CausalOrder, WindowInv, Stored
  <1> QED BY <1>1, <1>2 DEF IInv

\* ... and every step preserves it.
LEMMA IInvStep == IInv /\ [Next]_vars => IInv'
  BY TypeStep, TableStep, SentStep, BatchStep, CausalStep, WindowStep DEF IInv

\* The inductive invariant of the outbox relay holds in every reachable state.
THEOREM Invariant == Spec => []IInv
  BY IInvInit, IInvStep, PTL DEF Spec

\* No event is lost: a row is marked only once the stream holds it, and quarantined only when its
\* envelope cannot be built.
THEOREM NoEventLostCorrect == Spec => []NoEventLost
  <1>1. IInv => NoEventLost
    BY DEF IInv, SentInv, NoEventLost
  <1> QED BY <1>1, Invariant, PTL

\* Messages reach the stream in causal order, across replicas, retries and late publishes.
THEOREM CausalOrderCorrect == Spec => []CausalOrder
  <1>1. IInv => CausalOrder
    BY DEF IInv
  <1> QED BY <1>1, Invariant, PTL

\* Duplicates are bounded by the closings of the Duplicates window.
THEOREM CopyBoundCorrect == Spec => []CopyBound
  <1>1. IInv => CopyBound
    <2> SUFFICES ASSUME IInv, NEW i \in Ids PROVE copies[i] <= 1 + expired[i]
      BY DEF CopyBound
    <2>1. copies[i] \in Nat /\ expired[i] \in Nat
      BY OutboxAssumption DEF IInv, TypeOK, StreamType
    <2> QED BY <2>1 DEF IInv, WindowInv
  <1> QED BY <1>1, Invariant, PTL

-----------------------------------------------------------------------------
(* The relay implements the outbox contract.                               *)

AbsStaged == UNION {staged[s] : s \in Sessions}
AbsDelivered == {i \in Ids : Stored(i)}
AbsRetired == published \union failed

\* The initial states map to initial states of the contract.
LEMMA ContractInit == Init => Contract!Init
  BY DEF Init, Contract!Init, Contract!Ids, Stored

\* A row sent for the first time is a delivery the contract allows.
LEMMA DeliverStep ==
  ASSUME IInv, NEW i \in Ids, Receive(i), UNCHANGED <<dbVars, rowVars>>,
         i \in committed \ Malformed, \A k \in preds[i] : Stored(k) \/ k \in Malformed
  PROVE  [Contract!Next]_(Contract!vars)
  <1>1. AbsDelivered' = AbsDelivered \union {i}
    <2>1. /\ Stored(i)'
          /\ \A j \in Ids \ {i} : copies'[j] = copies[j]
      BY ReceiveStores DEF IInv
    <2>2. \A j \in Ids : Stored(j)' <=> (Stored(j) \/ j = i)
      BY <2>1 DEF Stored
    <2> QED BY <2>2 DEF AbsDelivered
  <1>2. UNCHANGED <<nextId, AbsStaged, committed, preds, AbsRetired>>
    BY DEF dbVars, rowVars, AbsStaged, AbsRetired
  <1>3. preds[i] \subseteq AbsDelivered \union Malformed
    BY DEF AbsDelivered, IInv, TypeOK, TableType
  <1>4. CASE i \in AbsDelivered
    <2>1. UNCHANGED <<nextId, AbsStaged, committed, preds, AbsDelivered, AbsRetired>>
      BY <1>1, <1>2, <1>4
    <2> QED BY <2>1 DEF Contract!vars, AbsStaged, AbsDelivered, AbsRetired
  <1>5. CASE i \notin AbsDelivered
    <2>1. Contract!Deliver(i)
      BY <1>1, <1>2, <1>3, <1>5 DEF Contract!Deliver, AbsStaged, AbsDelivered, AbsRetired
    <2> QED BY <2>1 DEF Contract!Next, Contract!Ids
  <1> QED BY <1>4, <1>5

\* A row taken off the outbox is a retirement the contract allows.
LEMMA RetireStep ==
  ASSUME IInv, NEW i \in Ids, UNCHANGED <<dbVars, brokerVars>>,
         AbsRetired' \in {AbsRetired, AbsRetired \union {i}},
         i \in committed, Stored(i) \/ i \in Malformed
  PROVE  [Contract!Next]_(Contract!vars)
  <1>1. UNCHANGED <<nextId, AbsStaged, committed, preds, AbsDelivered>>
    BY DEF dbVars, brokerVars, AbsStaged, AbsDelivered, Stored
  <1>2. CASE AbsRetired' = AbsRetired
    BY <1>1, <1>2 DEF Contract!vars, AbsStaged, AbsDelivered, AbsRetired
  <1>3. CASE AbsRetired' = AbsRetired \union {i}
    <2>1. Contract!Retire(i)
      BY <1>1, <1>3 DEF Contract!Retire, AbsStaged, AbsDelivered, AbsRetired
    <2> QED BY <2>1 DEF Contract!Next, Contract!Ids
  <1> QED BY <1>2, <1>3

\* Steps of a session stage events, or make a transaction's events visible or vanish together.
LEMMA SessionStep ==
  ASSUME IInv, NEW s \in Sessions, DB(s)
  PROVE  [Contract!Next]_(Contract!vars)
  <1>1. UNCHANGED <<AbsDelivered, AbsRetired>>
    BY DEF DB, Store, DoCommit, DoRollback, rowVars, brokerVars, AbsDelivered, AbsRetired, Stored
  <1>2. CASE Store(s)
    <2>1. AbsStaged' = AbsStaged \union {nextId}
      <3>1. staged' = [staged EXCEPT ![s] = staged[s] \union {nextId}] /\ staged \in [Sessions -> SUBSET Ids]
        BY <1>2 DEF Store, create, IInv, TypeOK, TableType
      <3>2. ASSUME NEW i PROVE i \in AbsStaged' <=> i \in AbsStaged \/ i = nextId
        <4>1. i \in AbsStaged' <=> \E t \in Sessions : i \in staged'[t]
          BY DEF AbsStaged
        <4>2. i \in AbsStaged <=> \E t \in Sessions : i \in staged[t]
          BY DEF AbsStaged
        <4>3. \A t \in Sessions : staged'[t] = IF t = s THEN staged[t] \union {nextId} ELSE staged[t]
          BY <3>1
        <4> QED BY <4>1, <4>2, <4>3
      <3> QED BY <3>2
    <2>2. Contract!Stage
      BY <1>1, <1>2, <2>1 DEF Store, create, Contract!Stage, AbsStaged, AbsDelivered, AbsRetired
    <2> QED BY <2>2 DEF Contract!Next
  <1>3. CASE DoCommit(s) \/ DoRollback(s)
    <2>1. AbsStaged' = AbsStaged \ staged[s]
      <3>1. staged' = [staged EXCEPT ![s] = {}] /\ staged \in [Sessions -> SUBSET Ids]
        BY <1>3 DEF DoCommit, DoRollback, IInv, TypeOK, TableType
      <3>2. ASSUME NEW i PROVE i \in AbsStaged' <=> i \in AbsStaged /\ i \notin staged[s]
        <4>1. i \in AbsStaged' <=> \E t \in Sessions : i \in staged'[t]
          BY DEF AbsStaged
        <4>2. i \in AbsStaged <=> \E t \in Sessions : i \in staged[t]
          BY DEF AbsStaged
        <4>3. \A t \in Sessions : staged'[t] = IF t = s THEN {} ELSE staged[t]
          BY <3>1
        <4>4. \A t \in Sessions \ {s} : i \in staged[t] => i \notin staged[s]
          BY DEF IInv, TableInv
        <4> QED BY <4>1, <4>2, <4>3, <4>4
      <3> QED BY <3>2
    <2>2. PICK S : S = staged[s]
      OBVIOUS
    <2>3. Contract!End(S)
      BY <1>1, <1>3, <2>1, <2>2
      DEF DoCommit, DoRollback, Contract!End, AbsStaged, AbsDelivered, AbsRetired
    <2>4. S \in SUBSET UNION {staged[t] : t \in Sessions}
      BY <2>2
    <2> QED BY <2>3, <2>4 DEF Contract!Next
  <1> QED BY <1>2, <1>3 DEF DB

\* Every step of the relay is a step of the contract or leaves its state alone.
LEMMA ContractStep == IInv /\ [Next]_vars => [Contract!Next]_(Contract!vars)
  <1> SUFFICES ASSUME IInv, [Next]_vars PROVE [Contract!Next]_(Contract!vars)
    OBVIOUS
  <1>1. CASE /\ UNCHANGED <<dbVars, rowVars, copies>>
    BY <1>1 DEF dbVars, rowVars, Contract!vars, Stored
  <1>2. ASSUME NEW i \in Ids, Broker(i) PROVE [Contract!Next]_(Contract!vars)
    <2>1. CASE ArriveLate(i)
      <3>1. i \in committed \ Malformed /\ \A k \in preds[i] : Stored(k) \/ k \in Malformed
        BY <2>1 DEF ArriveLate, IInv, SentInv, CausalOrder
      <3> QED BY <2>1, <3>1, DeliverStep DEF ArriveLate
    <2>2. CASE DropLate(i) \/ Expire(i)
      BY <1>1, <2>2 DEF DropLate, Expire
    <2> QED BY <1>2, <2>1, <2>2 DEF Broker
  <1>3. ASSUME NEW r \in Relays, NEW i \in Ids, Row(r, i) PROVE [Contract!Next]_(Contract!vars)
    <2>1. CASE Publish(r, i)
      <3>1. i \in committed \ Malformed /\ \A k \in preds[i] : Stored(k) \/ k \in Malformed
        BY <2>1, SendFacts DEF Publish, IInv
      <3> QED BY <2>1, <3>1, DeliverStep DEF Publish
    <2>2. CASE PublishFails(r, i)
      BY <1>1, <2>2 DEF PublishFails
    <2>3. CASE Quarantine(r, i) \/ QuarantineFails(r, i)
      <3>1. i \in committed \intersect Malformed /\ UNCHANGED <<dbVars, brokerVars>>
        BY <2>3 DEF Quarantine, QuarantineFails, Current, IInv, BatchInv
      <3>2. AbsRetired' \in {AbsRetired, AbsRetired \union {i}}
        BY <2>3 DEF Quarantine, QuarantineFails, AbsRetired
      <3> QED BY <3>1, <3>2, RetireStep
    <2>4. CASE MarkPublished(r, i) \/ MarkFails(r, i)
      <3>1. i \in committed /\ Stored(i) /\ UNCHANGED <<dbVars, brokerVars>>
        BY <2>4 DEF MarkPublished, MarkFails, Current, IInv, BatchInv
      <3>2. AbsRetired' \in {AbsRetired, AbsRetired \union {i}}
        BY <2>4 DEF MarkPublished, MarkFails, AbsRetired
      <3> QED BY <3>1, <3>2, RetireStep
    <2> QED BY <1>3, <2>1, <2>2, <2>3, <2>4 DEF Row
  <1>4. ASSUME NEW r \in Relays,
               \/ DrainList(r) \/ DrainEmpty(r) \/ DrainListFails(r) \/ Wake(r) \/ Quit(r)
               \/ Start(r) \/ Stop(r) \/ Crash(r) \/ NewRelay(r)
        PROVE  [Contract!Next]_(Contract!vars)
    <2>1. UNCHANGED <<dbVars, rowVars, brokerVars>>
      BY <1>4 DEF DrainList, DrainEmpty, DrainListFails, Wake, Quit, Start, Stop, Crash, NewRelay
    <2> QED BY <2>1, <1>1 DEF brokerVars
  <1>5. ASSUME NEW r \in Relays, Loop(r) PROVE [Contract!Next]_(Contract!vars)
    BY <1>3, <1>4, <1>5 DEF Loop
  <1>6. CASE UNCHANGED vars
    BY <1>6, <1>1 DEF vars, brokerVars
  <1> QED BY <1>2, <1>4, <1>5, <1>6, SessionStep DEF Next

\* The relay implements the outbox contract: only committed events are delivered, in causal order,
\* and an event leaves the outbox only once delivered or unsendable.
THEOREM Refinement == Spec => ImplementsContract
  BY ContractInit, ContractStep, Invariant, PTL DEF Spec, ImplementsContract, Contract!Spec
=============================================================================
