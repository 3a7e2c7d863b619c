-------------------------- MODULE SqsPollerProofs --------------------------
(***************************************************************************)
(* Proofs about SqsPoller, for any queue, any message bodies, any number   *)
(* of replicas and any batch size: no record is lost, and the records of a *)
(* message settle in its order.                                            *)
(***************************************************************************)
EXTENDS SqsPoller, TLAPS

\* The invariant holds initially.
LEMMA IInvInit == Init => IInv
  <1> SUFFICES ASSUME Init PROVE IInv
    OBVIOUS
  <1>1. TypeOK
    BY SqsAssumption DEF Init, TypeOK, Stages
  <1>2. ProgressInv /\ SettledInv /\ NoRecordLost /\ RecordsInOrder
    BY DEF Init, ProgressInv, SettledInv, NoRecordLost, RecordsInOrder
  <1> QED BY <1>1, <1>2 DEF IInv

\* The records of a message are numbered by naturals.
LEMMA EventsType ==
  ASSUME NEW m \in Msgs
  PROVE  Events(m) \subseteq Indexes /\ Events(m) \subseteq Nat
  <1>1. Body[m] \in Seq({"good", "empty", "bad"})
    BY SqsAssumption
  <1>2. DOMAIN Body[m] = 1..Len(Body[m]) /\ Len(Body[m]) \in Nat
    BY <1>1
  <1> QED BY <1>2 DEF Events, Indexes

-----------------------------------------------------------------------------
(* Types.                                                                  *)

\* Leaving a message keeps the types of the pollers.
LEMMA NextMessageType ==
  ASSUME TypeOK, NEW p \in Pollers, pc[p] \in {"handle", "delete"}, NextMessage(p)
  PROVE  /\ pc' \in [Pollers -> Stages]
         /\ batch' \in [Pollers -> SUBSET Msgs]
         /\ cur' \in [Pollers -> Msgs \union {None}]
         /\ todo' \in [Pollers -> SUBSET Indexes]
         /\ \A r \in Pollers :
               /\ batch'[r] # {} <=> pc'[r] \in {"batch", "handle", "delete"}
               /\ pc'[r] \in {"handle", "delete"} <=> cur'[r] # None
               /\ cur'[r] # None => cur'[r] \in batch'[r]
  <1>1. cur[p] \in batch[p] /\ batch[p] \subseteq Msgs
    BY DEF TypeOK
  <1>2. /\ pc' \in [Pollers -> Stages]
        /\ batch' \in [Pollers -> SUBSET Msgs]
        /\ cur' \in [Pollers -> Msgs \union {None}]
        /\ todo' \in [Pollers -> SUBSET Indexes]
    BY <1>1 DEF TypeOK, NextMessage, Goto, Stages
  <1>3. CASE batch[p] = {cur[p]}
    <2>1. batch'[p] = {} /\ pc'[p] = "loop" /\ cur'[p] = None
      BY <1>3 DEF TypeOK, NextMessage, Goto
    <2>2. \A r \in Pollers \ {p} : batch'[r] = batch[r] /\ pc'[r] = pc[r] /\ cur'[r] = cur[r]
      BY DEF TypeOK, NextMessage, Goto
    <2> QED BY <1>2, <2>1, <2>2 DEF TypeOK
  <1>4. CASE batch[p] # {cur[p]}
    <2>1. batch'[p] # {} /\ pc'[p] = "batch" /\ cur'[p] = None
      BY <1>1, <1>4 DEF TypeOK, NextMessage, Goto
    <2>2. \A r \in Pollers \ {p} : batch'[r] = batch[r] /\ pc'[r] = pc[r] /\ cur'[r] = cur[r]
      BY DEF TypeOK, NextMessage, Goto
    <2> QED BY <1>2, <2>1, <2>2 DEF TypeOK
  <1> QED BY <1>3, <1>4

\* A poller that moves between stages of its loop keeps the types.
LEMMA GotoType ==
  ASSUME TypeOK, NEW p \in Pollers, NEW e \in Stages, Goto(p, e), UNCHANGED workVars,
         pc[p] \notin {"batch", "handle", "delete"}, e \notin {"batch", "handle", "delete"}
  PROVE  /\ pc' \in [Pollers -> Stages]
         /\ \A r \in Pollers :
               /\ batch'[r] # {} <=> pc'[r] \in {"batch", "handle", "delete"}
               /\ pc'[r] \in {"handle", "delete"} <=> cur'[r] # None
               /\ cur'[r] # None => cur'[r] \in batch'[r]
  BY DEF TypeOK, Goto, workVars

\* Every step of the queue and of the life cycle keeps the types.
LEMMA TypeEnvironment ==
  ASSUME TypeOK,
         \/ \E m \in Msgs : Queue(m)
         \/ \E p \in Pollers : Lifecycle(p) \/ Failure(p)
  PROVE  TypeOK'
  <1> USE SqsAssumption
  <1>1. ASSUME NEW m \in Msgs, Queue(m) PROVE TypeOK'
    <2>1. CASE Expire(m)
      BY <2>1 DEF Expire, TypeOK, workVars
    <2>2. CASE ExpireEarly(m)
      BY <2>2 DEF ExpireEarly, TypeOK, workVars
    <2> QED BY <1>1, <2>1, <2>2 DEF Queue
  <1>2. ASSUME NEW p \in Pollers, Lifecycle(p) PROVE TypeOK'
    <2>1. CASE Start(p)
      <3>1. "loop" \in Stages BY DEF Stages
      <3> QED BY <2>1, <3>1, GotoType DEF Start, TypeOK, queueVars, workVars
    <2>2. CASE StopDone(p)
      BY <2>2 DEF StopDone, TypeOK, queueVars, workVars
    <2>3. CASE Exit(p)
      BY <2>3 DEF Exit, Die, Goto, TypeOK, Stages
    <2>4. CASE NewPoller(p)
      <3>1. "new" \in Stages BY DEF Stages
      <3> QED BY <2>4, <3>1, GotoType DEF NewPoller, TypeOK, queueVars, workVars
    <2> QED BY <1>2, <2>1, <2>2, <2>3, <2>4 DEF Lifecycle
  <1>3. ASSUME NEW p \in Pollers, Failure(p) PROVE TypeOK'
    <2>1. CASE Stop(p)
      BY <2>1 DEF Stop, Fault, TypeOK, queueVars, workVars
    <2>2. CASE StopTimesOut(p)
      BY <2>2 DEF StopTimesOut, TypeOK, queueVars, workVars
    <2>3. CASE Crash(p)
      BY <2>3 DEF Crash, Die, Goto, Fault, TypeOK, Stages
    <2> QED BY <1>3, <2>1, <2>2, <2>3 DEF Failure
  <1> QED BY <1>1, <1>2, <1>3

\* Every step of a poller's goroutine keeps the types.
LEMMA TypeRun ==
  ASSUME TypeOK, NEW p \in Pollers, run(p)
  PROVE  TypeOK'
  <1> USE SqsAssumption
  <1>0. {"loop", "receive", "idle", "backoff", "done"} \subseteq Stages
    BY DEF Stages
  <1>1. CASE Loop(p)
    <2>1. PICK e \in {"receive", "done"} : Goto(p, e)
      BY <1>1 DEF Loop
    <2> QED BY <1>0, <1>1, <2>1, GotoType DEF Loop, TypeOK, queueVars, workVars
  <1>2. CASE ReceiveEmpty(p)
    BY <1>0, <1>2, GotoType DEF ReceiveEmpty, TypeOK, queueVars, workVars
  <1>3. ASSUME NEW S \in SUBSET Msgs, Receive(p, S) PROVE TypeOK'
    BY <1>3 DEF Receive, Goto, TypeOK, Stages
  <1>4. ASSUME NEW S \in SUBSET Msgs, ReceiveFails(p, S) PROVE TypeOK'
    BY <1>0, <1>4, GotoType DEF ReceiveFails, Fault, TypeOK, workVars
  <1>5. CASE IdleBackoff(p)
    BY <1>0, <1>5, GotoType DEF IdleBackoff, TypeOK, queueVars, workVars
  <1>6. CASE FailureBackoff(p)
    <2>1. PICK e \in {"loop", "done"} : Goto(p, e)
      BY <1>6 DEF FailureBackoff
    <2> QED BY <1>0, <1>6, <2>1, GotoType DEF FailureBackoff, TypeOK, queueVars, workVars
  <1>7. ASSUME NEW m \in Msgs, ParseRecords(p, m) PROVE TypeOK'
    BY <1>7, EventsType DEF ParseRecords, Goto, TypeOK, Stages, queueVars
  <1>8. ASSUME NEW i \in Indexes, Handle(p, i) PROVE TypeOK'
    BY <1>8 DEF Handle, Goto, TypeOK, Stages, queueVars
  <1>9. CASE HandleFails(p)
    <2>1. pc[p] \in {"handle", "delete"}
      BY <1>9 DEF HandleFails
    <2> QED BY <1>9, <2>1, NextMessageType DEF HandleFails, LetGo, Fault, TypeOK
  <1>10. CASE Delete(p)
    <2>1. pc[p] \in {"handle", "delete"}
      BY <1>10 DEF Delete
    <2> QED BY <1>10, <2>1, NextMessageType DEF Delete, LetGo, TypeOK
  <1>11. CASE DeleteFails(p)
    <2>1. pc[p] \in {"handle", "delete"}
      BY <1>11 DEF DeleteFails
    <2> QED BY <1>11, <2>1, NextMessageType DEF DeleteFails, LetGo, Fault, TypeOK
  <1> QED BY <1>1, <1>2, <1>3, <1>4, <1>5, <1>6, <1>7, <1>8, <1>9, <1>10, <1>11 DEF run

\* Every step keeps the types.
LEMMA TypeStep == TypeOK /\ [Next]_vars => TypeOK'
  <1> SUFFICES ASSUME TypeOK, [Next]_vars PROVE TypeOK'
    OBVIOUS
  <1>1. CASE UNCHANGED vars
    BY <1>1 DEF TypeOK, vars, queueVars, workVars
  <1> QED BY <1>1, TypeEnvironment, TypeRun DEF Next

-----------------------------------------------------------------------------
(* The records.                                                            *)

Records == ProgressInv /\ SettledInv /\ NoRecordLost /\ RecordsInOrder

\* In a step, poller r leaves its message or keeps its place in it.
Keeps(r) == cur'[r] = None \/ UNCHANGED <<pc[r], cur[r], todo[r]>>

\* A step in which every poller keeps its place or leaves its message, and which settles nothing and
\* deletes nothing, disturbs no record.
LEMMA QuietStep ==
  ASSUME TypeOK, Records, UNCHANGED settled, \A r \in Pollers : Keeps(r),
         \A m \in Msgs : q'[m] = "deleted" => q[m] = "deleted"
  PROVE  Records'
  <1>1. ProgressInv'
    <2> SUFFICES ASSUME NEW r \in Pollers, cur'[r] # None
                 PROVE  /\ todo'[r] \subseteq Events(cur'[r])
                        /\ Parses(cur'[r]) => Events(cur'[r]) \ todo'[r] \subseteq settled'[cur'[r]]
                        /\ \A i \in todo'[r], j \in Events(cur'[r]) \ todo'[r] : j < i
                        /\ pc'[r] = "delete" => todo'[r] = {}
                        /\ pc'[r] = "handle" => Parses(cur'[r])
      BY DEF ProgressInv, Events, Parses
    <2>1. pc'[r] = pc[r] /\ cur'[r] = cur[r] /\ todo'[r] = todo[r]
      BY DEF Keeps
    <2> QED BY <2>1 DEF Records, ProgressInv
  <1>2. SettledInv' /\ RecordsInOrder'
    BY DEF Records, SettledInv, Routed, RecordsInOrder, Events, Parses
  <1>3. NoRecordLost'
    BY DEF Records, NoRecordLost, Parses, Events
  <1> QED BY <1>1, <1>2, <1>3 DEF Records

\* The queue and the life cycle disturb no record.
LEMMA RecordsEnvironment ==
  ASSUME TypeOK, Records,
         \/ \E m \in Msgs : Queue(m)
         \/ \E p \in Pollers : Lifecycle(p) \/ Failure(p)
  PROVE  Records'
  <1>1. ASSUME NEW m \in Msgs, Queue(m) PROVE Records'
    <2>1. UNCHANGED settled /\ \A r \in Pollers : Keeps(r)
      BY <1>1 DEF Queue, Expire, ExpireEarly, Keeps, workVars
    <2>2. \A n \in Msgs : q'[n] = "deleted" => q[n] = "deleted"
      BY <1>1 DEF Queue, Expire, ExpireEarly, TypeOK
    <2> QED BY <2>1, <2>2, QuietStep
  <1>2. ASSUME NEW p \in Pollers, Lifecycle(p) \/ Failure(p) PROVE Records'
    <2>1. UNCHANGED <<q, settled>>
      BY <1>2 DEF Lifecycle, Failure, Start, StopDone, Exit, NewPoller, Stop, StopTimesOut, Crash, Die, queueVars
    <2>2. \A r \in Pollers : Keeps(r)
      <3>1. CASE Start(p) \/ NewPoller(p)
        BY <3>1 DEF Start, NewPoller, Goto, Keeps, TypeOK, workVars
      <3>2. CASE StopDone(p) \/ Stop(p) \/ StopTimesOut(p)
        BY <3>2 DEF StopDone, Stop, StopTimesOut, Keeps, workVars
      <3>3. CASE Exit(p) \/ Crash(p)
        BY <3>3 DEF Exit, Crash, Die, Goto, Keeps, TypeOK
      <3> QED BY <1>2, <3>1, <3>2, <3>3 DEF Lifecycle, Failure
    <2> QED BY <2>1, <2>2, QuietStep
  <1> QED BY <1>1, <1>2

\* A poller deletes its message, or tries to, after the last of its records.
LEMMA RecordsDelete ==
  ASSUME TypeOK, Records, NEW p \in Pollers, pc[p] = "delete", NextMessage(p), UNCHANGED settled,
         q' = [q EXCEPT ![cur[p]] = "deleted"] \/ UNCHANGED q
  PROVE  Records'
  <1>1. \A r \in Pollers : Keeps(r)
    BY DEF NextMessage, Goto, Keeps, TypeOK
  <1>2. CASE UNCHANGED q
    BY <1>1, <1>2, QuietStep
  <1>3. CASE q' = [q EXCEPT ![cur[p]] = "deleted"]
    <2>0. cur[p] \in Msgs /\ cur[p] # None
      BY DEF TypeOK
    <2>1. Parses(cur[p]) => settled[cur[p]] = Events(cur[p])
      <3>1. todo[p] = {} /\ settled[cur[p]] \subseteq Events(cur[p])
        BY <2>0 DEF Records, ProgressInv, SettledInv, Routed
      <3>2. Parses(cur[p]) => Events(cur[p]) \ todo[p] \subseteq settled[cur[p]]
        BY <2>0 DEF Records, ProgressInv
      <3> QED BY <3>1, <3>2
    <2>2. ProgressInv' /\ SettledInv' /\ RecordsInOrder'
      <3>1. ASSUME NEW r \in Pollers, cur'[r] # None
            PROVE  pc'[r] = pc[r] /\ cur'[r] = cur[r] /\ todo'[r] = todo[r]
        BY <1>1, <3>1 DEF Keeps
      <3>2. ProgressInv'
        BY <3>1 DEF Records, ProgressInv, Events, Parses
      <3> QED BY <3>2 DEF Records, SettledInv, Routed, RecordsInOrder, Events, Parses
    <2>3. NoRecordLost'
      BY <1>3, <2>0, <2>1 DEF Records, NoRecordLost, TypeOK, Parses, Events
    <2> QED BY <2>2, <2>3 DEF Records
  <1> QED BY <1>2, <1>3

\* Parsing a message starts with all of its records to do, or with none and a delete.
LEMMA RecordsParse ==
  ASSUME TypeOK, Records, NEW p \in Pollers, NEW m \in Msgs, ParseRecords(p, m)
  PROVE  Records'
  <1>1. /\ UNCHANGED <<q, settled>>
        /\ cur'[p] = m
        /\ todo'[p] = IF Parses(m) THEN Events(m) ELSE {}
        /\ pc'[p] = IF Parses(m) THEN "handle" ELSE "delete"
        /\ \A r \in Pollers \ {p} : pc'[r] = pc[r] /\ cur'[r] = cur[r] /\ todo'[r] = todo[r]
    BY DEF ParseRecords, Goto, TypeOK, queueVars
  <1>2. ProgressInv'
    <2> SUFFICES ASSUME NEW r \in Pollers, cur'[r] # None
                 PROVE  /\ todo'[r] \subseteq Events(cur'[r])
                        /\ Parses(cur'[r]) => Events(cur'[r]) \ todo'[r] \subseteq settled'[cur'[r]]
                        /\ \A i \in todo'[r], j \in Events(cur'[r]) \ todo'[r] : j < i
                        /\ pc'[r] = "delete" => todo'[r] = {}
                        /\ pc'[r] = "handle" => Parses(cur'[r])
      BY DEF ProgressInv, Events, Parses
    <2>1. CASE r = p
      BY <1>1, <2>1
    <2>2. CASE r # p
      BY <1>1, <2>2 DEF Records, ProgressInv
    <2> QED BY <2>1, <2>2
  <1> QED BY <1>1, <1>2 DEF Records, SettledInv, Routed, NoRecordLost, RecordsInOrder, Events, Parses

\* Handling the first record left settles it after the ones in front of it.
LEMMA RecordsHandle ==
  ASSUME TypeOK, Records, NEW p \in Pollers, NEW i \in Indexes, Handle(p, i)
  PROVE  Records'
  <1> DEFINE m == cur[p]
  <1>1. m \in Msgs /\ cur[p] # None /\ Parses(m)
    BY DEF Handle, TypeOK, Records, ProgressInv
  <1>2. /\ UNCHANGED <<q, cur>>
        /\ todo'[p] = todo[p] \ {i}
        /\ pc'[p] = IF todo[p] = {i} THEN "delete" ELSE "handle"
        /\ \A r \in Pollers \ {p} : pc'[r] = pc[r] /\ todo'[r] = todo[r]
        /\ settled' = [settled EXCEPT ![m] = @ \union {i}]
    BY DEF Handle, Goto, TypeOK, queueVars
  <1>3. /\ i \in todo[p] /\ i \in Events(m)
        /\ \A j \in todo[p] : i <= j
        /\ todo[p] \subseteq Events(m)
        /\ Events(m) \ todo[p] \subseteq settled[m]
        /\ \A j \in todo[p], k \in Events(m) \ todo[p] : k < j
        /\ Events(m) \subseteq Nat
    BY <1>1, EventsType DEF Handle, First, Records, ProgressInv
  <1>4. /\ settled'[m] = settled[m] \union {i}
        /\ \A n \in Msgs \ {m} : settled'[n] = settled[n]
        /\ \A n \in Msgs : settled[n] \subseteq settled'[n]
    BY <1>1, <1>2 DEF TypeOK
  <1>5. ProgressInv'
    <2> SUFFICES ASSUME NEW r \in Pollers, cur'[r] # None
                 PROVE  /\ todo'[r] \subseteq Events(cur'[r])
                        /\ Parses(cur'[r]) => Events(cur'[r]) \ todo'[r] \subseteq settled'[cur'[r]]
                        /\ \A k \in todo'[r], j \in Events(cur'[r]) \ todo'[r] : j < k
                        /\ pc'[r] = "delete" => todo'[r] = {}
                        /\ pc'[r] = "handle" => Parses(cur'[r])
      BY DEF ProgressInv, Events, Parses
    <2>1. CASE r = p
      <3>1. todo'[r] \subseteq Events(m) /\ Events(m) \ todo'[r] \subseteq settled'[m]
        BY <1>2, <1>3, <1>4, <2>1
      <3>2. \A k \in todo'[r], j \in Events(m) \ todo'[r] : j < k
        BY <1>2, <1>3, <2>1
      <3> QED BY <1>1, <1>2, <2>1, <3>1, <3>2
    <2>2. CASE r # p
      <3>1. cur[r] \in Msgs
        BY <1>2 DEF TypeOK
      <3> QED BY <1>2, <1>4, <2>2, <3>1 DEF Records, ProgressInv
    <2> QED BY <2>1, <2>2
  <1>6. SettledInv'
    BY <1>1, <1>3, <1>4 DEF Records, SettledInv, Routed, Events, Parses
  <1>7. RecordsInOrder'
    <2> SUFFICES ASSUME NEW n \in Msgs, NEW k \in settled'[n], NEW j \in Events(n), j < k
                 PROVE  j \in settled'[n]
      BY DEF RecordsInOrder, Events
    <2>1. CASE k \in settled[n]
      BY <1>4, <2>1 DEF Records, RecordsInOrder
    <2>2. CASE k \notin settled[n]
      <3>1. n = m /\ k = i
        BY <1>4, <2>2
      <3>2. j \notin todo[p]
        BY <1>3, <3>1
      <3> QED BY <1>3, <1>4, <3>1, <3>2
    <2> QED BY <2>1, <2>2
  <1>8. NoRecordLost'
    BY <1>2, <1>3, <1>4 DEF Records, NoRecordLost, Parses, Events
  <1> QED BY <1>5, <1>6, <1>7, <1>8 DEF Records

\* Every step of a poller's goroutine keeps the records accounted for.
LEMMA RecordsRun ==
  ASSUME TypeOK, Records, NEW p \in Pollers, run(p)
  PROVE  Records'
  <1>1. CASE Loop(p) \/ ReceiveEmpty(p) \/ IdleBackoff(p) \/ FailureBackoff(p)
    <2>1. UNCHANGED <<q, settled>>
      BY <1>1 DEF Loop, ReceiveEmpty, IdleBackoff, FailureBackoff, queueVars
    <2>2. \A r \in Pollers : Keeps(r)
      BY <1>1 DEF Loop, ReceiveEmpty, IdleBackoff, FailureBackoff, Goto, Keeps, TypeOK, workVars
    <2> QED BY <2>1, <2>2, QuietStep
  <1>2. ASSUME NEW S \in SUBSET Msgs, Receive(p, S) \/ ReceiveFails(p, S) PROVE Records'
    <2>1. UNCHANGED settled /\ \A m \in Msgs : q'[m] = "deleted" => q[m] = "deleted"
      BY <1>2 DEF Receive, ReceiveFails, TypeOK
    <2>2. \A r \in Pollers : Keeps(r)
      BY <1>2 DEF Receive, ReceiveFails, Goto, Keeps, TypeOK, workVars
    <2> QED BY <2>1, <2>2, QuietStep
  <1>3. CASE HandleFails(p)
    <2>1. UNCHANGED <<q, settled>>
      BY <1>3 DEF HandleFails
    <2>2. \A r \in Pollers : Keeps(r)
      BY <1>3 DEF HandleFails, NextMessage, Goto, Keeps, TypeOK
    <2> QED BY <2>1, <2>2, QuietStep
  <1>4. CASE Delete(p)
    BY <1>4, RecordsDelete DEF Delete
  <1>5. CASE DeleteFails(p)
    BY <1>5, RecordsDelete DEF DeleteFails
  <1> QED BY <1>1, <1>2, <1>3, <1>4, <1>5, RecordsParse, RecordsHandle DEF run

-----------------------------------------------------------------------------
(* The theorems.                                                           *)

\* Every behaviour of the pollers satisfies the inductive invariant.
THEOREM Invariant == Spec => []IInv
  <1>1. Init => IInv
    BY IInvInit
  <1>2. IInv /\ [Next]_vars => IInv'
    <2> SUFFICES ASSUME IInv, [Next]_vars PROVE IInv'
      OBVIOUS
    <2>0. TypeOK /\ Records
      BY DEF IInv, Records
    <2>1. TypeOK'
      BY <2>0, TypeStep
    <2>2. CASE UNCHANGED vars
      <3>1. UNCHANGED <<q, settled>> /\ \A r \in Pollers : Keeps(r)
        BY <2>2 DEF vars, queueVars, workVars, Keeps
      <3>2. Records'
        BY <2>0, <3>1, QuietStep
      <3> QED BY <2>1, <3>2 DEF IInv, Records
    <2>3. CASE Next
      <3>1. Records'
        BY <2>0, <2>3, RecordsEnvironment, RecordsRun DEF Next
      <3> QED BY <2>1, <3>1 DEF IInv, Records
    <2> QED BY <2>2, <2>3
  <1> QED BY <1>1, <1>2, PTL DEF Spec

\* The variables of every replica and of the queue keep their types, and a poller is on a message of
\* its batch exactly in the stages of processMessage.
THEOREM TypeCorrect == Spec => []TypeOK
  <1>1. IInv => TypeOK
    BY DEF IInv
  <1> QED BY <1>1, Invariant, PTL

\* deleteMessage never takes a parseable message off the queue before all of its records settled.
THEOREM NoRecordLostCorrect == Spec => []NoRecordLost
  <1>1. IInv => NoRecordLost
    BY DEF IInv
  <1> QED BY <1>1, Invariant, PTL

\* processMessage's loop settles the records in order across redeliveries and replicas.
THEOREM RecordsInOrderCorrect == Spec => []RecordsInOrder
  <1>1. IInv => RecordsInOrder
    BY DEF IInv
  <1> QED BY <1>1, Invariant, PTL

-----------------------------------------------------------------------------
(* The replicas implement the contract.                                    *)

AbsRecords == [m \in Msgs |-> Routed(m)]
AbsRemoved == {m \in Msgs : q[m] = "deleted"}

\* Initially no record is settled and no message removed.
LEMMA ContractInit == Init => Contract!Init
  BY DEF Init, Contract!Init

\* A step that settles nothing and deletes nothing is no step of the contract.
LEMMA ContractQuiet ==
  ASSUME UNCHANGED settled, \A m \in Msgs : q'[m] = "deleted" <=> q[m] = "deleted"
  PROVE  [Contract!Next]_(Contract!vars)
  <1>1. AbsRemoved' = AbsRemoved
    BY DEF AbsRemoved
  <1> QED BY <1>1 DEF Contract!vars, AbsRemoved

\* Handling a record settles the first one that is left, or one that a redelivery or another
\* replica has settled before; then the message may be gone.
LEMMA ContractHandle ==
  ASSUME IInv, NEW p \in Pollers, NEW i \in Indexes, Handle(p, i)
  PROVE  [Contract!Next]_(Contract!vars)
  <1>1. PICK m \in Msgs : m = cur[p] /\ cur[p] # None
    BY DEF Handle, IInv, TypeOK
  <1>2. /\ Parses(m) /\ todo[p] \subseteq Events(m)
        /\ Events(m) \ todo[p] \subseteq settled[m]
        /\ i \in todo[p] /\ \A j \in todo[p] : i <= j
        /\ Events(m) \subseteq Nat
    BY <1>1, EventsType DEF Handle, First, IInv, ProgressInv
  <1>3. settled' = [settled EXCEPT ![m] = @ \union {i}] /\ q' = q
    BY <1>1 DEF Handle, queueVars
  <1>4. CASE i \in settled[m]
    <2>1. settled' = settled
      BY <1>3, <1>4 DEF IInv, TypeOK
    <2> QED BY <1>3, <2>1, ContractQuiet
  <1>5. CASE i \notin settled[m]
    <2>1. i \in AbsRecords[m] \ settled[m] /\ AbsRecords[m] = Events(m)
      BY <1>2, <1>5 DEF AbsRecords, Routed
    <2>2. \A j \in AbsRecords[m] : j < i => j \in settled[m]
      BY <1>2, <2>1
    <2>3. m \notin AbsRemoved /\ AbsRemoved' = AbsRemoved
      BY <1>2, <1>3, <1>5 DEF IInv, NoRecordLost, AbsRemoved
    <2>4. Contract!Settle(m, i)
      BY <1>3, <2>1, <2>2, <2>3 DEF Contract!Settle, AbsRecords, AbsRemoved
    <2> QED BY <2>1, <2>4 DEF Contract!Next, AbsRecords
  <1> QED BY <1>4, <1>5

\* A delete that reaches the queue removes a message with no record left, or one that is gone.
LEMMA ContractDelete ==
  ASSUME IInv, NEW p \in Pollers, Delete(p) \/ DeleteFails(p)
  PROVE  [Contract!Next]_(Contract!vars)
  <1>1. PICK m \in Msgs : m = cur[p] /\ cur[p] # None
    BY DEF Delete, DeleteFails, IInv, TypeOK
  <1>2. settled' = settled /\ (q' = q \/ q' = [q EXCEPT ![m] = "deleted"])
    BY <1>1 DEF Delete, DeleteFails
  <1>3. CASE q' = q \/ q[m] = "deleted"
    BY <1>2, <1>3, ContractQuiet DEF IInv, TypeOK
  <1>4. CASE q' = [q EXCEPT ![m] = "deleted"] /\ q[m] # "deleted"
    <2>1. m \notin AbsRemoved /\ AbsRemoved' = AbsRemoved \union {m}
      BY <1>4 DEF AbsRemoved, IInv, TypeOK
    <2>2. settled[m] \subseteq Routed(m)
      BY DEF IInv, SettledInv
    <2>3. Routed(m) \subseteq settled[m]
      <3>1. pc[p] = "delete"
        BY DEF Delete, DeleteFails
      <3>2. todo[p] = {} /\ (Parses(m) => Events(m) \ todo[p] \subseteq settled[m])
        BY <1>1, <3>1 DEF IInv, ProgressInv
      <3> QED BY <3>2 DEF Routed
    <2>4. settled[m] = AbsRecords[m]
      BY <2>2, <2>3 DEF AbsRecords
    <2>5. Contract!Remove(m)
      BY <1>2, <2>1, <2>4 DEF Contract!Remove, AbsRecords, AbsRemoved
    <2> QED BY <2>5 DEF Contract!Next
  <1> QED BY <1>2, <1>3, <1>4

\* Every step of the queue and of every replica is a step of the contract or leaves its state alone.
LEMMA ContractStep == IInv /\ [Next]_vars => [Contract!Next]_(Contract!vars)
  <1> SUFFICES ASSUME IInv, [Next]_vars PROVE [Contract!Next]_(Contract!vars)
    OBVIOUS
  <1>1. ASSUME NEW m \in Msgs, Queue(m) PROVE [Contract!Next]_(Contract!vars)
    <2>1. settled' = settled /\ \A n \in Msgs : q'[n] = "deleted" <=> q[n] = "deleted"
      BY <1>1 DEF Queue, Expire, ExpireEarly, IInv, TypeOK
    <2> QED BY <2>1, ContractQuiet
  <1>2. ASSUME NEW p \in Pollers, NEW S \in SUBSET Msgs, Receive(p, S) \/ ReceiveFails(p, S)
        PROVE  [Contract!Next]_(Contract!vars)
    <2>1. settled' = settled /\ \A n \in Msgs : q'[n] = "deleted" <=> q[n] = "deleted"
      BY <1>2 DEF Receive, ReceiveFails, IInv, TypeOK
    <2> QED BY <2>1, ContractQuiet
  <1>3. CASE UNCHANGED <<q, settled>>
    BY <1>3, ContractQuiet
  <1>4. ASSUME NEW p \in Pollers, Lifecycle(p) \/ Failure(p) PROVE UNCHANGED <<q, settled>>
    BY <1>4 DEF Lifecycle, Failure, Start, StopDone, Exit, NewPoller, Stop, StopTimesOut, Crash, Die, queueVars
  <1>5. ASSUME NEW p \in Pollers, run(p) PROVE [Contract!Next]_(Contract!vars)
    BY <1>2, <1>3, <1>5, ContractHandle, ContractDelete
    DEF run, Loop, ReceiveEmpty, IdleBackoff, FailureBackoff, ParseRecords, HandleFails, queueVars
  <1>6. CASE UNCHANGED vars
    BY <1>3, <1>6 DEF vars, queueVars
  <1> QED BY <1>1, <1>3, <1>4, <1>5, <1>6 DEF Next

\* The replicas implement the contract of the object-event worker, for any number of replicas and
\* messages, any bodies, and whatever crashes, expiring receipts and failing calls happen.
THEOREM Refinement == Spec => ImplementsContract
  BY ContractInit, ContractStep, Invariant, PTL DEF Spec, ImplementsContract, Contract!Spec
=============================================================================
