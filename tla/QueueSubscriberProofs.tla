------------------------ MODULE QueueSubscriberProofs ------------------------
(***************************************************************************)
(* Proofs about QueueSubscriber, for any set of tasks and subscriptions,   *)
(* any delivery limit and any number of faults.                            *)
(***************************************************************************)
EXTENDS QueueSubscriber, TLAPS

-----------------------------------------------------------------------------
(* Facts about the steps of handleMessage.                                 *)

\* A goroutine that is not idle works on a message.
LEMMA Busy ==
  ASSUME WorkerType, NEW s \in Subs, at[s] # "idle"
  PROVE  msg[s] \in Msgs
  BY DEF WorkerType

\* Moving on inside handleMessage keeps the worker's types and touches one goroutine only.
LEMMA GotoFacts ==
  ASSUME WorkerType, NEW s \in Subs, at[s] # "idle", NEW e \in Stages \ {"idle"}, Goto(s, e)
  PROVE  /\ WorkerType'
         /\ at'[s] = e /\ msg' = msg /\ att' = att /\ calls' = calls
         /\ \A q \in Subs \ {s} : at'[q] = at[q]
  BY DEF WorkerType, Goto

\* Returning from handleMessage keeps the worker's types and frees one goroutine only.
LEMMA ReturnFacts ==
  ASSUME WorkerType, QueueAssumption, NEW s \in Subs, Return(s)
  PROVE  /\ WorkerType'
         /\ at'[s] = "idle" /\ msg'[s] = None /\ calls' = calls
         /\ \A q \in Subs \ {s} : at'[q] = at[q] /\ msg'[q] = msg[q] /\ att'[q] = att[q]
  BY DEF WorkerType, Return, Stages, QueueAssumption

\* Taking a delivery off the buffer keeps the worker's types.
LEMMA PopFacts ==
  ASSUME WorkerType, QueueAssumption, NEW s \in Subs, NEW m \in Msgs, NEW n \in 1..MaxDeliver,
         Pop(s, m, n)
  PROVE  /\ WorkerType'
         /\ at'[s] = "popped" /\ msg'[s] = m /\ att'[s] = n
         /\ \A q \in Subs \ {s} : at'[q] = at[q] /\ msg'[q] = msg[q] /\ att'[q] = att[q]
         /\ \A k \in Msgs : calls'[k] = IF k = m THEN calls[k] + 1 ELSE calls[k]
  BY DEF WorkerType, Pop, Stages, QueueAssumption

\* A dead-letter write adds at most one row, for one message, and leaves a row behind.
LEMMA SaveFacts ==
  ASSUME OutcomeType, NEW m \in Msgs, save(m)
  PROVE  /\ rows' \in [Msgs -> Nat]
         /\ rows'[m] > 0 /\ rows'[m] <= rows[m] + 1
         /\ m \notin Unkeyed /\ rows[m] <= 1 => rows'[m] <= 1
         /\ \A k \in Msgs \ {m} : rows'[k] = rows[k]
  <1> DEFINE e == IF m \in Unkeyed \/ rows[m] = 0 THEN rows[m] + 1 ELSE rows[m]
  <1>1. rows' = [rows EXCEPT ![m] = e] /\ rows \in [Msgs -> Nat]
    BY DEF save, OutcomeType
  <1>2. /\ e \in Nat /\ e > 0 /\ e <= rows[m] + 1
        /\ m \notin Unkeyed /\ rows[m] <= 1 => e <= 1
    BY <1>1
  <1> HIDE DEF e
  <1> QED BY <1>1, <1>2

\* What the process's life cycle does: the goroutines go on or all end, nothing is added to the
\* buffer, and only Start and an Unsubscribe that deletes the consumer touch the broker's state.
LEMMA LifecycleFacts ==
  ASSUME Lifecycle \/ Failure
  PROVE  /\ UNCHANGED outcomeVars
         /\ UNCHANGED workerVars \/ Die
         /\ buf' \subseteq buf
         /\ \/ UNCHANGED brokerVars
            \/ \E s \in Subs : Start(s)
            \/ \E s \in Subs : Unsubscribe(s) /\ DeleteConsumer(s)
  <1>1. ASSUME NEW s \in Subs, Start(s)
        PROVE  UNCHANGED <<outcomeVars, workerVars>> /\ buf' \subseteq buf
    BY <1>1 DEF Start
  <1>2. ASSUME NEW s \in Subs, Unsubscribe(s)
        PROVE  /\ UNCHANGED <<outcomeVars, workerVars>> /\ buf' \subseteq buf
               /\ UNCHANGED brokerVars \/ DeleteConsumer(s)
    BY <1>2 DEF Unsubscribe
  <1>3. CASE StopDrained \/ Exit \/ NewQueueSubscriber \/ Failure
    BY <1>3 DEF Failure, StartFails, Stop, StopDrained, StopTimesOut, Die, Crash, Exit,
                NewQueueSubscriber
  <1> QED BY <1>1, <1>2, <1>3 DEF Lifecycle

-----------------------------------------------------------------------------
(* Type correctness.                                                       *)

\* The types hold initially.
LEMMA TypeInit == Init => TypeOK
  BY QueueAssumption
  DEF Init, TypeOK, ConsumerType, WorkerType, ClientType, OutcomeType, Final, Stages, Procs

\* Every step of the consumer, the goroutines and the process keeps the types.
LEMMA TypeStep == TypeOK /\ [Next]_vars => TypeOK'
  <1> SUFFICES ASSUME TypeOK, [Next]_vars PROVE TypeOK'
    OBVIOUS
  <1> USE QueueAssumption
  <1>0. ConsumerType /\ WorkerType /\ ClientType /\ OutcomeType
    BY DEF TypeOK
  <1>1. ASSUME NEW m \in Msgs, Consumer(m) PROVE TypeOK'
    <2>1. CASE Deliver(m)
      <3>1. num[m] + 1 \in 1..MaxDeliver
        BY <1>0, <2>1 DEF Deliver, ConsumerType
      <3>2. ConsumerType'
        BY <1>0, <2>1, <3>1 DEF Deliver, ConsumerType
      <3>3. ClientType'
        BY <1>0, <2>1, <3>1 DEF Deliver, ClientType
      <3> QED BY <1>0, <2>1, <3>2, <3>3
              DEF Deliver, TypeOK, WorkerType, OutcomeType, workerVars, outcomeVars
    <2>2. CASE AckWaitExpires(m)
      <3>1. ConsumerType'
        BY <1>0, <2>2 DEF AckWaitExpires, Requeue, ConsumerType, Final
      <3> QED BY <1>0, <2>2, <3>1
              DEF AckWaitExpires, TypeOK, ClientType, WorkerType, OutcomeType, clientVars,
                  workerVars, outcomeVars
    <2> QED BY <1>1, <2>1, <2>2 DEF Consumer
  <1>2. ASSUME NEW s \in Subs, handleMessage(s) PROVE TypeOK'
    <2>1. ASSUME NEW m \in Msgs, NEW n \in 1..MaxDeliver, Pop(s, m, n) PROVE TypeOK'
      <3>1. WorkerType' /\ ClientType' /\ ConsumerType' /\ OutcomeType'
        BY <1>0, <2>1, PopFacts
        DEF Pop, ClientType, ConsumerType, OutcomeType, brokerVars, outcomeVars
      <3> QED BY <3>1 DEF TypeOK
    <2>2. CASE Begin(s) \/ HandleTerminal(s) \/ HandleTransient(s)
      <3>1. PICK e \in {"handle", "dlq", "term", "nak"} : Goto(s, e) /\ at[s] # "idle"
        BY <2>2 DEF Begin, HandleTerminal, HandleTransient, Enter
      <3>2. WorkerType'
        BY <1>0, <3>1, GotoFacts DEF Stages
      <3> QED BY <1>0, <2>2, <3>2
              DEF Begin, HandleTerminal, HandleTransient, TypeOK, ClientType, ConsumerType,
                  OutcomeType, brokerVars, outcomeVars, clientVars
    <2>3. CASE HandleOk(s)
      <3>1. WorkerType' /\ msg[s] \in Msgs
        BY <1>0, <2>3, GotoFacts, Busy DEF HandleOk, Stages
      <3> QED BY <1>0, <2>3, <3>1
              DEF HandleOk, TypeOK, ClientType, ConsumerType, OutcomeType, brokerVars, clientVars
    <2>4. CASE deadLetter(s) \/ deadLetterFails(s)
      <3>1. WorkerType' /\ msg[s] \in Msgs
        BY <1>0, <2>4, GotoFacts, Busy DEF deadLetter, deadLetterFails, Stages
      <3>2. rows' \in [Msgs -> Nat]
        BY <1>0, <2>4, <3>1, SaveFacts DEF deadLetter, deadLetterFails, OutcomeType
      <3>3. faults' \in 0..MaxFaults
        BY <1>0, <2>4 DEF deadLetter, deadLetterFails, Fault, ClientType
      <3> QED BY <1>0, <2>4, <3>1, <3>2, <3>3
              DEF deadLetter, deadLetterFails, TypeOK, ClientType, ConsumerType, OutcomeType,
                  brokerVars, clientVars
    <2>5. CASE ack(s) \/ term(s) \/ nak(s)
      <3>1. WorkerType' /\ msg[s] \in Msgs
        BY <1>0, <2>5, ReturnFacts, Busy DEF ack, term, nak, Settle
      <3>2. ConsumerType'
        <4>1. CASE ack(s)
          BY <1>0, <4>1, <3>1 DEF ack, Settle, ConsumerType, Final
        <4>2. CASE term(s)
          BY <1>0, <4>2, <3>1 DEF term, Settle, ConsumerType, Final
        <4>3. CASE nak(s)
          BY <1>0, <4>3, <3>1 DEF nak, Requeue, ConsumerType, Final
        <4> QED BY <2>5, <4>1, <4>2, <4>3
      <3> QED BY <1>0, <2>5, <3>1, <3>2
              DEF ack, term, nak, Settle, TypeOK, ClientType, OutcomeType, outcomeVars, clientVars
    <2>6. CASE ReplyLost(s)
      <3>1. WorkerType'
        BY <1>0, <2>6, ReturnFacts DEF ReplyLost
      <3> QED BY <1>0, <2>6, <3>1
              DEF ReplyLost, Fault, TypeOK, ClientType, ConsumerType, OutcomeType, brokerVars,
                  clientVars, outcomeVars
    <2> QED BY <1>2, <2>1, <2>2, <2>3, <2>4, <2>5, <2>6 DEF handleMessage
  <1>3. CASE Lifecycle \/ Failure
    <2>1. ClientType'
      BY <1>0, <1>3
      DEF Lifecycle, Failure, Start, StartFails, Stop, Unsubscribe, StopDrained, StopTimesOut, Die,
          Crash, Exit, NewQueueSubscriber, Fault, ClientType, Procs
    <2>2. WorkerType'
      BY <1>0, <1>3
      DEF Lifecycle, Failure, Start, StartFails, Stop, Unsubscribe, StopDrained, StopTimesOut, Die,
          Crash, Exit, NewQueueSubscriber, WorkerType, Stages, workerVars
    <2>3. ConsumerType'
      <3>1. CASE UNCHANGED brokerVars
        BY <1>0, <3>1 DEF ConsumerType, brokerVars
      <3>2. CASE \E s \in Subs : Start(s)
        BY <1>0, <3>2 DEF Start, ConsumerType
      <3>3. ASSUME NEW s \in Subs, DeleteConsumer(s) PROVE ConsumerType'
        BY <1>0, <3>3 DEF DeleteConsumer, ConsumerType
      <3> QED BY <1>3, <3>1, <3>2, <3>3, LifecycleFacts
    <2> QED BY <1>0, <1>3, <2>1, <2>2, <2>3, LifecycleFacts DEF TypeOK, OutcomeType, outcomeVars
  <1>4. CASE UNCHANGED vars
    BY <1>0, <1>4
    DEF vars, brokerVars, workerVars, clientVars, outcomeVars, TypeOK, ConsumerType, WorkerType,
        ClientType, OutcomeType
  <1> QED BY <1>1, <1>2, <1>3, <1>4 DEF Next

\* The types of the consumer, the worker and the dead letters hold in every reachable state.
THEOREM TypeCorrect == Spec => []TypeOK
  BY TypeInit, TypeStep, PTL DEF Spec

-----------------------------------------------------------------------------
(* The inductive invariant.                                                *)

\* A message terminated now would be accounted for.
Recorded(m) == rows[m] > 0 \/ m \in saveFailed \/ Unrecordable(m)

\* Successes, dead letters and their failures are never forgotten.
LEMMA OutcomesGrow ==
  ASSUME TypeOK, [Next]_vars
  PROVE  /\ handled \subseteq handled'
         /\ \A m \in Msgs : Recorded(m) => Recorded(m)'
  <1>0. WorkerType /\ OutcomeType
    BY DEF TypeOK
  <1>1. CASE UNCHANGED outcomeVars
    BY <1>1 DEF outcomeVars, Recorded, Unrecordable
  <1>2. ASSUME NEW s \in Subs, HandleOk(s)
        PROVE  handled \subseteq handled' /\ \A m \in Msgs : Recorded(m) => Recorded(m)'
    BY <1>2 DEF HandleOk, Recorded, Unrecordable
  <1>3. ASSUME NEW s \in Subs, deadLetter(s) \/ deadLetterFails(s)
        PROVE  handled \subseteq handled' /\ \A m \in Msgs : Recorded(m) => Recorded(m)'
    <2>1. msg[s] \in Msgs
      BY <1>0, <1>3, Busy DEF deadLetter, deadLetterFails
    <2>2. \A m \in Msgs : rows[m] > 0 => rows'[m] > 0
      BY <1>0, <1>3, <2>1, SaveFacts DEF deadLetter, deadLetterFails
    <2> QED BY <1>3, <2>2 DEF deadLetter, deadLetterFails, Recorded, Unrecordable
  <1>4. ASSUME NEW s \in Subs, handleMessage(s)
        PROVE  UNCHANGED outcomeVars \/ HandleOk(s) \/ deadLetter(s) \/ deadLetterFails(s)
    BY <1>4 DEF handleMessage, Pop, Begin, HandleTerminal, HandleTransient, ack, term, Settle, nak,
                ReplyLost
  <1>5. ASSUME NEW m \in Msgs, Consumer(m) PROVE UNCHANGED outcomeVars
    BY <1>5 DEF Consumer, Deliver, AckWaitExpires
  <1>6. CASE Lifecycle \/ Failure
    BY <1>1, <1>6, LifecycleFacts
  <1>7. CASE UNCHANGED vars
    BY <1>1, <1>7 DEF vars
  <1> QED BY <1>1, <1>2, <1>3, <1>4, <1>5, <1>6, <1>7 DEF Next

\* What a goroutine has done before it replies.
LEMMA WorkStep ==
  ASSUME TypeOK, WorkInv, [Next]_vars
  PROVE  WorkInv'
  <1> USE QueueAssumption
  <1> DEFINE Rec(m) == rows'[m] > 0 \/ m \in saveFailed' \/ Unrecordable(m)
  <1> DEFINE Good(q) ==
        /\ at'[q] = "ack" => msg'[q] \in handled'
        /\ at'[q] = "term" => Rec(msg'[q])
        /\ at'[q] = "nak" => att'[q] < MaxDeliver
        /\ at'[q] # "idle" => SubOf[msg'[q]] = q
  <1>0. WorkerType /\ OutcomeType /\ ConsumerType
    BY DEF TypeOK
  <1>1. ASSUME NEW q \in Subs, at'[q] = at[q], msg'[q] = msg[q], att'[q] = att[q] PROVE Good(q)
    <2>1. CASE at[q] = "idle"
      BY <1>1, <2>1
    <2>2. CASE at[q] # "idle"
      <3>1. msg[q] \in Msgs
        BY <1>0, <2>2, Busy
      <3>2. at[q] = "term" => Rec(msg[q])
        BY <3>1, OutcomesGrow DEF WorkInv, Recorded
      <3> QED BY <1>1, <3>1, <3>2, OutcomesGrow DEF WorkInv
    <2> QED BY <2>1, <2>2
  <1>2. CASE UNCHANGED workerVars
    <2>1. \A q \in Subs : Good(q)
      BY <1>1, <1>2 DEF workerVars
    <2> QED BY <2>1 DEF WorkInv
  <1>3. ASSUME NEW s \in Subs, handleMessage(s) PROVE WorkInv'
    <2>1. \A q \in Subs \ {s} : at'[q] = at[q] /\ msg'[q] = msg[q] /\ att'[q] = att[q]
      BY <1>3, <1>0
      DEF handleMessage, Pop, Begin, HandleOk, HandleTerminal, HandleTransient, deadLetter,
          deadLetterFails, ack, term, Settle, nak, ReplyLost, Return, Goto, WorkerType
    <2>2. Good(s)
      <3>1. ASSUME NEW m \in Msgs, NEW n \in 1..MaxDeliver, Pop(s, m, n) PROVE Good(s)
        <4>1. at'[s] = "popped" /\ msg'[s] = m
          BY <3>1, <1>0, PopFacts
        <4>2. SubOf[m] = s
          BY <3>1 DEF Pop
        <4> QED BY <4>1, <4>2
      <3>2. ASSUME at[s] # "idle", NEW e \in Stages \ {"idle"}, Goto(s, e),
                   e = "ack" => msg[s] \in handled',
                   e = "term" => Rec(msg[s]),
                   e = "nak" => att[s] < MaxDeliver
            PROVE  Good(s)
        <4>1. at'[s] = e /\ msg' = msg /\ att' = att
          BY <3>2, <1>0, GotoFacts
        <4> QED BY <3>2, <4>1 DEF WorkInv
      <3>3. CASE Begin(s)
        <4>1. PICK e \in {"handle", "dlq", "term"} : Goto(s, e) /\ e = Enter(msg[s])
          BY <3>3 DEF Begin, Enter
        <4>2. e = "term" => Rec(msg[s])
          <5>1. ASSUME e = "term" PROVE Unrecordable(msg[s])
            BY <5>1, <4>1 DEF Enter, Unrecordable
          <5> QED BY <5>1
        <4> QED BY <3>2, <3>3, <4>1, <4>2 DEF Begin, Stages
      <3>4. CASE HandleOk(s)
        BY <3>2, <3>4 DEF HandleOk, Stages
      <3>5. CASE HandleTerminal(s)
        BY <3>2, <3>5 DEF HandleTerminal, Stages
      <3>6. CASE HandleTransient(s)
        <4>1. CASE att[s] >= MaxDeliver
          BY <3>2, <3>6, <4>1 DEF HandleTransient, Stages
        <4>2. CASE ~(att[s] >= MaxDeliver)
          <5>1. att[s] < MaxDeliver
            BY <1>0, <4>2 DEF WorkerType
          <5> QED BY <3>2, <3>6, <4>2, <5>1 DEF HandleTransient, Stages
        <4> QED BY <4>1, <4>2
      <3>7. CASE deadLetter(s) \/ deadLetterFails(s)
        <4>1. msg[s] \in Msgs
          BY <1>0, <3>7, Busy DEF deadLetter, deadLetterFails
        <4>2. rows'[msg[s]] > 0 \/ msg[s] \in saveFailed'
          BY <1>0, <3>7, <4>1, SaveFacts DEF deadLetter, deadLetterFails
        <4>3. Rec(msg[s])
          BY <4>2
        <4> QED BY <3>2, <3>7, <4>3 DEF deadLetter, deadLetterFails, Stages
      <3>8. CASE Return(s)
        BY <3>8, <1>0, ReturnFacts
      <3> QED BY <1>3, <3>1, <3>3, <3>4, <3>5, <3>6, <3>7, <3>8
              DEF handleMessage, ack, term, Settle, nak, ReplyLost
    <2>3. \A q \in Subs : Good(q)
      BY <1>1, <2>1, <2>2
    <2> QED BY <2>3 DEF WorkInv
  <1>4. CASE Die
    BY <1>4 DEF Die, WorkInv
  <1>5. ASSUME NEW m \in Msgs, Consumer(m) PROVE UNCHANGED workerVars
    BY <1>5 DEF Consumer, Deliver, AckWaitExpires
  <1>6. CASE UNCHANGED vars
    BY <1>2, <1>6 DEF vars
  <1> QED BY <1>2, <1>3, <1>4, <1>5, <1>6, LifecycleFacts DEF Next

\* A settled task is accounted for.
LEMMA ResolvedStep ==
  ASSUME TypeOK, WorkInv, ResolvedIsAccounted, [Next]_vars
  PROVE  ResolvedIsAccounted'
  <1> SUFFICES ASSUME NEW m \in Msgs
               PROVE  /\ st'[m] = "acked" => m \in handled'
                      /\ st'[m] = "termed" => Recorded(m)'
    BY DEF ResolvedIsAccounted, Recorded
  <1>0. WorkerType /\ ConsumerType
    BY DEF TypeOK
  <1>1. CASE st'[m] = st[m] \/ st'[m] \in {"pending", "out", "exhausted"}
    BY <1>1, OutcomesGrow DEF ResolvedIsAccounted, Recorded
  <1>2. ASSUME NEW s \in Subs, ack(s) \/ term(s)
        PROVE  /\ st'[m] = "acked" => m \in handled'
               /\ st'[m] = "termed" => Recorded(m)'
    <2>1. msg[s] \in Msgs
      BY <1>0, <1>2, Busy DEF ack, term, Settle
    <2>2. CASE m # msg[s] \/ st[m] \in Final
      <3>1. st'[m] = st[m]
        BY <1>0, <1>2, <2>1, <2>2 DEF ack, term, Settle, ConsumerType
      <3> QED BY <3>1, <1>1
    <2>3. CASE m = msg[s] /\ ack(s)
      <3>1. m \in handled /\ (st'[m] = st[m] \/ st'[m] = "acked")
        BY <1>0, <2>1, <2>3 DEF ack, Settle, WorkInv, ConsumerType
      <3> QED BY <3>1, <1>1, OutcomesGrow
    <2>4. CASE m = msg[s] /\ term(s)
      <3>1. Recorded(m) /\ (st'[m] = st[m] \/ st'[m] = "termed")
        BY <1>0, <2>1, <2>4 DEF term, Settle, WorkInv, ConsumerType, Recorded
      <3> QED BY <3>1, <1>1, OutcomesGrow
    <2> QED BY <1>2, <2>2, <2>3, <2>4
  <1>3. ASSUME NEW s \in Subs, nak(s) PROVE st'[m] = st[m] \/ st'[m] \in {"pending", "out", "exhausted"}
    <2>1. msg[s] \in Msgs
      BY <1>0, <1>3, Busy DEF nak
    <2> QED BY <1>0, <1>3, <2>1 DEF nak, Requeue, ConsumerType
  <1>4. ASSUME NEW k \in Msgs, Consumer(k)
        PROVE  st'[m] = st[m] \/ st'[m] \in {"pending", "out", "exhausted"}
    BY <1>0, <1>4 DEF Consumer, Deliver, AckWaitExpires, Requeue, ConsumerType
  <1>5. ASSUME NEW s \in Subs, handleMessage(s)
        PROVE  UNCHANGED brokerVars \/ ack(s) \/ term(s) \/ nak(s)
    BY <1>5 DEF handleMessage, Pop, Begin, HandleOk, HandleTerminal, HandleTransient, deadLetter,
                deadLetterFails, ReplyLost
  <1>6. CASE UNCHANGED brokerVars
    BY <1>1, <1>6 DEF brokerVars
  <1>7. CASE UNCHANGED vars
    BY <1>6, <1>7 DEF vars
  <1>8. CASE Lifecycle \/ Failure
    <2>1. ASSUME NEW s \in Subs, Start(s) PROVE st'[m] = st[m]
      BY <2>1 DEF Start
    <2>2. ASSUME NEW s \in Subs, DeleteConsumer(s) PROVE st'[m] = st[m] \/ st'[m] = "pending"
      BY <2>2 DEF DeleteConsumer
    <2> QED BY <1>1, <1>6, <1>8, <2>1, <2>2, LifecycleFacts
  <1> QED BY <1>1, <1>2, <1>3, <1>4, <1>5, <1>6, <1>7, <1>8 DEF Next

\* Whether a call of handleMessage may still write is known from its goroutine.
LEMMA UnwrittenFacts ==
  ASSUME NEW m \in Msgs
  PROVE  /\ Unwritten(m) \in {0, 1}
         /\ Unwritten(m)' \in {0, 1}
         /\ Unwritten(m) = 1
               <=> msg[SubOf[m]] = m /\ at[SubOf[m]] \in {"popped", "handle", "dlq"}
         /\ Unwritten(m)' = 1
               <=> msg'[SubOf[m]] = m /\ at'[SubOf[m]] \in {"popped", "handle", "dlq"}
  BY DEF Unwritten

\* Each call of handleMessage writes at most one row.
LEMMA RowsStep ==
  ASSUME TypeOK, TypeOK', WorkInv, RowsInv, [Next]_vars
  PROVE  RowsInv'
  <1> USE QueueAssumption
  <1>0. /\ WorkerType /\ OutcomeType /\ rows' \in [Msgs -> Nat] /\ calls' \in [Msgs -> Nat]
        /\ rows \in [Msgs -> Nat] /\ calls \in [Msgs -> Nat]
    BY DEF TypeOK, WorkerType, OutcomeType
  <1> SUFFICES ASSUME NEW m \in Msgs PROVE rows'[m] + Unwritten(m)' <= calls'[m]
    BY DEF RowsInv
  <1> DEFINE o == SubOf[m]
  <1>1. /\ o \in Subs /\ m # None
        /\ rows[m] \in Nat /\ calls[m] \in Nat /\ rows'[m] \in Nat /\ calls'[m] \in Nat
        /\ rows[m] + Unwritten(m) <= calls[m]
    BY <1>0 DEF RowsInv
  <1>2. ASSUME rows'[m] = rows[m], calls'[m] = calls[m],
               /\ msg'[o] = m /\ at'[o] \in {"popped", "handle", "dlq"}
               => msg[o] = m /\ at[o] \in {"popped", "handle", "dlq"}
        PROVE  rows'[m] + Unwritten(m)' <= calls'[m]
    BY <1>1, <1>2, UnwrittenFacts
  <1>3. ASSUME NEW s \in Subs, NEW k \in Msgs, NEW n \in 1..MaxDeliver, Pop(s, k, n)
        PROVE  rows'[m] + Unwritten(m)' <= calls'[m]
    <2>1. /\ at'[s] = "popped" /\ msg'[s] = k
          /\ \A q \in Subs \ {s} : at'[q] = at[q] /\ msg'[q] = msg[q]
          /\ calls'[m] = IF k = m THEN calls[m] + 1 ELSE calls[m]
      BY <1>0, <1>3, PopFacts
    <2>2. rows' = rows /\ at[s] = "idle" /\ SubOf[k] = s /\ msg[s] = None
      BY <1>0, <1>3 DEF Pop, outcomeVars, WorkerType
    <2>3. CASE k = m
      <3>1. Unwritten(m) = 0
        BY <1>1, <2>2, <2>3, UnwrittenFacts
      <3> QED BY <1>1, <2>1, <2>2, <2>3, <3>1, UnwrittenFacts
    <2>4. CASE k # m
      BY <1>1, <1>2, <2>1, <2>2, <2>4
    <2> QED BY <2>3, <2>4
  <1>4. ASSUME NEW s \in Subs, deadLetter(s) \/ deadLetterFails(s)
        PROVE  rows'[m] + Unwritten(m)' <= calls'[m]
    <2>1. at[s] = "dlq" /\ Goto(s, "term") /\ (save(msg[s]) \/ UNCHANGED rows)
      BY <1>4 DEF deadLetter, deadLetterFails
    <2>2. at'[s] = "term" /\ msg' = msg /\ calls' = calls /\ \A q \in Subs \ {s} : at'[q] = at[q]
      BY <1>0, <2>1, GotoFacts DEF Stages
    <2>3. msg[s] \in Msgs /\ SubOf[msg[s]] = s
      BY <1>0, <2>1, Busy DEF WorkInv
    <2>4. rows'[m] <= rows[m] + 1 /\ (m # msg[s] => rows'[m] = rows[m])
      BY <1>0, <1>1, <2>1, <2>3, SaveFacts
    <2>5. CASE m = msg[s]
      <3>1. Unwritten(m) = 1 /\ Unwritten(m)' = 0
        BY <2>1, <2>2, <2>3, <2>5, UnwrittenFacts
      <3> QED BY <1>1, <2>2, <2>4, <3>1
    <2>6. CASE m # msg[s]
      BY <1>1, <1>2, <2>1, <2>2, <2>4, <2>6
    <2> QED BY <2>5, <2>6
  <1>5. ASSUME NEW s \in Subs, Begin(s) \/ HandleOk(s) \/ HandleTerminal(s) \/ HandleTransient(s)
        PROVE  rows'[m] + Unwritten(m)' <= calls'[m]
    <2>1. /\ at[s] \in {"popped", "handle"} /\ rows' = rows
          /\ \E e \in Stages \ {"idle"} : Goto(s, e)
      BY <1>5 DEF Begin, HandleOk, HandleTerminal, HandleTransient, Enter, Stages, outcomeVars
    <2>2. msg' = msg /\ calls' = calls /\ \A q \in Subs \ {s} : at'[q] = at[q]
      BY <1>0, <2>1, GotoFacts
    <2> QED BY <1>1, <1>2, <2>1, <2>2
  <1>6. ASSUME NEW s \in Subs, ack(s) \/ term(s) \/ nak(s) \/ ReplyLost(s)
        PROVE  rows'[m] + Unwritten(m)' <= calls'[m]
    <2>1. Return(s) /\ rows' = rows
      BY <1>6 DEF ack, term, Settle, nak, ReplyLost, outcomeVars
    <2>2. /\ at'[s] = "idle" /\ calls' = calls
          /\ \A q \in Subs \ {s} : at'[q] = at[q] /\ msg'[q] = msg[q]
      BY <1>0, <2>1, ReturnFacts
    <2> QED BY <1>1, <1>2, <2>1, <2>2
  <1>7. CASE UNCHANGED <<workerVars, outcomeVars>>
    BY <1>1, <1>2, <1>7 DEF workerVars, outcomeVars
  <1>8. CASE Die
    BY <1>1, <1>2, <1>8 DEF Die, outcomeVars
  <1>9. ASSUME NEW k \in Msgs, Consumer(k) PROVE UNCHANGED <<workerVars, outcomeVars>>
    BY <1>9 DEF Consumer, Deliver, AckWaitExpires
  <1>10. CASE UNCHANGED vars
    BY <1>7, <1>10 DEF vars
  <1> QED BY <1>3, <1>4, <1>5, <1>6, <1>7, <1>8, <1>9, <1>10, LifecycleFacts
          DEF Next, handleMessage

\* A task with an id has one dead letter, and any task one for each call.
LEMMA DeadLetterStep ==
  ASSUME TypeOK, TypeOK', DeadLetterOnce, RowsInv', [Next]_vars
  PROVE  DeadLetterOnce'
  <1>0. WorkerType /\ OutcomeType /\ rows' \in [Msgs -> Nat] /\ calls' \in [Msgs -> Nat]
    BY DEF TypeOK, WorkerType, OutcomeType
  <1> SUFFICES \A m \in Msgs : m \notin Unkeyed => rows'[m] <= 1
    <2>1. ASSUME NEW m \in Msgs PROVE rows'[m] <= calls'[m]
      <3>1. rows'[m] + Unwritten(m)' <= calls'[m]
        BY DEF RowsInv
      <3>2. rows'[m] \in Nat /\ calls'[m] \in Nat
        BY <1>0
      <3> QED BY <3>1, <3>2, UnwrittenFacts
    <2> QED BY <2>1 DEF DeadLetterOnce
  <1>1. CASE UNCHANGED rows
    BY <1>1 DEF DeadLetterOnce
  <1>2. ASSUME NEW s \in Subs, deadLetter(s) \/ deadLetterFails(s)
        PROVE  \A m \in Msgs : m \notin Unkeyed => rows'[m] <= 1
    <2>1. msg[s] \in Msgs
      BY <1>0, <1>2, Busy DEF deadLetter, deadLetterFails
    <2>2. CASE save(msg[s])
      BY <1>0, <2>1, <2>2, SaveFacts DEF DeadLetterOnce
    <2> QED BY <1>1, <1>2, <2>2 DEF deadLetter, deadLetterFails
  <1>3. ASSUME NEW s \in Subs, handleMessage(s) PROVE UNCHANGED rows \/ deadLetter(s) \/ deadLetterFails(s)
    BY <1>3 DEF handleMessage, Pop, Begin, HandleOk, HandleTerminal, HandleTransient, ack, term,
                Settle, nak, ReplyLost, outcomeVars
  <1>4. ASSUME NEW m \in Msgs, Consumer(m) PROVE UNCHANGED rows
    BY <1>4 DEF Consumer, Deliver, AckWaitExpires, outcomeVars
  <1>5. CASE Lifecycle \/ Failure
    BY <1>1, <1>5, LifecycleFacts DEF outcomeVars
  <1>6. CASE UNCHANGED vars
    BY <1>1, <1>6 DEF vars, outcomeVars
  <1> QED BY <1>1, <1>2, <1>3, <1>4, <1>5, <1>6 DEF Next

\* Deliveries of a message whose AckWait never passed.
LEMMA FreshStep ==
  ASSUME TypeOK, WorkInv, FreshInv, GoneInv, [Next]_vars
  PROVE  FreshInv'
  <1> USE QueueAssumption
  <1>0. WorkerType /\ ConsumerType /\ ClientType
    BY DEF TypeOK
  <1> DEFINE Good(m) ==
        /\ st'[m] # "exhausted"
        /\ \A n \in 1..MaxDeliver : <<m, n>> \in buf' => n = num'[m] /\ st'[m] = "out"
        /\ \A s \in Subs : msg'[s] = m =>
              att'[s] = num'[m] /\ st'[m] = "out" /\ <<m, num'[m]>> \notin buf'
  <1> SUFFICES ASSUME NEW m \in Msgs, m \notin silent', SubOf[m] \notin gone' PROVE Good(m)
    BY DEF FreshInv
  <1> DEFINE Fresh == m \in {k \in Msgs \ silent : SubOf[k] \notin gone} /\ m # None
  <1>a. ASSUME NEW s \in Subs, Start(s) PROVE Good(m)
    <2>1. /\ UNCHANGED <<st, num, silent, buf, at, msg, att>> /\ gone' = gone \ {s}
          /\ s \notin subs /\ proc = "starting"
      BY <1>a DEF Start, workerVars
    <2>2. CASE SubOf[m] \notin gone
      BY <2>1, <2>2 DEF FreshInv
    <2>3. CASE SubOf[m] \in gone
      <3>1. SubOf[m] = s /\ st[m] = "pending"
        BY <2>1, <2>3 DEF GoneInv
      <3>2. \A n \in 1..MaxDeliver : <<m, n>> \notin buf
        BY <2>1, <3>1 DEF GoneInv
      <3>3. \A q \in Subs : msg[q] # m
        BY <1>0, <2>1, <3>1 DEF GoneInv, WorkInv, WorkerType
      <3> QED BY <2>1, <3>1, <3>2, <3>3
    <2> QED BY <2>2, <2>3
  <1>b. ASSUME NEW s \in Subs, Unsubscribe(s), DeleteConsumer(s) PROVE Good(m)
    <2>1. SubOf[m] # s /\ SubOf[m] \notin gone /\ m \notin silent
      BY <1>b DEF DeleteConsumer
    <2>2. st'[m] = st[m] /\ num'[m] = num[m] /\ buf' \subseteq buf /\ msg' = msg /\ att' = att
      BY <1>b, <2>1 DEF DeleteConsumer, Unsubscribe, workerVars
    <2> QED BY <2>1, <2>2 DEF FreshInv
  <1>c. CASE ~Fresh
    <2>1. CASE Lifecycle \/ Failure
      BY <1>a, <1>b, <1>c, <2>1, LifecycleFacts DEF brokerVars
    <2>2. CASE \/ \E k \in Msgs : Consumer(k)
               \/ \E s \in Subs : handleMessage(s)
               \/ UNCHANGED vars
      BY <1>c, <2>2
      DEF Consumer, Deliver, AckWaitExpires, handleMessage, Pop, Begin, HandleOk,
          HandleTerminal, HandleTransient, deadLetter, deadLetterFails, ack, term, Settle, nak,
          ReplyLost, vars, brokerVars
    <2> QED BY <2>1, <2>2 DEF Next
  <1> SUFFICES ASSUME Fresh PROVE Good(m)
    BY <1>c
  <1>1. m \notin silent /\ SubOf[m] \notin gone /\ m # None
    OBVIOUS
  <1>2. ASSUME st'[m] = st[m], num'[m] = num[m], buf' \subseteq buf,
               \A s \in Subs : msg'[s] = m => msg[s] = m /\ att'[s] = att[s]
        PROVE  Good(m)
    BY <1>1, <1>2 DEF FreshInv
  <1>3. ASSUME NEW k \in Msgs, Deliver(k) PROVE Good(m)
    <2>1. CASE k # m
      <3>1. st'[m] = st[m] /\ num'[m] = num[m] /\ msg' = msg /\ att' = att
        BY <1>0, <1>3, <2>1 DEF Deliver, ConsumerType, workerVars
      <3>2. \A n \in 0..MaxDeliver : <<m, n>> \in buf' => <<m, n>> \in buf
        BY <1>3, <2>1 DEF Deliver
      <3>3. num[m] \in 0..MaxDeliver
        BY <1>0 DEF ConsumerType
      <3> QED BY <1>1, <3>1, <3>2, <3>3 DEF FreshInv
    <2>2. CASE k = m
      <3>1. /\ st[m] = "pending" /\ st'[m] = "out" /\ num'[m] = num[m] + 1
            /\ buf' = buf \union {<<m, num'[m]>>} /\ msg' = msg
        BY <1>0, <1>3, <2>2 DEF Deliver, ConsumerType, workerVars
      <3>2. \A s \in Subs : msg[s] # m
        BY <1>1, <3>1 DEF FreshInv
      <3>3. \A n \in 1..MaxDeliver : <<m, n>> \notin buf
        BY <1>1, <3>1 DEF FreshInv
      <3> QED BY <3>1, <3>2, <3>3
    <2> QED BY <2>1, <2>2
  <1>4. ASSUME NEW k \in Msgs, AckWaitExpires(k) PROVE Good(m)
    <2>1. st'[m] = st[m] /\ num' = num /\ buf' = buf /\ msg' = msg /\ att' = att
      BY <1>0, <1>4 DEF AckWaitExpires, ConsumerType, clientVars, workerVars
    <2> QED BY <1>2, <2>1
  <1>5. ASSUME NEW s \in Subs, NEW k \in Msgs, NEW n \in 1..MaxDeliver, Pop(s, k, n) PROVE Good(m)
    <2>1. /\ msg'[s] = k /\ att'[s] = n
          /\ \A q \in Subs \ {s} : msg'[q] = msg[q] /\ att'[q] = att[q]
      BY <1>0, <1>5, PopFacts
    <2>2. st' = st /\ num' = num /\ buf' = buf \ {<<k, n>>} /\ <<k, n>> \in buf
      BY <1>5 DEF Pop, brokerVars
    <2>3. CASE k # m
      <3>1. \A q \in Subs : msg'[q] = m => msg[q] = m /\ att'[q] = att[q]
        BY <2>1, <2>3
      <3> QED BY <1>2, <2>2, <3>1
    <2>4. CASE k = m
      <3>1. n = num[m] /\ st[m] = "out"
        BY <1>1, <2>2, <2>4 DEF FreshInv
      <3>2. \A q \in Subs : msg[q] # m
        BY <1>1, <2>2, <2>4, <3>1 DEF FreshInv
      <3>3. \A q \in Subs : msg'[q] = m => att'[q] = num'[m]
        BY <2>1, <2>2, <3>1, <3>2
      <3> QED BY <1>1, <2>2, <2>4, <3>1, <3>3 DEF FreshInv
    <2> QED BY <2>3, <2>4
  <1>6. ASSUME NEW s \in Subs, ack(s) \/ term(s) \/ nak(s) PROVE Good(m)
    <2>1. /\ msg'[s] = None
          /\ \A q \in Subs \ {s} : msg'[q] = msg[q] /\ att'[q] = att[q]
      BY <1>0, <1>6, ReturnFacts DEF ack, term, Settle, nak
    <2>2. num' = num /\ buf' = buf
      BY <1>6 DEF ack, term, Settle, nak, clientVars
    <2>3. at[s] # "idle" /\ msg[s] \in Msgs
      BY <1>0, <1>6, Busy DEF ack, term, Settle, nak
    <2>4. CASE msg[s] # m
      <3>1. st'[m] = st[m]
        BY <1>0, <1>6, <2>3, <2>4 DEF ack, term, Settle, nak, ConsumerType
      <3> QED BY <1>1, <1>2, <2>1, <2>2, <3>1
    <2>5. CASE msg[s] = m
      <3>1. att[s] = num[m] /\ st[m] = "out" /\ <<m, num[m]>> \notin buf
        BY <1>1, <2>5 DEF FreshInv
      <3>2. \A q \in Subs : msg'[q] # m
        <4>1. \A q \in Subs : msg[q] = m => q = s
          BY <1>0, <1>1, <2>5 DEF WorkInv, WorkerType
        <4> QED BY <1>1, <2>1, <4>1
      <3>3. \A n \in 1..MaxDeliver : <<m, n>> \notin buf'
        BY <1>1, <2>2, <3>1 DEF FreshInv
      <3>4. st'[m] # "exhausted"
        <4>1. CASE nak(s)
          <5>1. num[m] < MaxDeliver
            BY <3>1, <4>1 DEF nak, WorkInv
          <5> QED BY <1>0, <2>5, <3>1, <4>1, <5>1 DEF nak, Requeue, ConsumerType
        <4>2. CASE ack(s) \/ term(s)
          BY <1>0, <2>5, <3>1, <4>2 DEF ack, term, Settle, ConsumerType, Final
        <4> QED BY <1>6, <4>1, <4>2
      <3> QED BY <3>2, <3>3, <3>4
    <2> QED BY <2>4, <2>5
  <1>7. ASSUME NEW s \in Subs, ReplyLost(s) PROVE Good(m)
    <2>1. /\ msg'[s] = None
          /\ \A q \in Subs \ {s} : msg'[q] = msg[q] /\ att'[q] = att[q]
      BY <1>0, <1>7, ReturnFacts DEF ReplyLost
    <2>2. st' = st /\ num' = num /\ buf' = buf
      BY <1>7 DEF ReplyLost, brokerVars, clientVars
    <2> QED BY <1>1, <1>2, <2>1, <2>2
  <1>8. ASSUME NEW s \in Subs, handleMessage(s) PROVE Good(m)
    <2>1. CASE UNCHANGED <<brokerVars, buf, msg, att>>
      BY <1>2, <2>1 DEF brokerVars
    <2>2. CASE \/ Begin(s) \/ HandleOk(s) \/ HandleTerminal(s) \/ HandleTransient(s)
               \/ deadLetter(s) \/ deadLetterFails(s)
      BY <2>1, <2>2 DEF Begin, HandleOk, HandleTerminal, HandleTransient, deadLetter,
                        deadLetterFails, Goto, clientVars
    <2> QED BY <1>5, <1>6, <1>7, <1>8, <2>2 DEF handleMessage
  <1>9. CASE Lifecycle \/ Failure
    <2>1. CASE UNCHANGED brokerVars
      <3>1. st' = st /\ num' = num /\ buf' \subseteq buf
        BY <1>9, <2>1, LifecycleFacts DEF brokerVars
      <3>2. \A s \in Subs : msg'[s] = m => msg[s] = m /\ att'[s] = att[s]
        BY <1>1, <1>9, LifecycleFacts DEF Die, workerVars
      <3> QED BY <1>2, <3>1, <3>2
    <2> QED BY <1>9, <1>a, <1>b, <2>1, LifecycleFacts
  <1>10. CASE UNCHANGED vars
    BY <1>2, <1>10 DEF vars, brokerVars, clientVars, workerVars
  <1> QED BY <1>3, <1>4, <1>8, <1>9, <1>10 DEF Next, Consumer

\* Without a consumer nothing is known of a task, and without a subscription nothing is in flight.
LEMMA GoneStep ==
  ASSUME TypeOK, WorkInv, GoneInv, [Next]_vars
  PROVE  GoneInv'
  <1> USE QueueAssumption
  <1>0. WorkerType /\ ConsumerType /\ ClientType
    BY DEF TypeOK
  <1>1. ASSUME NEW m \in Msgs, Deliver(m) PROVE GoneInv'
    <2>1. SubOf[m] \in subs /\ SubOf[m] \notin gone
      BY <1>1 DEF Deliver, GoneInv
    <2>2. \A k \in Msgs : SubOf[k] \in gone => st'[k] = "pending" /\ num'[k] = 0
      BY <1>0, <1>1, <2>1 DEF Deliver, GoneInv, ConsumerType
    <2>3. \A d \in buf' : SubOf[d[1]] \in subs
      BY <1>1, <2>1 DEF Deliver, GoneInv
    <2> QED BY <1>1, <2>2, <2>3 DEF Deliver, GoneInv, workerVars
  <1>2. ASSUME NEW m \in Msgs, AckWaitExpires(m) PROVE GoneInv'
    <2>1. \A k \in Msgs : SubOf[k] \in gone => st'[k] = "pending" /\ num'[k] = 0
      BY <1>0, <1>2 DEF AckWaitExpires, GoneInv, ConsumerType
    <2> QED BY <1>2, <2>1 DEF AckWaitExpires, GoneInv, workerVars, clientVars
  <1>3. ASSUME NEW s \in Subs, handleMessage(s) PROVE GoneInv'
    <2>1. UNCHANGED <<num, gone, proc, subs>> /\ buf' \subseteq buf
      BY <1>3
      DEF handleMessage, Pop, Begin, HandleOk, HandleTerminal, HandleTransient, deadLetter,
          deadLetterFails, ack, term, Settle, nak, ReplyLost, brokerVars, clientVars
    <2>2. \A m \in Msgs : SubOf[m] \in gone => st'[m] = st[m]
      <3>1. CASE ack(s) \/ term(s) \/ nak(s)
        <4>1. msg[s] \in Msgs /\ SubOf[msg[s]] = s
          BY <1>0, <3>1, Busy DEF ack, term, Settle, nak, WorkInv
        <4> QED BY <1>0, <3>1, <4>1 DEF ack, term, Settle, nak, ConsumerType
      <3>2. CASE UNCHANGED brokerVars
        BY <3>2 DEF brokerVars
      <3> QED BY <1>3, <3>1, <3>2
              DEF handleMessage, Pop, Begin, HandleOk, HandleTerminal, HandleTransient, deadLetter,
                  deadLetterFails, ReplyLost
    <2>3. /\ at[s] # "idle" \/ s \in subs
          /\ \A q \in Subs \ {s} : at'[q] = at[q]
      BY <1>3, <1>0
      DEF handleMessage, Pop, Begin, HandleOk, HandleTerminal, HandleTransient, deadLetter,
          deadLetterFails, ack, term, Settle, nak, ReplyLost, Return, Goto, WorkerType
    <2>4. proc \in {"starting", "down"} => \A q \in Subs \ subs : at'[q] = "idle"
      BY <2>3 DEF GoneInv
    <2> QED BY <2>1, <2>2, <2>4 DEF GoneInv
  <1>4. ASSUME NEW s \in Subs, Start(s) PROVE GoneInv'
    BY <1>4 DEF Start, GoneInv, workerVars
  <1>5. ASSUME NEW s \in Subs, Unsubscribe(s) PROVE GoneInv'
    <2>1. /\ gone' \subseteq gone \union {s} /\ subs' = subs \ {s}
          /\ proc' \notin {"starting", "down"}
          /\ \A d \in buf' : d \in buf /\ SubOf[d[1]] # s
      BY <1>5 DEF Unsubscribe, DeleteConsumer, brokerVars
    <2>2. \A m \in Msgs : SubOf[m] \in gone' => st'[m] = "pending" /\ num'[m] = 0
      BY <1>5 DEF Unsubscribe, DeleteConsumer, brokerVars, GoneInv
    <2> QED BY <2>1, <2>2 DEF GoneInv
  <1>6. CASE Die
    BY <1>6 DEF Die, GoneInv, brokerVars
  <1>7. CASE StartFails \/ Stop \/ StopDrained \/ StopTimesOut \/ NewQueueSubscriber
    BY <1>7 DEF StartFails, Stop, StopDrained, StopTimesOut, NewQueueSubscriber, GoneInv, brokerVars,
                workerVars
  <1>8. CASE UNCHANGED vars
    BY <1>8 DEF vars, brokerVars, workerVars, clientVars, GoneInv
  <1> QED BY <1>1, <1>2, <1>3, <1>4, <1>5, <1>6, <1>7, <1>8
          DEF Next, Consumer, Lifecycle, Failure, Exit, Crash

\* Every deletion of a consumer is paid for by the Stop that made it.
LEMMA DeletionStep ==
  ASSUME TypeOK, DeletionInv, [Next]_vars
  PROVE  DeletionInv'
  <1> SUFFICES ASSUME NEW q \in Subs
               PROVE  deletions'[q] + (IF proc' = "stopping" /\ q \in subs' THEN 1 ELSE 0) <= faults'
    BY DEF DeletionInv
  <1>0. /\ deletions \in [Subs -> Nat] /\ deletions[q] \in Nat /\ faults \in Nat
        /\ deletions[q] + (IF proc = "stopping" /\ q \in subs THEN 1 ELSE 0) <= faults
    BY QueueAssumption DEF TypeOK, ConsumerType, ClientType, DeletionInv
  <1>1. ASSUME deletions'[q] = deletions[q], faults' \in {faults, faults + 1},
               proc' = "stopping" /\ q \in subs' => proc = "stopping" /\ q \in subs
        PROVE  deletions'[q] + (IF proc' = "stopping" /\ q \in subs' THEN 1 ELSE 0) <= faults'
    BY <1>0, <1>1
  <1>2. ASSUME NEW m \in Msgs, Consumer(m)
        PROVE  UNCHANGED <<deletions, faults, proc, subs>>
    BY <1>2 DEF Consumer, Deliver, AckWaitExpires, clientVars
  <1>3. ASSUME NEW s \in Subs, handleMessage(s)
        PROVE  UNCHANGED <<deletions, proc, subs>> /\ faults' \in {faults, faults + 1}
    BY <1>3
    DEF handleMessage, Pop, Begin, HandleOk, HandleTerminal, HandleTransient, deadLetter,
        deadLetterFails, ack, term, Settle, nak, ReplyLost, brokerVars, clientVars, Fault
  <1>4. ASSUME NEW s \in Subs, Start(s)
        PROVE  UNCHANGED <<deletions, faults>> /\ proc' # "stopping"
    BY <1>4 DEF Start
  <1>5. ASSUME NEW s \in Subs, Unsubscribe(s)
        PROVE  deletions'[q] + (IF proc' = "stopping" /\ q \in subs' THEN 1 ELSE 0) <= faults'
    <2>1. faults' = faults /\ subs' = subs \ {s} /\ proc = "stopping" /\ s \in subs
      BY <1>5 DEF Unsubscribe
    <2>2. CASE q # s
      <3>1. deletions'[q] = deletions[q]
        BY <1>0, <1>5, <2>2 DEF Unsubscribe, DeleteConsumer, brokerVars
      <3> QED BY <1>1, <2>1, <3>1
    <2>3. CASE q = s
      <3>1. deletions'[q] \in {deletions[q], deletions[q] + 1}
        BY <1>0, <1>5, <2>3 DEF Unsubscribe, DeleteConsumer, brokerVars
      <3> QED BY <1>0, <2>1, <2>3, <3>1
    <2> QED BY <2>2, <2>3
  <1>6. CASE Stop
    BY <1>0, <1>6 DEF Stop, Fault, brokerVars
  <1>7. CASE StartFails \/ StopDrained \/ StopTimesOut \/ NewQueueSubscriber \/ Exit \/ Crash
    BY <1>1, <1>7 DEF StartFails, StopDrained, StopTimesOut, NewQueueSubscriber, Exit, Crash, Die,
                      Fault, brokerVars
  <1>8. CASE UNCHANGED vars
    BY <1>1, <1>8 DEF vars, brokerVars, clientVars
  <1> QED BY <1>1, <1>2, <1>3, <1>4, <1>5, <1>6, <1>7, <1>8 DEF Next, Lifecycle, Failure

\* What is in flight has been delivered, and where handleMessage is says what could be read.
LEMMA AttemptStep ==
  ASSUME TypeOK, AttemptInv, [Next]_vars
  PROVE  AttemptInv'
  <1> USE QueueAssumption
  <1>0. WorkerType /\ ConsumerType /\ ClientType
    BY DEF TypeOK
  <1> DEFINE Good(s) ==
        /\ at'[s] # "idle" => calls'[msg'[s]] > 0
        /\ at'[s] = "handle" => msg'[s] \notin Malformed \union NoMeta
        /\ at'[s] = "dlq" => ~Unrecordable(msg'[s])
  <1>1. ASSUME NEW m \in Msgs, Deliver(m) PROVE AttemptInv'
    <2>1. /\ num'[m] > 0
          /\ \A k \in Msgs : num[k] > 0 => num'[k] > 0
      BY <1>0, <1>1 DEF Deliver, ConsumerType
    <2>2. \A d \in buf' : num'[d[1]] > 0
      <3>1. ASSUME NEW d \in buf PROVE num'[d[1]] > 0
        BY <1>0, <2>1 DEF AttemptInv, ClientType
      <3> QED BY <1>1, <2>1, <3>1 DEF Deliver
    <2>3. \A k \in Msgs : st'[k] = "out" => num'[k] > 0
      BY <1>0, <1>1, <2>1 DEF Deliver, AttemptInv, ConsumerType
    <2>4. \A s \in Subs : Good(s)
      BY <1>0, <1>1 DEF Deliver, AttemptInv, workerVars
    <2> QED BY <2>2, <2>3, <2>4 DEF AttemptInv, Unrecordable
  <1>2. ASSUME num' = num, buf' \subseteq buf,
               \A m \in Msgs : st'[m] = "out" => st[m] = "out",
               \A s \in Subs : Good(s)
        PROVE  AttemptInv'
    <2>1. \A m \in Msgs : st'[m] = "out" => num'[m] > 0
      BY <1>2 DEF AttemptInv
    <2>2. \A d \in buf' : num'[d[1]] > 0
      BY <1>2 DEF AttemptInv
    <2> QED BY <1>2, <2>1, <2>2 DEF AttemptInv, Unrecordable
  <1>3. ASSUME NEW s \in Subs, at'[s] = at[s], msg'[s] = msg[s],
               \A k \in Msgs : calls[k] > 0 => calls'[k] > 0
        PROVE  Good(s)
    BY <1>0, <1>3, Busy DEF AttemptInv
  <1>4. ASSUME NEW m \in Msgs, AckWaitExpires(m) PROVE AttemptInv'
    <2>1. \A k \in Msgs : st'[k] = "out" => st[k] = "out"
      BY <1>0, <1>4 DEF AckWaitExpires, Requeue, ConsumerType
    <2>2. /\ num' = num /\ buf' = buf /\ calls' = calls
          /\ \A s \in Subs : at'[s] = at[s] /\ msg'[s] = msg[s]
      BY <1>4 DEF AckWaitExpires, clientVars, workerVars
    <2> QED BY <1>2, <1>3, <2>1, <2>2
  <1>5. ASSUME NEW s \in Subs, handleMessage(s) PROVE AttemptInv'
    <2>1. \A q \in Subs \ {s} : at'[q] = at[q] /\ msg'[q] = msg[q]
      BY <1>5, <1>0
      DEF handleMessage, Pop, Begin, HandleOk, HandleTerminal, HandleTransient, deadLetter,
          deadLetterFails, ack, term, Settle, nak, ReplyLost, Return, Goto, WorkerType
    <2>2. num' = num /\ buf' \subseteq buf
      BY <1>5
      DEF handleMessage, Pop, Begin, HandleOk, HandleTerminal, HandleTransient, deadLetter,
          deadLetterFails, ack, term, Settle, nak, ReplyLost, brokerVars, clientVars
    <2>c. \A k \in Msgs : calls[k] > 0 => calls'[k] > 0
      <3>1. ASSUME NEW m \in Msgs, NEW n \in 1..MaxDeliver, Pop(s, m, n)
            PROVE  \A k \in Msgs : calls[k] > 0 => calls'[k] > 0
        BY <1>0, <3>1, PopFacts DEF WorkerType
      <3>2. CASE UNCHANGED calls
        BY <3>2
      <3> QED BY <1>5, <3>1, <3>2
              DEF handleMessage, Begin, HandleOk, HandleTerminal, HandleTransient, deadLetter,
                  deadLetterFails, ack, term, Settle, nak, ReplyLost, Return, Goto
    <2>3. \A m \in Msgs : st'[m] = "out" => st[m] = "out"
      <3>1. CASE ack(s) \/ term(s) \/ nak(s)
        <4>1. msg[s] \in Msgs
          BY <1>0, <3>1, Busy DEF ack, term, Settle, nak
        <4> QED BY <1>0, <3>1, <4>1 DEF ack, term, Settle, nak, Requeue, ConsumerType
      <3>2. CASE UNCHANGED brokerVars
        BY <3>2 DEF brokerVars
      <3> QED BY <1>5, <3>1, <3>2
              DEF handleMessage, Pop, Begin, HandleOk, HandleTerminal, HandleTransient, deadLetter,
                  deadLetterFails, ReplyLost
    <2>4. Good(s)
      <3>1. ASSUME NEW m \in Msgs, NEW n \in 1..MaxDeliver, Pop(s, m, n) PROVE Good(s)
        <4>1. at'[s] = "popped" /\ msg'[s] = m
          BY <3>1, <1>0, PopFacts
        <4>2. calls'[m] > 0
          BY <3>1, <1>0, PopFacts DEF WorkerType
        <4> QED BY <4>1, <4>2
      <3>2. ASSUME at[s] # "idle", NEW e \in Stages \ {"idle"}, Goto(s, e),
                   e = "handle" => msg[s] \notin Malformed \union NoMeta,
                   e = "dlq" => ~Unrecordable(msg[s])
            PROVE  Good(s)
        <4>1. at'[s] = e /\ msg' = msg /\ calls' = calls
          BY <3>2, <1>0, GotoFacts
        <4> QED BY <3>2, <4>1 DEF AttemptInv
      <3>3. CASE Begin(s)
        <4>1. PICK e \in {"handle", "dlq", "term"} : Goto(s, e) /\ e = Enter(msg[s])
          BY <3>3 DEF Begin, Enter
        <4>2. /\ e = "handle" => msg[s] \notin Malformed \union NoMeta
              /\ e = "dlq" => ~Unrecordable(msg[s])
          BY <4>1 DEF Enter, Unrecordable
        <4> QED BY <3>2, <3>3, <4>1, <4>2 DEF Begin, Stages
      <3>4. CASE HandleOk(s) \/ HandleTerminal(s) \/ HandleTransient(s)
        <4>1. PICK e \in {"ack", "dlq", "nak"} : Goto(s, e) /\ at[s] = "handle"
          BY <3>4 DEF HandleOk, HandleTerminal, HandleTransient
        <4>2. ~Unrecordable(msg[s])
          BY <4>1 DEF AttemptInv, Unrecordable
        <4> QED BY <3>2, <4>1, <4>2 DEF Stages
      <3>5. CASE deadLetter(s) \/ deadLetterFails(s)
        BY <3>2, <3>5 DEF deadLetter, deadLetterFails, Stages
      <3>6. CASE Return(s)
        BY <3>6, <1>0, ReturnFacts
      <3> QED BY <1>5, <3>1, <3>3, <3>4, <3>5, <3>6
              DEF handleMessage, ack, term, Settle, nak, ReplyLost
    <2> QED BY <1>2, <1>3, <2>1, <2>2, <2>c, <2>3, <2>4
  <1>6. CASE Lifecycle \/ Failure
    <2>1. \A s \in Subs : Good(s)
      <3>1. CASE Die
        BY <3>1 DEF Die
      <3>2. CASE UNCHANGED workerVars
        BY <1>3, <3>2 DEF workerVars
      <3> QED BY <1>6, <3>1, <3>2, LifecycleFacts
    <2>2. CASE UNCHANGED brokerVars
      BY <1>2, <1>6, <2>1, <2>2, LifecycleFacts DEF brokerVars
    <2>3. ASSUME NEW s \in Subs, Start(s) PROVE AttemptInv'
      BY <1>2, <2>1, <2>3 DEF Start
    <2>4. ASSUME NEW s \in Subs, Unsubscribe(s), DeleteConsumer(s) PROVE AttemptInv'
      <3>1. \A d \in buf' : d \in buf /\ d[1] \in Msgs /\ SubOf[d[1]] # s
        BY <1>0, <2>4 DEF Unsubscribe, ClientType
      <3>2. \A d \in buf' : num'[d[1]] > 0
        BY <2>4, <3>1 DEF DeleteConsumer, AttemptInv
      <3>3. \A m \in Msgs : st'[m] = "out" => num'[m] > 0
        BY <2>4 DEF DeleteConsumer, AttemptInv
      <3> QED BY <2>1, <3>2, <3>3 DEF AttemptInv, Unrecordable
    <2> QED BY <1>6, <2>2, <2>3, <2>4, LifecycleFacts
  <1>7. CASE UNCHANGED vars
    <2>1. \A s \in Subs : Good(s)
      BY <1>3, <1>7 DEF vars, brokerVars, workerVars
    <2> QED BY <1>2, <1>7, <2>1 DEF vars, brokerVars, clientVars
  <1> QED BY <1>1, <1>4, <1>5, <1>6, <1>7 DEF Next, Consumer

\* The inductive invariant holds initially ...
LEMMA IInvInit == Init => IInv
  <1> SUFFICES ASSUME Init PROVE IInv
    OBVIOUS
  <1>1. TypeOK
    BY TypeInit
  <1>2. WorkInv /\ FreshInv /\ GoneInv /\ ResolvedIsAccounted /\ DeadLetterOnce /\ AttemptInv
    BY QueueAssumption
    DEF Init, WorkInv, FreshInv, GoneInv, ResolvedIsAccounted, DeadLetterOnce, AttemptInv
  <1>3. DeletionInv /\ RowsInv
    BY QueueAssumption DEF Init, DeletionInv, RowsInv, Unwritten
  <1> QED BY <1>1, <1>2, <1>3 DEF IInv

\* ... and every step preserves it.
LEMMA IInvStep == IInv /\ [Next]_vars => IInv'
  <1> SUFFICES ASSUME IInv, [Next]_vars PROVE IInv'
    OBVIOUS
  <1>1. TypeOK' /\ WorkInv' /\ FreshInv' /\ GoneInv' /\ DeletionInv'
    BY TypeStep, WorkStep, FreshStep, GoneStep, DeletionStep DEF IInv
  <1>2. RowsInv'
    BY <1>1, RowsStep DEF IInv
  <1>3. ResolvedIsAccounted' /\ DeadLetterOnce' /\ AttemptInv'
    BY <1>1, <1>2, ResolvedStep, DeadLetterStep, AttemptStep DEF IInv
  <1> QED BY <1>1, <1>2, <1>3 DEF IInv

\* The inductive invariant of the task worker holds in every reachable state.
THEOREM Invariant == Spec => []IInv
  BY IInvInit, IInvStep, PTL DEF Spec

\* A task is acknowledged only after its handler succeeded, and terminated only after its dead
\* letter was written or the write failed.
THEOREM ResolvedCorrect == Spec => []ResolvedIsAccounted
  <1>1. IInv => ResolvedIsAccounted
    BY DEF IInv
  <1> QED BY <1>1, Invariant, PTL

\* A task whose envelope carries a UUID has at most one dead-letter row, also when its consumer was
\* deleted and it is delivered anew; any other task has at most one for each call of handleMessage.
THEOREM DeadLetterCorrect == Spec => []DeadLetterOnce
  <1>1. IInv => DeadLetterOnce
    BY DEF IInv
  <1> QED BY <1>1, Invariant, PTL

\* The broker gives up on a task by itself only after AckWait passed for one of its deliveries.
THEOREM ExhaustedCorrect == Spec => []ExhaustedOnlyBySilence
  <1>1. IInv => ExhaustedOnlyBySilence
    BY QueueAssumption DEF IInv, FreshInv, GoneInv, ExhaustedOnlyBySilence
  <1> QED BY <1>1, Invariant, PTL

-----------------------------------------------------------------------------
(* The worker implements the contract of the task queue.                   *)

AbsStatus == [m \in Msgs |-> Status(m)]
AbsRecorded == {m \in Msgs : rows[m] > 0}

\* What a change of the broker's record of one message is to the contract: nothing, or a settlement.
LEMMA StatusStep ==
  ASSUME ConsumerType, NEW m \in Msgs, NEW e, st' = [st EXCEPT ![m] = e]
  PROVE  /\ (IF e \in Final THEN e ELSE "open") = Status(m) => AbsStatus' = AbsStatus
         /\ e \in Final /\ st[m] \notin Final =>
               AbsStatus[m] = "open" /\ AbsStatus' = [AbsStatus EXCEPT ![m] = e]
  <1>1. \A k \in Msgs : st'[k] = IF k = m THEN e ELSE st[k]
    BY DEF ConsumerType
  <1>2. \A k \in Msgs : Status(k)' = IF k = m THEN (IF e \in Final THEN e ELSE "open") ELSE Status(k)
    BY <1>1 DEF Status
  <1>3. ASSUME (IF e \in Final THEN e ELSE "open") = Status(m) PROVE AbsStatus' = AbsStatus
    <2>1. \A k \in Msgs : Status(k)' = Status(k)
      BY <1>2, <1>3
    <2> QED BY <2>1 DEF AbsStatus
  <1>4. ASSUME e \in Final, st[m] \notin Final
        PROVE  AbsStatus[m] = "open" /\ AbsStatus' = [AbsStatus EXCEPT ![m] = e]
    <2>1. \A k \in Msgs : Status(k)' = IF k = m THEN e ELSE Status(k)
      BY <1>2, <1>4
    <2> QED BY <1>4, <2>1 DEF AbsStatus, Status
  <1> QED BY <1>3, <1>4

\* Initially every task is open and nothing has happened to it.
LEMMA ContractInit == Init => Contract!Init
  BY DEF Init, Contract!Init, Status, Final

\* The consumer's steps are attempts and missed answers.
LEMMA ConsumerContract ==
  ASSUME IInv, NEW m \in Msgs, Consumer(m)
  PROVE  [Contract!Next]_(Contract!vars)
  <1> USE QueueAssumption
  <1>0. ConsumerType
    BY DEF IInv, TypeOK
  <1>f. UNCHANGED <<calls, deletions, faults, handled, AbsRecorded, saveFailed>>
    BY DEF Consumer, Deliver, AckWaitExpires, outcomeVars, workerVars, AbsRecorded
  <1>1. CASE Deliver(m)
    <2>1. AbsStatus' = AbsStatus /\ AbsStatus[m] = "open"
      BY <1>0, <1>1, StatusStep DEF Deliver, Status, Final, AbsStatus
    <2>2. Contract!Attempt(m)
      BY <1>f, <1>1, <2>1 DEF Deliver, Contract!Attempt, Contract!Open, AbsStatus, AbsRecorded
    <2> QED BY <2>2 DEF Contract!Next, Contract!Work
  <1>2. CASE AckWaitExpires(m)
    <2>1. num[m] > 0 /\ num[m] \in 0..MaxDeliver /\ Status(m) = "open" /\ st[m] \notin Final
      BY <1>0, <1>2 DEF AckWaitExpires, IInv, AttemptInv, ConsumerType, Status, Final
    <2>2. num' = num /\ silent' = silent \union {m}
      BY <1>2 DEF AckWaitExpires
    <2>3. CASE num[m] < MaxDeliver
      <3>1. AbsStatus' = AbsStatus /\ AbsStatus[m] = "open"
        BY <1>0, <1>2, <2>1, <2>3, StatusStep DEF AckWaitExpires, Requeue, Final, AbsStatus
      <3>2. Contract!Miss(m)
        BY <1>f, <2>1, <2>2, <2>3, <3>1 DEF Contract!Miss, Contract!Open, AbsStatus, AbsRecorded
      <3> QED BY <3>2 DEF Contract!Next, Contract!Work
    <2>4. CASE ~(num[m] < MaxDeliver)
      <3>1. AbsStatus[m] = "open" /\ AbsStatus' = [AbsStatus EXCEPT ![m] = "exhausted"]
        BY <1>0, <1>2, <2>1, <2>4, StatusStep DEF AckWaitExpires, Requeue, Final
      <3>2. Contract!Miss(m)
        BY <1>f, <2>1, <2>2, <2>4, <3>1
        DEF Contract!Miss, Contract!Open, Contract!SettleAs, AbsStatus, AbsRecorded
      <3> QED BY <3>2 DEF Contract!Next, Contract!Work
    <2> QED BY <2>3, <2>4
  <1> QED BY <1>1, <1>2 DEF Consumer

\* A reply settles an open task for a reason that exists, or changes nothing.
LEMMA ReplyContract ==
  ASSUME IInv, NEW s \in Subs, ack(s) \/ term(s) \/ nak(s)
  PROVE  [Contract!Next]_(Contract!vars)
  <1> USE QueueAssumption
  <1>0. ConsumerType /\ WorkerType
    BY DEF IInv, TypeOK
  <1>1. PICK m \in Msgs : m = msg[s] /\ calls[m] > 0 /\ SubOf[m] = s
    <2>1. at[s] # "idle"
      BY DEF ack, term, Settle, nak
    <2> QED BY <1>0, <2>1, Busy DEF IInv, AttemptInv, WorkInv
  <1>2. UNCHANGED <<num, calls, silent, handled, AbsRecorded, saveFailed, deletions, faults>>
    BY DEF ack, term, Settle, nak, Return, outcomeVars, AbsRecorded
  <1>3. CASE AbsStatus' = AbsStatus
    BY <1>2, <1>3 DEF Contract!vars, AbsStatus, AbsRecorded
  <1>s. CASE st' = [st EXCEPT ![m] = st[m]]
    BY <1>0, <1>3, <1>s, StatusStep DEF Status
  <1>4. CASE ack(s)
    <2>1. CASE st[m] \in Final \/ s \in gone
      BY <1>1, <1>4, <1>s, <2>1 DEF ack, Settle
    <2>2. CASE st[m] \notin Final /\ s \notin gone
      <3>1. AbsStatus[m] = "open" /\ AbsStatus' = [AbsStatus EXCEPT ![m] = "acked"]
        BY <1>0, <1>1, <1>4, <2>2, StatusStep DEF ack, Settle, Final
      <3>2. m \in handled
        BY <1>1, <1>4 DEF ack, Settle, IInv, WorkInv
      <3>3. Contract!Ack(m)
        BY <1>2, <3>1, <3>2 DEF Contract!Ack, Contract!SettleAs, Contract!Open, AbsStatus, AbsRecorded
      <3> QED BY <3>3 DEF Contract!Next, Contract!Work
    <2> QED BY <2>1, <2>2
  <1>5. CASE term(s)
    <2>1. CASE st[m] \in Final \/ s \in gone
      BY <1>1, <1>5, <1>s, <2>1 DEF term, Settle
    <2>2. CASE st[m] \notin Final /\ s \notin gone
      <3>1. AbsStatus[m] = "open" /\ AbsStatus' = [AbsStatus EXCEPT ![m] = "termed"]
        BY <1>0, <1>1, <1>5, <2>2, StatusStep DEF term, Settle, Final
      <3>2. m \in AbsRecorded \union saveFailed \/ Unrecordable(m)
        BY <1>1, <1>5 DEF term, Settle, IInv, WorkInv, AbsRecorded
      <3>3. Contract!Term(m)
        BY <1>1, <1>2, <3>1, <3>2
        DEF Contract!Term, Contract!SettleAs, Contract!Open, AbsStatus, AbsRecorded
      <3> QED BY <3>3 DEF Contract!Next, Contract!Work
    <2> QED BY <2>1, <2>2
  <1>6. CASE nak(s)
    <2>1. CASE st[m] # "out" \/ s \in gone
      BY <1>1, <1>6, <1>s, <2>1 DEF nak
    <2>2. CASE st[m] = "out" /\ s \notin gone /\ num[m] < MaxDeliver
      <3>1. st' = [st EXCEPT ![m] = "pending"]
        BY <1>1, <1>6, <2>2 DEF nak, Requeue
      <3>2. Status(m) = "open" /\ "pending" \notin Final
        BY <2>2 DEF Status, Final
      <3> QED BY <1>0, <1>3, <3>1, <3>2, StatusStep
    <2>3. CASE st[m] = "out" /\ s \notin gone /\ ~(num[m] < MaxDeliver)
      <3>1. AbsStatus[m] = "open" /\ AbsStatus' = [AbsStatus EXCEPT ![m] = "exhausted"]
        BY <1>0, <1>1, <1>6, <2>3, StatusStep DEF nak, Requeue, Final
      <3>2. num[m] = MaxDeliver
        BY <1>0, <2>3 DEF ConsumerType
      <3>3. m \in silent
        <4>1. m \notin silent => att[s] = num[m]
          BY <1>1, <2>3 DEF IInv, FreshInv
        <4>2. att[s] < MaxDeliver
          BY <1>6 DEF IInv, WorkInv, nak
        <4> QED BY <3>2, <4>1, <4>2
      <3>4. Contract!GiveUp(m)
        BY <1>2, <3>1, <3>2, <3>3
        DEF Contract!GiveUp, Contract!SettleAs, Contract!Open, AbsStatus, AbsRecorded
      <3> QED BY <3>4 DEF Contract!Next, Contract!Work
    <2> QED BY <2>1, <2>2, <2>3
  <1> QED BY <1>4, <1>5, <1>6

\* A worker begins only with what it was given.
LEMMA PopContract ==
  ASSUME IInv, NEW s \in Subs, NEW m \in Msgs, NEW n \in 1..MaxDeliver, Pop(s, m, n)
  PROVE  [Contract!Next]_(Contract!vars)
  <1>1. num[m] > 0
    <2>1. <<m, n>> \in buf /\ <<m, n>>[1] = m
      BY DEF Pop
    <2> QED BY <2>1 DEF IInv, AttemptInv
  <1>2. /\ calls' = [calls EXCEPT ![m] = @ + 1]
        /\ UNCHANGED <<AbsStatus, num, silent, handled, AbsRecorded, saveFailed, deletions, faults>>
    BY DEF Pop, brokerVars, outcomeVars, AbsStatus, Status, AbsRecorded
  <1>3. Contract!Begin(m)
    BY <1>1, <1>2 DEF Contract!Begin, AbsStatus, AbsRecorded
  <1> QED BY <1>3 DEF Contract!Next, Contract!Work

\* A handler that succeeds and a dead letter are outcomes of an attempt at a task that allows them.
LEMMA OutcomeContract ==
  ASSUME IInv, NEW s \in Subs, HandleOk(s) \/ deadLetter(s) \/ deadLetterFails(s)
  PROVE  [Contract!Next]_(Contract!vars)
  <1>0. WorkerType /\ OutcomeType
    BY DEF IInv, TypeOK
  <1>1. PICK m \in Msgs : m = msg[s] /\ calls[m] > 0
    <2>1. at[s] # "idle"
      BY DEF HandleOk, deadLetter, deadLetterFails
    <2> QED BY <1>0, <2>1, Busy DEF IInv, AttemptInv
  <1>2. UNCHANGED <<AbsStatus, num, calls, silent, deletions>>
    BY DEF HandleOk, deadLetter, deadLetterFails, Goto, brokerVars, AbsStatus, Status
  <1>3. CASE HandleOk(s)
    <2>1. m \notin Malformed \union NoMeta
      BY <1>1, <1>3 DEF HandleOk, IInv, AttemptInv
    <2>2. UNCHANGED <<AbsRecorded, saveFailed, faults>> /\ handled' = handled \union {m}
      BY <1>1, <1>3 DEF HandleOk, AbsRecorded
    <2>3. Contract!Handle(m)
      BY <1>1, <1>2, <2>1, <2>2 DEF Contract!Handle, AbsStatus, AbsRecorded
    <2> QED BY <2>3 DEF Contract!Next, Contract!Work
  <1>4. ASSUME save(m) PROVE AbsRecorded' = AbsRecorded \union {m}
    BY <1>0, <1>4, SaveFacts DEF AbsRecorded
  <1>5. CASE deadLetter(s)
    <2>1. ~Unrecordable(m)
      BY <1>1, <1>5 DEF deadLetter, IInv, AttemptInv
    <2>2. UNCHANGED <<handled, saveFailed, faults>> /\ AbsRecorded' = AbsRecorded \union {m}
      BY <1>1, <1>4, <1>5 DEF deadLetter
    <2>3. Contract!Record(m)
      BY <1>1, <1>2, <2>1, <2>2 DEF Contract!Record, AbsStatus, AbsRecorded
    <2> QED BY <2>3 DEF Contract!Next, Contract!Work
  <1>6. CASE deadLetterFails(s)
    <2>1. ~Unrecordable(m)
      BY <1>1, <1>6 DEF deadLetterFails, IInv, AttemptInv
    <2>2. /\ handled' = handled /\ saveFailed' = saveFailed \union {m} /\ faults' = faults + 1
          /\ AbsRecorded' \in {AbsRecorded, AbsRecorded \union {m}}
      BY <1>1, <1>4, <1>6 DEF deadLetterFails, Fault, AbsRecorded
    <2>3. Contract!RecordFails(m)
      BY <1>1, <1>2, <2>1, <2>2 DEF Contract!RecordFails, AbsStatus, AbsRecorded
    <2> QED BY <2>3 DEF Contract!Next, Contract!Work
  <1> QED BY <1>3, <1>5, <1>6

\* Unsubscribe forgets a subject's tasks at most once for each failure.
LEMMA UnsubscribeContract ==
  ASSUME IInv, NEW s \in Subs, Unsubscribe(s), DeleteConsumer(s)
  PROVE  [Contract!Next]_(Contract!vars)
  <1>1. deletions[s] < faults
    <2>1. deletions[s] + 1 <= faults
      BY DEF IInv, DeletionInv, Unsubscribe
    <2>2. deletions[s] \in Nat /\ faults \in Nat
      BY QueueAssumption DEF IInv, TypeOK, ConsumerType, ClientType
    <2> QED BY <2>1, <2>2
  <1>2. \A m \in Msgs : Status(m)' = IF SubOf[m] = s THEN "open" ELSE Status(m)
    BY DEF DeleteConsumer, Status, Final
  <1>3. AbsStatus' = [m \in Msgs |-> IF SubOf[m] = s THEN "open" ELSE AbsStatus[m]]
    BY <1>2 DEF AbsStatus
  <1>4. UNCHANGED <<calls, handled, AbsRecorded, saveFailed, faults>>
    BY DEF Unsubscribe, workerVars, outcomeVars, AbsRecorded
  <1>5. Contract!Forget(s)
    BY <1>1, <1>3, <1>4 DEF Contract!Forget, DeleteConsumer, AbsStatus, AbsRecorded
  <1> QED BY <1>5 DEF Contract!Next

\* Every step of the worker, the consumer and the process is a step of the contract or leaves its
\* state alone.
LEMMA ContractStep == IInv /\ [Next]_vars => [Contract!Next]_(Contract!vars)
  <1> SUFFICES ASSUME IInv, [Next]_vars PROVE [Contract!Next]_(Contract!vars)
    OBVIOUS
  <1>0. ASSUME UNCHANGED <<st, num, silent, deletions, calls, outcomeVars>>
        PROVE  /\ UNCHANGED faults => UNCHANGED Contract!vars
               /\ faults' = faults + 1 => Contract!Fail
    BY <1>0 DEF outcomeVars, Contract!vars, Contract!Fail, Status
  <1>1. CASE UNCHANGED <<st, num, silent, deletions, calls, outcomeVars>> /\ faults' \in {faults, faults + 1}
    BY <1>0, <1>1 DEF Contract!Next
  <1>2. ASSUME NEW s \in Subs, handleMessage(s) PROVE [Contract!Next]_(Contract!vars)
    <2>1. CASE Begin(s) \/ HandleTerminal(s) \/ HandleTransient(s) \/ ReplyLost(s)
      BY <1>1, <2>1
      DEF Begin, HandleTerminal, HandleTransient, ReplyLost, Goto, Return, Fault, brokerVars
    <2> QED BY <1>2, <2>1, PopContract, ReplyContract, OutcomeContract DEF handleMessage
  <1>3. CASE UNCHANGED vars
    BY <1>1, <1>3 DEF vars, brokerVars, workerVars
  <1>4. ASSUME NEW s \in Subs, Start(s) \/ Unsubscribe(s) PROVE [Contract!Next]_(Contract!vars)
    BY <1>1, <1>4, UnsubscribeContract DEF Start, Unsubscribe, brokerVars, workerVars
  <1>5. CASE StopDrained \/ Exit \/ NewQueueSubscriber \/ Failure
    BY <1>1, <1>5
    DEF Failure, StartFails, Stop, StopDrained, StopTimesOut, Die, Crash, Exit, NewQueueSubscriber,
        Fault, brokerVars, workerVars
  <1> QED BY <1>2, <1>3, <1>4, <1>5, ConsumerContract DEF Next, Lifecycle

\* The worker implements the contract of the task queue: a task is settled for a reason that exists
\* by then, within MaxDeliver attempts, and is not delivered after that, unless a Stop deletes the
\* consumer of its subject, at most once for each failure; for any number of tasks, subscriptions,
\* attempts, crashes, Stops and lost replies.
THEOREM Refinement == Spec => ImplementsContract
  BY ContractInit, ContractStep, Invariant, PTL DEF Spec, ImplementsContract, Contract!Spec
=============================================================================
