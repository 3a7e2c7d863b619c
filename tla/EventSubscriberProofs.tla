----------------------- MODULE EventSubscriberProofs -----------------------
(***************************************************************************)
(* Proofs about EventSubscriber, for any events, subjects and numbers of   *)
(* failures: the consumer forgets an event only for a reason, and every    *)
(* repeated success of a handler is paid for by a failure.                 *)
(***************************************************************************)
EXTENDS EventSubscriber, TLAPS

\* The invariant holds initially.
LEMMA IInvInit == Init => IInv
  <1> SUFFICES ASSUME Init PROVE IInv
    OBVIOUS
  <1>1. TypeOK
    BY EventAssumption DEF Init, TypeOK, Stages
  <1>2. PaidInv
    <2>1. ASSUME NEW m \in Msgs
          PROVE  runs[m] = 0 /\ buf[m] = 0 /\ Copy(m) = 0 /\ Owed(m) = 1 /\ Reserve(m) = 0
      BY EventAssumption DEF Init, Copy, Owed, Reserve, Ending
    <2> QED BY <2>1 DEF PaidInv, Init
  <1>3. GoneInv /\ WorkInv /\ SettledIsAccounted /\ EndingInv
    BY EventAssumption DEF Init, GoneInv, WorkInv, SettledIsAccounted, EndingInv, Ending
  <1> QED BY <1>1, <1>2, <1>3 DEF IInv

\* Every step keeps the types.
LEMMA TypeStep == ASSUME TypeOK, [Next]_vars PROVE TypeOK'
  <1> USE EventAssumption DEF TypeOK, Stages, Ending, Settled
  <1>1. ASSUME NEW e \in Msgs, Deliver(e) \/ AckWaitExpires(e) \/ AckWaitExpiresLate(e) \/ Pop(e)
       PROVE  TypeOK'
    <2>1. CASE Deliver(e)
      BY <2>1 DEF Deliver, workerVars, outcomeVars
    <2>2. CASE AckWaitExpires(e)
      BY <2>2 DEF AckWaitExpires, clientVars, workerVars, outcomeVars
    <2>3. CASE AckWaitExpiresLate(e)
      BY <2>3 DEF AckWaitExpiresLate, clientVars, workerVars, outcomeVars
    <2>4. CASE Pop(e)
      BY <2>4 DEF Pop, brokerVars, outcomeVars
    <2> QED BY <1>1, <2>1, <2>2, <2>3, <2>4
  <1>2. ASSUME NEW s \in Subs, handleMessage(s)
       PROVE  TypeOK'
    <2>1. CASE Begin(s)
      BY <2>1 DEF Begin, Goto, brokerVars, clientVars, outcomeVars
    <2>2. CASE HandleOk(s)
      BY <2>2 DEF HandleOk, Goto, brokerVars, clientVars
    <2>3. CASE HandleTerminal(s)
      BY <2>3 DEF HandleTerminal, Goto, brokerVars, clientVars
    <2>4. CASE HandleTransient(s)
      BY <2>4 DEF HandleTransient, Goto, brokerVars, clientVars, outcomeVars
    <2>5. CASE ack(s)
      BY <2>5 DEF ack, Reply, Return, clientVars, outcomeVars
    <2>6. CASE term(s)
      BY <2>6 DEF term, Reply, Return, clientVars, outcomeVars
    <2>7. CASE nak(s)
      BY <2>7 DEF nak, Reply, Return, clientVars, outcomeVars
    <2>8. CASE ReplyLost(s)
      BY <2>8 DEF ReplyLost, Fault, Return, brokerVars, clientVars, outcomeVars
    <2> QED BY <1>2, <2>1, <2>2, <2>3, <2>4, <2>5, <2>6, <2>7, <2>8 DEF handleMessage
  <1>3. ASSUME NEW s \in Subs, Start(s) \/ Unsubscribe(s)
       PROVE  TypeOK'
    <2>1. CASE Start(s)
      BY <2>1 DEF Start, workerVars, outcomeVars
    <2>2. CASE Unsubscribe(s)
      BY <2>2 DEF Unsubscribe, DeleteConsumer, workerVars, outcomeVars
    <2> QED BY <1>3, <2>1, <2>2
  <1>4. ASSUME StopDrained \/ StopTimesOut \/ Exit \/ NewEventSubscriber
       PROVE  TypeOK'
    <2>1. CASE StopDrained
      BY <2>1 DEF StopDrained, brokerVars, workerVars, outcomeVars
    <2>2. CASE StopTimesOut
      BY <2>2 DEF StopTimesOut, brokerVars, workerVars, outcomeVars
    <2>3. CASE Exit
      BY <2>3 DEF Exit, Die, brokerVars, outcomeVars
    <2>4. CASE NewEventSubscriber
      BY <2>4 DEF NewEventSubscriber, brokerVars, workerVars, outcomeVars
    <2> QED BY <1>4, <2>1, <2>2, <2>3, <2>4
  <1>5. ASSUME Failure
       PROVE  TypeOK'
    <2>1. CASE StartFails
      BY <2>1 DEF StartFails, Fault, brokerVars, workerVars, outcomeVars
    <2>2. CASE Stop
      BY <2>2 DEF Stop, Fault, brokerVars, workerVars, outcomeVars
    <2>3. CASE Crash
      BY <2>3 DEF Crash, Fault, Die, brokerVars, outcomeVars
    <2> QED BY <1>5, <2>1, <2>2, <2>3 DEF Failure
  <1>6. CASE UNCHANGED vars
    BY <1>6 DEF vars, brokerVars, clientVars, workerVars, outcomeVars
  <1> QED BY <1>1, <1>2, <1>3, <1>4, <1>5, <1>6 DEF Next, Lifecycle

\* A deleted consumer stays untouched until it is created again.
LEMMA GoneStep == ASSUME TypeOK, GoneInv, [Next]_vars PROVE GoneInv'
  <1> USE EventAssumption DEF TypeOK, GoneInv
  <1>1. ASSUME NEW e \in Msgs, Deliver(e) \/ AckWaitExpires(e) \/ AckWaitExpiresLate(e) \/ Pop(e)
       PROVE  GoneInv'
    <2>1. CASE Deliver(e)
      BY <2>1 DEF Deliver, workerVars, outcomeVars
    <2>2. CASE AckWaitExpires(e)
      BY <2>2 DEF AckWaitExpires, clientVars, workerVars, outcomeVars
    <2>3. CASE AckWaitExpiresLate(e)
      BY <2>3 DEF AckWaitExpiresLate, clientVars, workerVars, outcomeVars
    <2>4. CASE Pop(e)
      BY <2>4 DEF Pop, brokerVars, outcomeVars
    <2> QED BY <1>1, <2>1, <2>2, <2>3, <2>4
  <1>2. ASSUME NEW s \in Subs, handleMessage(s)
       PROVE  GoneInv'
    <2>1. CASE Begin(s)
      BY <2>1 DEF Begin, Goto, brokerVars, clientVars, outcomeVars
    <2>2. CASE HandleOk(s)
      BY <2>2 DEF HandleOk, Goto, brokerVars, clientVars
    <2>3. CASE HandleTerminal(s)
      BY <2>3 DEF HandleTerminal, Goto, brokerVars, clientVars
    <2>4. CASE HandleTransient(s)
      BY <2>4 DEF HandleTransient, Goto, brokerVars, clientVars, outcomeVars
    <2>5. CASE ack(s)
      BY <2>5 DEF ack, Reply, Return, clientVars, outcomeVars
    <2>6. CASE term(s)
      BY <2>6 DEF term, Reply, Return, clientVars, outcomeVars
    <2>7. CASE nak(s)
      BY <2>7 DEF nak, Reply, Return, clientVars, outcomeVars
    <2>8. CASE ReplyLost(s)
      BY <2>8 DEF ReplyLost, Fault, Return, brokerVars, clientVars, outcomeVars
    <2> QED BY <1>2, <2>1, <2>2, <2>3, <2>4, <2>5, <2>6, <2>7, <2>8 DEF handleMessage
  <1>3. ASSUME NEW s \in Subs, Start(s) \/ Unsubscribe(s)
       PROVE  GoneInv'
    <2>1. CASE Start(s)
      BY <2>1 DEF Start, workerVars, outcomeVars
    <2>2. CASE Unsubscribe(s)
      BY <2>2 DEF Unsubscribe, DeleteConsumer, workerVars, outcomeVars
    <2> QED BY <1>3, <2>1, <2>2
  <1>4. ASSUME StopDrained \/ StopTimesOut \/ Exit \/ NewEventSubscriber
       PROVE  GoneInv'
    <2>1. CASE StopDrained
      BY <2>1 DEF StopDrained, brokerVars, workerVars, outcomeVars
    <2>2. CASE StopTimesOut
      BY <2>2 DEF StopTimesOut, brokerVars, workerVars, outcomeVars
    <2>3. CASE Exit
      BY <2>3 DEF Exit, Die, brokerVars, outcomeVars
    <2>4. CASE NewEventSubscriber
      BY <2>4 DEF NewEventSubscriber, brokerVars, workerVars, outcomeVars
    <2> QED BY <1>4, <2>1, <2>2, <2>3, <2>4
  <1>5. ASSUME Failure
       PROVE  GoneInv'
    <2>1. CASE StartFails
      BY <2>1 DEF StartFails, Fault, brokerVars, workerVars, outcomeVars
    <2>2. CASE Stop
      BY <2>2 DEF Stop, Fault, brokerVars, workerVars, outcomeVars
    <2>3. CASE Crash
      BY <2>3 DEF Crash, Fault, Die, brokerVars, outcomeVars
    <2> QED BY <1>5, <2>1, <2>2, <2>3 DEF Failure
  <1>6. CASE UNCHANGED vars
    BY <1>6 DEF vars, brokerVars, clientVars, workerVars, outcomeVars
  <1> QED BY <1>1, <1>2, <1>3, <1>4, <1>5, <1>6 DEF Next, Lifecycle

\* A goroutine replies only after the work that justifies its reply.
LEMMA WorkStep == ASSUME TypeOK, WorkInv, [Next]_vars PROVE WorkInv'
  <1> USE EventAssumption DEF TypeOK, WorkInv
  <1>1. ASSUME NEW e \in Msgs, Deliver(e) \/ AckWaitExpires(e) \/ AckWaitExpiresLate(e) \/ Pop(e)
       PROVE  WorkInv'
    <2>1. CASE Deliver(e)
      BY <2>1 DEF Deliver, workerVars, outcomeVars
    <2>2. CASE AckWaitExpires(e)
      BY <2>2 DEF AckWaitExpires, clientVars, workerVars, outcomeVars
    <2>3. CASE AckWaitExpiresLate(e)
      BY <2>3 DEF AckWaitExpiresLate, clientVars, workerVars, outcomeVars
    <2>4. CASE Pop(e)
      BY <2>4 DEF Pop, brokerVars, outcomeVars
    <2> QED BY <1>1, <2>1, <2>2, <2>3, <2>4
  <1>2. ASSUME NEW s \in Subs, handleMessage(s)
       PROVE  WorkInv'
    <2>1. CASE Begin(s)
      BY <2>1 DEF Begin, Goto, brokerVars, clientVars, outcomeVars
    <2>2. CASE HandleOk(s)
      BY <2>2 DEF HandleOk, Goto, brokerVars, clientVars
    <2>3. CASE HandleTerminal(s)
      BY <2>3 DEF HandleTerminal, Goto, brokerVars, clientVars
    <2>4. CASE HandleTransient(s)
      BY <2>4 DEF HandleTransient, Goto, brokerVars, clientVars, outcomeVars
    <2>5. CASE ack(s)
      BY <2>5 DEF ack, Reply, Return, clientVars, outcomeVars
    <2>6. CASE term(s)
      BY <2>6 DEF term, Reply, Return, clientVars, outcomeVars
    <2>7. CASE nak(s)
      BY <2>7 DEF nak, Reply, Return, clientVars, outcomeVars
    <2>8. CASE ReplyLost(s)
      BY <2>8 DEF ReplyLost, Fault, Return, brokerVars, clientVars, outcomeVars
    <2> QED BY <1>2, <2>1, <2>2, <2>3, <2>4, <2>5, <2>6, <2>7, <2>8 DEF handleMessage
  <1>3. ASSUME NEW s \in Subs, Start(s) \/ Unsubscribe(s)
       PROVE  WorkInv'
    <2>1. CASE Start(s)
      BY <2>1 DEF Start, workerVars, outcomeVars
    <2>2. CASE Unsubscribe(s)
      BY <2>2 DEF Unsubscribe, DeleteConsumer, workerVars, outcomeVars
    <2> QED BY <1>3, <2>1, <2>2
  <1>4. ASSUME StopDrained \/ StopTimesOut \/ Exit \/ NewEventSubscriber
       PROVE  WorkInv'
    <2>1. CASE StopDrained
      BY <2>1 DEF StopDrained, brokerVars, workerVars, outcomeVars
    <2>2. CASE StopTimesOut
      BY <2>2 DEF StopTimesOut, brokerVars, workerVars, outcomeVars
    <2>3. CASE Exit
      BY <2>3 DEF Exit, Die, brokerVars, outcomeVars
    <2>4. CASE NewEventSubscriber
      BY <2>4 DEF NewEventSubscriber, brokerVars, workerVars, outcomeVars
    <2> QED BY <1>4, <2>1, <2>2, <2>3, <2>4
  <1>5. ASSUME Failure
       PROVE  WorkInv'
    <2>1. CASE StartFails
      BY <2>1 DEF StartFails, Fault, brokerVars, workerVars, outcomeVars
    <2>2. CASE Stop
      BY <2>2 DEF Stop, Fault, brokerVars, workerVars, outcomeVars
    <2>3. CASE Crash
      BY <2>3 DEF Crash, Fault, Die, brokerVars, outcomeVars
    <2> QED BY <1>5, <2>1, <2>2, <2>3 DEF Failure
  <1>6. CASE UNCHANGED vars
    BY <1>6 DEF vars, brokerVars, clientVars, workerVars, outcomeVars
  <1> QED BY <1>1, <1>2, <1>3, <1>4, <1>5, <1>6 DEF Next, Lifecycle

\* The consumer settles a message only when a goroutine with that reason replies.
LEMMA SettledStep ==
  ASSUME TypeOK, WorkInv, SettledIsAccounted, [Next]_vars
  PROVE  SettledIsAccounted'
  <1> USE EventAssumption DEF TypeOK, WorkInv, SettledIsAccounted
  <1>1. ASSUME NEW e \in Msgs, Deliver(e) \/ AckWaitExpires(e) \/ AckWaitExpiresLate(e) \/ Pop(e)
       PROVE  SettledIsAccounted'
    <2>1. CASE Deliver(e)
      BY <2>1 DEF Deliver, workerVars, outcomeVars
    <2>2. CASE AckWaitExpires(e)
      BY <2>2 DEF AckWaitExpires, clientVars, workerVars, outcomeVars
    <2>3. CASE AckWaitExpiresLate(e)
      BY <2>3 DEF AckWaitExpiresLate, clientVars, workerVars, outcomeVars
    <2>4. CASE Pop(e)
      BY <2>4 DEF Pop, brokerVars, outcomeVars
    <2> QED BY <1>1, <2>1, <2>2, <2>3, <2>4
  <1>2. ASSUME NEW s \in Subs, handleMessage(s)
       PROVE  SettledIsAccounted'
    <2>1. CASE Begin(s)
      BY <2>1 DEF Begin, Goto, brokerVars, clientVars, outcomeVars
    <2>2. CASE HandleOk(s)
      BY <2>2 DEF HandleOk, Goto, brokerVars, clientVars
    <2>3. CASE HandleTerminal(s)
      BY <2>3 DEF HandleTerminal, Goto, brokerVars, clientVars
    <2>4. CASE HandleTransient(s)
      BY <2>4 DEF HandleTransient, Goto, brokerVars, clientVars, outcomeVars
    <2>5. CASE ack(s)
      BY <2>5 DEF ack, Reply, Return, clientVars, outcomeVars
    <2>6. CASE term(s)
      BY <2>6 DEF term, Reply, Return, clientVars, outcomeVars
    <2>7. CASE nak(s)
      BY <2>7 DEF nak, Reply, Return, clientVars, outcomeVars
    <2>8. CASE ReplyLost(s)
      BY <2>8 DEF ReplyLost, Fault, Return, brokerVars, clientVars, outcomeVars
    <2> QED BY <1>2, <2>1, <2>2, <2>3, <2>4, <2>5, <2>6, <2>7, <2>8 DEF handleMessage
  <1>3. ASSUME NEW s \in Subs, Start(s) \/ Unsubscribe(s)
       PROVE  SettledIsAccounted'
    <2>1. CASE Start(s)
      BY <2>1 DEF Start, workerVars, outcomeVars
    <2>2. CASE Unsubscribe(s)
      BY <2>2 DEF Unsubscribe, DeleteConsumer, workerVars, outcomeVars
    <2> QED BY <1>3, <2>1, <2>2
  <1>4. ASSUME StopDrained \/ StopTimesOut \/ Exit \/ NewEventSubscriber
       PROVE  SettledIsAccounted'
    <2>1. CASE StopDrained
      BY <2>1 DEF StopDrained, brokerVars, workerVars, outcomeVars
    <2>2. CASE StopTimesOut
      BY <2>2 DEF StopTimesOut, brokerVars, workerVars, outcomeVars
    <2>3. CASE Exit
      BY <2>3 DEF Exit, Die, brokerVars, outcomeVars
    <2>4. CASE NewEventSubscriber
      BY <2>4 DEF NewEventSubscriber, brokerVars, workerVars, outcomeVars
    <2> QED BY <1>4, <2>1, <2>2, <2>3, <2>4
  <1>5. ASSUME Failure
       PROVE  SettledIsAccounted'
    <2>1. CASE StartFails
      BY <2>1 DEF StartFails, Fault, brokerVars, workerVars, outcomeVars
    <2>2. CASE Stop
      BY <2>2 DEF Stop, Fault, brokerVars, workerVars, outcomeVars
    <2>3. CASE Crash
      BY <2>3 DEF Crash, Fault, Die, brokerVars, outcomeVars
    <2> QED BY <1>5, <2>1, <2>2, <2>3 DEF Failure
  <1>6. CASE UNCHANGED vars
    BY <1>6 DEF vars, brokerVars, clientVars, workerVars, outcomeVars
  <1> QED BY <1>1, <1>2, <1>3, <1>4, <1>5, <1>6 DEF Next, Lifecycle

\* The terms of PaidInv are naturals.
LEMMA TermTypes ==
  ASSUME TypeOK, NEW m \in Msgs
  PROVE  /\ runs[m] \in Nat /\ buf[m] \in Nat /\ faults \in Nat /\ late \in Nat
         /\ Copy(m) \in {0, 1} /\ Owed(m) \in {0, 1} /\ Reserve(m) \in {0, 1}
  BY EventAssumption DEF TypeOK, Copy, Owed, Reserve

\* What is done, in hand or owed for a message grows only when a failure is counted.
LEMMA PaidStep ==
  ASSUME TypeOK, TypeOK', GoneInv, PaidInv, [Next]_vars
  PROVE  PaidInv'
  <1> SUFFICES ASSUME NEW m \in Msgs
               PROVE  (runs[m] + buf[m] + Copy(m) + Owed(m) + Reserve(m) <= 1 + faults + late)'
    BY DEF PaidInv
  <1>p. runs[m] + buf[m] + Copy(m) + Owed(m) + Reserve(m) <= 1 + faults + late
    BY DEF PaidInv
  <1> DEFINE Paid == runs[m] + buf[m] + Copy(m) + Owed(m) + Reserve(m) <= 1 + faults + late
  <1> USE EventAssumption, <1>p DEF TypeOK, GoneInv, Copy, Owed, Reserve, InProcess, Ending
  <1>1. ASSUME NEW e \in Msgs, Deliver(e) \/ AckWaitExpires(e) \/ AckWaitExpiresLate(e) \/ Pop(e)
       PROVE  Paid'
    <2>1. CASE Deliver(e)
      BY <2>1 DEF Deliver, workerVars, outcomeVars
    <2>2. CASE AckWaitExpires(e)
      BY <2>2 DEF AckWaitExpires, clientVars, workerVars, outcomeVars
    <2>3. CASE AckWaitExpiresLate(e)
      BY <2>3 DEF AckWaitExpiresLate, clientVars, workerVars, outcomeVars
    <2>4. CASE Pop(e)
      BY <2>4 DEF Pop, brokerVars, outcomeVars
    <2> QED BY <1>1, <2>1, <2>2, <2>3, <2>4
  <1>2. ASSUME NEW s \in Subs, handleMessage(s)
       PROVE  Paid'
    <2>1. CASE Begin(s)
      BY <2>1 DEF Begin, Goto, brokerVars, clientVars, outcomeVars
    <2>2. CASE HandleOk(s)
      BY <2>2 DEF HandleOk, Goto, brokerVars, clientVars
    <2>3. CASE HandleTerminal(s)
      BY <2>3 DEF HandleTerminal, Goto, brokerVars, clientVars
    <2>4. CASE HandleTransient(s)
      BY <2>4 DEF HandleTransient, Goto, brokerVars, clientVars, outcomeVars
    <2>5. CASE ack(s)
      BY <2>5 DEF ack, Reply, Return, clientVars, outcomeVars
    <2>6. CASE term(s)
      BY <2>6 DEF term, Reply, Return, clientVars, outcomeVars
    <2>7. CASE nak(s)
      BY <2>7 DEF nak, Reply, Return, clientVars, outcomeVars
    <2>8. CASE ReplyLost(s)
      BY <2>8 DEF ReplyLost, Fault, Return, brokerVars, clientVars, outcomeVars
    <2> QED BY <1>2, <2>1, <2>2, <2>3, <2>4, <2>5, <2>6, <2>7, <2>8 DEF handleMessage
  <1>3. ASSUME NEW s \in Subs, Start(s) \/ Unsubscribe(s)
       PROVE  Paid'
    <2>1. CASE Start(s)
      BY <2>1 DEF Start, workerVars, outcomeVars
    <2>2. CASE Unsubscribe(s)
      BY <2>2 DEF Unsubscribe, DeleteConsumer, workerVars, outcomeVars
    <2> QED BY <1>3, <2>1, <2>2
  <1>4. ASSUME StopDrained \/ StopTimesOut \/ Exit \/ NewEventSubscriber
       PROVE  Paid'
    <2>1. CASE StopDrained
      BY <2>1 DEF StopDrained, brokerVars, workerVars, outcomeVars
    <2>2. CASE StopTimesOut
      BY <2>2 DEF StopTimesOut, brokerVars, workerVars, outcomeVars
    <2>3. CASE Exit
      BY <2>3 DEF Exit, Die, brokerVars, outcomeVars
    <2>4. CASE NewEventSubscriber
      BY <2>4 DEF NewEventSubscriber, brokerVars, workerVars, outcomeVars
    <2> QED BY <1>4, <2>1, <2>2, <2>3, <2>4
  <1>5. ASSUME Failure
       PROVE  Paid'
    <2>1. CASE StartFails
      BY <2>1 DEF StartFails, Fault, brokerVars, workerVars, outcomeVars
    <2>2. CASE Stop
      BY <2>2 DEF Stop, Fault, brokerVars, workerVars, outcomeVars
    <2>3. CASE Crash
      BY <2>3 DEF Crash, Fault, Die, brokerVars, outcomeVars
    <2> QED BY <1>5, <2>1, <2>2, <2>3 DEF Failure
  <1>6. CASE UNCHANGED vars
    BY <1>6 DEF vars, brokerVars, clientVars, workerVars, outcomeVars
  <1> QED BY <1>1, <1>2, <1>3, <1>4, <1>5, <1>6 DEF Next, Lifecycle

\* A process that is ending was stopped or failed to start, and either is counted.
LEMMA EndingStep ==
  ASSUME TypeOK, EndingInv, [Next]_vars
  PROVE  EndingInv'
  <1> USE EventAssumption DEF TypeOK, EndingInv, Ending
  <1>1. CASE UNCHANGED <<proc, faults>>
    BY <1>1
  <1>2. ASSUME NEW e \in Msgs, Deliver(e) \/ AckWaitExpires(e) \/ AckWaitExpiresLate(e) \/ Pop(e)
        PROVE  UNCHANGED <<proc, faults>>
    BY <1>2 DEF Deliver, AckWaitExpires, AckWaitExpiresLate, Pop, clientVars
  <1>3. ASSUME NEW s \in Subs, handleMessage(s) PROVE EndingInv'
    BY <1>3 DEF handleMessage, Begin, HandleOk, HandleTerminal, HandleTransient, ack, term, nak, Reply,
                ReplyLost, Fault, clientVars
  <1>4. CASE Lifecycle
    BY <1>4 DEF Lifecycle, Start, Unsubscribe, StopDrained, StopTimesOut, Exit, Die, NewEventSubscriber
  <1>5. CASE Failure
    BY <1>5 DEF Failure, StartFails, Stop, Crash, Die, Fault
  <1>6. CASE UNCHANGED vars
    BY <1>1, <1>6 DEF vars, clientVars
  <1> QED BY <1>1, <1>2, <1>3, <1>4, <1>5, <1>6 DEF Next

\* The invariant is inductive.
LEMMA IInvStep == IInv /\ [Next]_vars => IInv'
  BY TypeStep, GoneStep, WorkStep, SettledStep, PaidStep, EndingStep DEF IInv

\* Every reachable state of the subscriber satisfies the inductive invariant.
THEOREM Invariant == Spec => []IInv
  BY IInvInit, IInvStep, PTL DEF Spec

\* Type correctness of the consumer's and the subscriber's state.
THEOREM TypeCorrect == Spec => []TypeOK
  <1>1. IInv => TypeOK BY DEF IInv
  <1> QED BY Invariant, <1>1, PTL

\* handleMessage never makes the consumer forget an event that was neither handled nor rejected.
THEOREM SettledIsAccountedCorrect == Spec => []SettledIsAccounted
  <1>1. IInv => SettledIsAccounted BY DEF IInv
  <1> QED BY Invariant, <1>1, PTL

\* Handlers succeed at most once per event and failure.
THEOREM RepeatsPaidForCorrect == Spec => []RepeatsPaidFor
  <1>1. ASSUME IInv PROVE RepeatsPaidFor
    <2>1. ASSUME NEW m \in Msgs PROVE runs[m] <= 1 + faults + late
      <3>1. runs[m] + buf[m] + Copy(m) + Owed(m) + Reserve(m) <= 1 + faults + late
        BY <1>1 DEF IInv, PaidInv
      <3> QED BY <1>1, <3>1, TermTypes DEF IInv
    <2> QED BY <2>1 DEF RepeatsPaidFor
  <1> QED BY Invariant, <1>1, PTL

-----------------------------------------------------------------------------
(* The subscriber implements the contract of the subscription.             *)

AbsStatus == [m \in Msgs |-> Status(m)]

\* Initially every event is open and nothing has happened to it.
LEMMA ContractInit == Init => Contract!Init
  BY DEF Init, Contract!Init, Status, Settled

\* A step that settles nothing, calls no handler and counts no failure is no step of the contract.
LEMMA ContractQuiet ==
  ASSUME UNCHANGED <<outcomeVars, faults, late>>, \A m \in Msgs : Status(m)' = Status(m)
  PROVE  [Contract!Next]_(Contract!vars)
  <1>1. AbsStatus' = AbsStatus
    BY DEF AbsStatus
  <1> QED BY <1>1 DEF Contract!vars, AbsStatus, outcomeVars

\* A step that settles nothing, calls no handler and counts one failure is a failure.
LEMMA ContractFails ==
  ASSUME TypeOK, UNCHANGED outcomeVars, \A m \in Msgs : Status(m)' = Status(m),
         \/ faults' = faults + 1 /\ late' = late
         \/ faults' = faults /\ late' = late + 1
  PROVE  [Contract!Next]_(Contract!vars)
  <1>1. AbsStatus' = AbsStatus
    BY DEF AbsStatus
  <1>2. faults \in Nat /\ late \in Nat
    BY EventAssumption DEF TypeOK
  <1>3. faults' + late' = (faults + late) + 1
    BY <1>2
  <1>4. Contract!Fail
    BY <1>1, <1>3 DEF Contract!Fail, AbsStatus, outcomeVars
  <1> QED BY <1>4 DEF Contract!Next

\* The consumer's deliveries and timeouts.
LEMMA ConsumerContract ==
  ASSUME IInv, NEW m \in Msgs, Deliver(m) \/ AckWaitExpires(m) \/ AckWaitExpiresLate(m) \/ Pop(m)
  PROVE  [Contract!Next]_(Contract!vars)
  <1>1. UNCHANGED <<outcomeVars, faults>> /\ \A k \in Msgs : Status(k)' = Status(k)
    BY DEF Deliver, AckWaitExpires, AckWaitExpiresLate, Pop, brokerVars, Status, Settled, IInv, TypeOK
  <1>2. late' = late \/ late' = late + 1
    BY DEF Deliver, AckWaitExpires, AckWaitExpiresLate, Pop, brokerVars
  <1> QED BY <1>1, <1>2, ContractQuiet, ContractFails DEF IInv

\* A reply settles an open event for a reason that exists, or changes nothing.
LEMMA ReplyContract ==
  ASSUME IInv, NEW s \in Subs, ack(s) \/ term(s) \/ nak(s)
  PROVE  [Contract!Next]_(Contract!vars)
  <1>1. PICK m \in Msgs : m = msg[s]
    BY DEF ack, term, nak, Reply, IInv, TypeOK
  <1>2. UNCHANGED <<outcomeVars, faults, late>>
    BY DEF ack, term, nak, Reply
  <1>3. CASE \A k \in Msgs : Status(k)' = Status(k)
    BY <1>2, <1>3, ContractQuiet
  <1>4. ASSUME NEW how \in Settled, st' = [st EXCEPT ![m] = how], st[m] \notin Settled,
               how = "acked" => runs[m] > 0,
               how = "termed" => m \in Malformed \union rejected
        PROVE  [Contract!Next]_(Contract!vars)
    <2>1. AbsStatus[m] = "open"
      BY <1>4 DEF AbsStatus, Status
    <2>2. \A k \in Msgs : Status(k)' = IF k = m THEN how ELSE Status(k)
      BY <1>4 DEF Status, IInv, TypeOK
    <2>3. AbsStatus' = [AbsStatus EXCEPT ![m] = how]
      BY <2>2 DEF AbsStatus
    <2>4. Contract!Settle(m, how)
      BY <1>2, <1>4, <2>1, <2>3 DEF Contract!Settle, AbsStatus, outcomeVars
    <2> QED BY <2>4 DEF Contract!Next, Settled
  <1>5. CASE s \in gone \/ nak(s)
    <2>1. \A k \in Msgs : Status(k)' = Status(k)
      BY <1>1, <1>5 DEF ack, term, nak, Reply, Status, Settled, IInv, TypeOK
    <2> QED BY <1>3, <2>1
  <1>6. CASE s \notin gone /\ ack(s)
    <2>1. CASE st[m] \in Settled
      <3>1. \A k \in Msgs : Status(k)' = Status(k)
        BY <1>1, <1>6, <2>1 DEF ack, Reply, Status, Settled, IInv, TypeOK
      <3> QED BY <1>3, <3>1
    <2>2. CASE st[m] \notin Settled
      <3>1. st' = [st EXCEPT ![m] = "acked"] /\ runs[m] > 0
        BY <1>1, <1>6, <2>2 DEF ack, Reply, Settled, IInv, WorkInv
      <3> QED BY <1>4, <2>2, <3>1 DEF Settled
    <2> QED BY <2>1, <2>2
  <1>7. CASE s \notin gone /\ term(s)
    <2>1. CASE st[m] \in Settled
      <3>1. \A k \in Msgs : Status(k)' = Status(k)
        BY <1>1, <1>7, <2>1 DEF term, Reply, Status, Settled, IInv, TypeOK
      <3> QED BY <1>3, <3>1
    <2>2. CASE st[m] \notin Settled
      <3>1. st' = [st EXCEPT ![m] = "termed"] /\ m \in Malformed \union rejected
        BY <1>1, <1>7, <2>2 DEF term, Reply, Settled, IInv, WorkInv
      <3> QED BY <1>4, <2>2, <3>1 DEF Settled
    <2> QED BY <2>1, <2>2
  <1> QED BY <1>5, <1>6, <1>7

\* What a handler returns: a success is the first, or a failure has been counted for it.
LEMMA HandlerContract ==
  ASSUME IInv, NEW s \in Subs, HandleOk(s) \/ HandleTerminal(s)
  PROVE  [Contract!Next]_(Contract!vars)
  <1>1. PICK m \in Msgs : m = msg[s] /\ SubOf[m] = s /\ at[s] = "handle" /\ m \notin Malformed
    BY DEF HandleOk, HandleTerminal, IInv, TypeOK, WorkInv
  <1>2. UNCHANGED <<AbsStatus, faults, late>>
    BY DEF HandleOk, HandleTerminal, brokerVars, AbsStatus, Status
  <1>3. CASE HandleOk(s)
    <2>1. runs[m] <= faults + late
      <3>1. Copy(m) = 1
        BY <1>1 DEF Copy
      <3>2. runs[m] + buf[m] + Copy(m) + Owed(m) + Reserve(m) <= 1 + faults + late
        BY DEF IInv, PaidInv
      <3> QED BY <3>1, <3>2, TermTypes DEF IInv
    <2>2. Contract!Succeed(m)
      BY <1>1, <1>2, <1>3, <2>1 DEF HandleOk, Contract!Succeed, AbsStatus
    <2> QED BY <2>2 DEF Contract!Next
  <1>4. CASE HandleTerminal(s)
    <2>1. Contract!Reject(m)
      BY <1>1, <1>2, <1>4 DEF HandleTerminal, Contract!Reject, AbsStatus
    <2> QED BY <2>1 DEF Contract!Next
  <1> QED BY <1>3, <1>4

\* An Unsubscribe that deletes the consumer opens all events of its subject again, after a Stop.
LEMMA UnsubscribeContract ==
  ASSUME IInv, NEW s \in Subs, Unsubscribe(s)
  PROVE  [Contract!Next]_(Contract!vars)
  <1>1. UNCHANGED <<outcomeVars, faults, late>>
    BY DEF Unsubscribe
  <1>2. CASE UNCHANGED st
    BY <1>1, <1>2, ContractQuiet DEF Status
  <1>3. CASE DeleteConsumer(s)
    <2>1. faults + late > 0
      BY EventAssumption DEF Unsubscribe, IInv, EndingInv, Ending, TypeOK
    <2>2. \A m \in Msgs : Status(m)' = IF SubOf[m] = s THEN "open" ELSE Status(m)
      BY <1>3 DEF DeleteConsumer, Status, Settled
    <2>3. AbsStatus' = [m \in Msgs |-> IF SubOf[m] = s THEN "open" ELSE AbsStatus[m]]
      BY <2>2 DEF AbsStatus
    <2>4. Contract!Forget(s)
      BY <1>1, <2>1, <2>3 DEF Contract!Forget, AbsStatus, outcomeVars
    <2> QED BY <2>4 DEF Contract!Next
  <1> QED BY <1>2, <1>3 DEF Unsubscribe

\* Every step of the subscriber, the consumers and the process is a step of the contract or leaves
\* its state alone.
LEMMA ContractStep == IInv /\ [Next]_vars => [Contract!Next]_(Contract!vars)
  <1> SUFFICES ASSUME IInv, [Next]_vars PROVE [Contract!Next]_(Contract!vars)
    OBVIOUS
  <1>1. CASE UNCHANGED <<st, late, outcomeVars, faults>>
    BY <1>1, ContractQuiet DEF Status
  <1>2. CASE UNCHANGED <<st, late, outcomeVars>> /\ Fault
    BY <1>2, ContractFails DEF Fault, IInv, Status
  <1>3. ASSUME NEW s \in Subs, handleMessage(s) PROVE [Contract!Next]_(Contract!vars)
    BY <1>1, <1>2, <1>3, ReplyContract, HandlerContract
    DEF handleMessage, Begin, HandleTransient, ReplyLost, brokerVars
  <1>4. CASE Lifecycle
    BY <1>1, <1>4, UnsubscribeContract
    DEF Lifecycle, Start, StopDrained, StopTimesOut, Exit, Die, NewEventSubscriber, brokerVars
  <1>5. CASE Failure
    BY <1>2, <1>5 DEF Failure, StartFails, Stop, Crash, Die, brokerVars
  <1>6. CASE UNCHANGED vars
    BY <1>1, <1>6 DEF vars, brokerVars
  <1> QED BY <1>3, <1>4, <1>5, <1>6, ConsumerContract DEF Next

\* The subscriber implements the contract of the subscription, for any number of events, subjects,
\* crashes, restarts, lost replies and late timeouts.
THEOREM Refinement == Spec => ImplementsContract
  BY ContractInit, ContractStep, Invariant, PTL DEF Spec, ImplementsContract, Contract!Spec
=============================================================================
