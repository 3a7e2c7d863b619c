--------------------------- MODULE EventSubscriber ---------------------------
(***************************************************************************)
(* The subscriber to integration events (concrete/nats/event_subscriber.go,*)
(* lifecycle_context.go): like the task worker, but the consumer has no    *)
(* MaxDeliver, a Nak asks for immediate redelivery, and a rejected event is*)
(* terminated without a dead letter.                                       *)
(*                                                                         *)
(* The durable consumer and the client's dispatch loop are modelled from   *)
(* how the subscriber uses them.  Delays are left out.                     *)
(***************************************************************************)
EXTENDS Integers, FiniteSets

CONSTANTS
    Msgs,         \* events in the stream
    Subs,         \* subscriptions, one per registered subject that is no queue
    SubOf,        \* SubOf[m]: the subscription of m's subject
    None,         \* no message
    Malformed,    \* messages whose envelope does not parse
    MaxFaults,    \* bound: crashes, Stops, failed Starts and lost replies
    MaxLate       \* bound: AckWait passes while a delivery is still in the process

ASSUME EventAssumption ==
    /\ SubOf \in [Msgs -> Subs]
    /\ None \notin Msgs
    /\ Malformed \subseteq Msgs
    /\ MaxFaults \in Nat
    /\ MaxLate \in Nat

VARIABLES
    \* JetStream
    st,           \* st[m]: what the consumer does with m next
    gone,         \* subscriptions whose durable consumer was deleted
    late,         \* number of times AckWait passed for a delivery still in the process
    \* the process
    proc,         \* life cycle of the subscriber
    subs,         \* active subscriptions
    buf,          \* buf[m]: deliveries of m buffered in the client
    at, msg,      \* at[s], msg[s]: where the goroutine of subscription s is, with which message
    \* history
    runs,         \* runs[m]: times the handler of m returned nil
    rejected,     \* messages whose handler returned an application error
    faults

brokerVars == <<st, gone, late>>
clientVars == <<proc, subs, buf>>
workerVars == <<at, msg>>
outcomeVars == <<runs, rejected>>
vars == <<brokerVars, clientVars, workerVars, outcomeVars, faults>>

Settled == {"acked", "termed"}
Stages == {"idle", "popped", "handle", "ack", "term", "nak"}
Ending == {"aborted", "stopping", "waiting", "drained", "timedout"}

\* The types of the state; a goroutine has a message of its own subject exactly while it is not idle.
TypeOK ==
    /\ st \in [Msgs -> {"pending", "out"} \union Settled]
    /\ gone \in SUBSET Subs
    /\ late \in 0..MaxLate
    /\ proc \in {"starting", "running", "down"} \union Ending
    /\ subs \in SUBSET Subs
    /\ buf \in [Msgs -> Nat]
    /\ at \in [Subs -> Stages]
    /\ msg \in [Subs -> Msgs \union {None}]
    /\ \A s \in Subs : at[s] = "idle" <=> msg[s] = None
    /\ \A s \in Subs : at[s] # "idle" => SubOf[msg[s]] = s
    /\ runs \in [Msgs -> Nat]
    /\ rejected \in SUBSET Msgs
    /\ faults \in 0..MaxFaults

Init ==
    /\ st = [m \in Msgs |-> "pending"]
    /\ gone = Subs
    /\ late = 0
    /\ proc = "starting"
    /\ subs = {}
    /\ buf = [m \in Msgs |-> 0]
    /\ at = [s \in Subs |-> "idle"]
    /\ msg = [s \in Subs |-> None]
    /\ runs = [m \in Msgs |-> 0]
    /\ rejected = {}
    /\ faults = 0

Fault == faults < MaxFaults /\ faults' = faults + 1

-----------------------------------------------------------------------------
(* The durable consumer.                                                   *)

Deliver(m) ==
    /\ st[m] = "pending"
    /\ SubOf[m] \in subs
    /\ st' = [st EXCEPT ![m] = "out"]
    /\ buf' = [buf EXCEPT ![m] = @ + 1]
    /\ UNCHANGED <<gone, late, proc, subs, workerVars, outcomeVars, faults>>

InProcess(m) == buf[m] > 0 \/ msg[SubOf[m]] = m

\* AckWait passes after the reply was lost or the process died.
AckWaitExpires(m) ==
    /\ st[m] = "out"
    /\ ~InProcess(m)
    /\ st' = [st EXCEPT ![m] = "pending"]
    /\ UNCHANGED <<gone, late, clientVars, workerVars, outcomeVars, faults>>

\* AckWait passes while the delivery waits in the buffer or its handler is slow.
AckWaitExpiresLate(m) ==
    /\ st[m] = "out"
    /\ InProcess(m)
    /\ late < MaxLate
    /\ late' = late + 1
    /\ st' = [st EXCEPT ![m] = "pending"]
    /\ UNCHANGED <<gone, clientVars, workerVars, outcomeVars, faults>>

-----------------------------------------------------------------------------
(* Start and Stop.                                                         *)

\* Start: one js.Subscribe per subject, in no particular order (router.Subjects ranges over a map),
\* on the durable consumer of the subject, which is created if it does not exist.
Start(s) ==
    /\ proc = "starting"
    /\ s \notin subs
    /\ subs' = subs \union {s}
    /\ gone' = gone \ {s}
    /\ proc' = IF subs' = Subs THEN "running" ELSE "starting"
    /\ UNCHANGED <<st, late, buf, workerVars, outcomeVars, faults>>

\* Start returns the error of a subscribe; earlier subscriptions stay active until the process ends.
StartFails ==
    /\ proc = "starting"
    /\ Fault
    /\ proc' = "aborted"
    /\ UNCHANGED <<subs, buf, brokerVars, workerVars, outcomeVars>>

\* Stop: the handler context is cancelled; handlers may fail from here on.
Stop ==
    /\ proc = "running"
    /\ Fault
    /\ proc' = "stopping"
    /\ UNCHANGED <<subs, buf, brokerVars, workerVars, outcomeVars>>

\* The client deletes a consumer that it created itself: a later subscriber of the same name starts
\* from the beginning of the stream.
DeleteConsumer(s) ==
    /\ gone' = gone \union {s}
    /\ st' = [m \in Msgs |-> IF SubOf[m] = s THEN "pending" ELSE st[m]]

\* Stop: every subscription is removed, and what the client had buffered for it with it.  An error
\* is collected and means the subscription was already gone.
Unsubscribe(s) ==
    /\ proc = "stopping"
    /\ s \in subs
    /\ subs' = subs \ {s}
    /\ proc' = IF subs' = {} THEN "waiting" ELSE "stopping"
    /\ buf' = [m \in Msgs |-> IF SubOf[m] = s THEN 0 ELSE buf[m]]
    /\ DeleteConsumer(s) \/ UNCHANGED <<gone, st>>
    /\ UNCHANGED <<late, workerVars, outcomeVars, faults>>

\* The WaitGroup counts the handlers that have executed wg.Add.
InFlight == {s \in Subs : at[s] \notin {"idle", "popped"}}

\* Stop: wg.Wait returned.
StopDrained ==
    /\ proc = "waiting"
    /\ InFlight = {}
    /\ proc' = "drained"
    /\ UNCHANGED <<subs, buf, brokerVars, workerVars, outcomeVars, faults>>

\* Stop: the context of the caller expired first.
StopTimesOut ==
    /\ proc = "waiting"
    /\ InFlight # {}
    /\ proc' = "timedout"
    /\ UNCHANGED <<subs, buf, brokerVars, workerVars, outcomeVars, faults>>

\* The process is gone, with its goroutines and buffers.
Die ==
    /\ proc' = "down"
    /\ subs' = {}
    /\ buf' = [m \in Msgs |-> 0]
    /\ at' = [s \in Subs |-> "idle"]
    /\ msg' = [s \in Subs |-> None]
    /\ UNCHANGED <<brokerVars, outcomeVars>>

Crash == proc # "down" /\ Fault /\ Die

Exit == proc \in {"drained", "timedout", "aborted"} /\ Die /\ UNCHANGED faults

\* A new process builds a new subscriber, with a fresh context.
NewEventSubscriber ==
    /\ proc = "down"
    /\ proc' = "starting"
    /\ UNCHANGED <<subs, buf, brokerVars, workerVars, outcomeVars, faults>>

-----------------------------------------------------------------------------
(* handleMessage.                                                          *)

\* The client takes a delivery off its buffer and is about to call handleMessage.
Pop(m) ==
    /\ SubOf[m] \in subs
    /\ at[SubOf[m]] = "idle"
    /\ buf[m] > 0
    /\ buf' = [buf EXCEPT ![m] = @ - 1]
    /\ at' = [at EXCEPT ![SubOf[m]] = "popped"]
    /\ msg' = [msg EXCEPT ![SubOf[m]] = m]
    /\ UNCHANGED <<proc, subs, brokerVars, outcomeVars, faults>>

Goto(s, stage) == at' = [at EXCEPT ![s] = stage] /\ UNCHANGED msg

ReturnKeepsMessage(s) == at' = [at EXCEPT ![s] = "idle"] /\ UNCHANGED msg

\* handleMessage returns (wg.Done) and the dispatch loop is free again.
Return(s) ==
    /\ at' = [at EXCEPT ![s] = "idle"]
    /\ msg' = [msg EXCEPT ![s] = None]

BeginDropsMalformed(s) ==
    /\ at[s] = "popped"
    /\ IF msg[s] \in Malformed THEN Return(s) ELSE Goto(s, "handle")
    /\ UNCHANGED <<brokerVars, clientVars, outcomeVars, faults>>

\* A malformed envelope is terminated, anything else goes to the router.
Begin(s) ==
    /\ at[s] = "popped"
    /\ Goto(s, IF msg[s] \in Malformed THEN "term" ELSE "handle")
    /\ UNCHANGED <<brokerVars, clientVars, outcomeVars, faults>>

HandleOk(s) ==
    /\ at[s] = "handle"
    /\ runs' = [runs EXCEPT ![msg[s]] = @ + 1]
    /\ Goto(s, "ack")
    /\ UNCHANGED <<rejected, brokerVars, clientVars, faults>>

\* The handler returned an application error.
HandleTerminal(s) ==
    /\ at[s] = "handle"
    /\ rejected' = rejected \union {msg[s]}
    /\ Goto(s, "term")
    /\ UNCHANGED <<runs, brokerVars, clientVars, faults>>

HandleTransientTerminates(s) ==
    /\ at[s] = "handle"
    /\ Goto(s, "term")
    /\ UNCHANGED <<brokerVars, clientVars, outcomeVars, faults>>

\* Any other error, as often as the handler likes.
HandleTransient(s) ==
    /\ at[s] = "handle"
    /\ Goto(s, "nak")
    /\ UNCHANGED <<brokerVars, clientVars, outcomeVars, faults>>

\* A reply reaches a consumer that still exists and does not know the message as settled.
Reply(s, stage, outcome) ==
    /\ at[s] = stage
    /\ st' = IF s \in gone THEN st ELSE [st EXCEPT ![msg[s]] = outcome]
    /\ Return(s)
    /\ UNCHANGED <<gone, late, clientVars, outcomeVars, faults>>

AckForgotten(s) ==
    /\ at[s] = "ack"
    /\ Return(s)
    /\ UNCHANGED <<brokerVars, clientVars, outcomeVars, faults>>

ack(s) == Reply(s, "ack", IF st[msg[s]] = "termed" THEN "termed" ELSE "acked")

term(s) == Reply(s, "term", IF st[msg[s]] = "acked" THEN "acked" ELSE "termed")

nak(s) == Reply(s, "nak", IF st[msg[s]] = "out" THEN "pending" ELSE st[msg[s]])

\* A reply that fails, or never reaches the broker, is only logged.
ReplyLost(s) ==
    /\ at[s] \in {"ack", "term", "nak"}
    /\ Fault
    /\ Return(s)
    /\ UNCHANGED <<brokerVars, clientVars, outcomeVars>>

-----------------------------------------------------------------------------
handleMessage(s) ==
    \/ Begin(s)
    \/ HandleOk(s)
    \/ HandleTerminal(s)
    \/ HandleTransient(s)
    \/ ack(s)
    \/ term(s)
    \/ nak(s)
    \/ ReplyLost(s)

Lifecycle ==
    \/ \E s \in Subs : Start(s) \/ Unsubscribe(s)
    \/ StopDrained
    \/ StopTimesOut
    \/ Exit
    \/ NewEventSubscriber

Failure == StartFails \/ Stop \/ Crash

Next ==
    \/ \E m \in Msgs : Deliver(m) \/ AckWaitExpires(m) \/ AckWaitExpiresLate(m) \/ Pop(m)
    \/ \E s \in Subs : handleMessage(s)
    \/ Lifecycle
    \/ Failure

Spec == Init /\ [][Next]_vars

\* Handlers return, the broker delivers and its timers fire, an ended process is started again, and
\* the client's buffer is first in, first out: a buffered delivery is not passed over for ever.
Fairness ==
    /\ \A m \in Msgs : WF_vars(Deliver(m)) /\ WF_vars(AckWaitExpires(m)) /\ SF_vars(Pop(m))
    /\ \A s \in Subs : WF_vars(handleMessage(s))
    /\ WF_vars(Lifecycle)

FairSpec == Spec /\ Fairness

-----------------------------------------------------------------------------
(* Properties.                                                             *)

\* The consumer forgets an event only for a reason: it was acknowledged after its handler succeeded,
\* or terminated because its envelope does not parse or its handler rejected it.  A transient
\* failure, the cancelled context of Stop among them, never removes an event.
SettledIsAccounted ==
    \A m \in Msgs :
        /\ st[m] = "acked" => runs[m] > 0
        /\ st[m] = "termed" => m \in Malformed \union rejected

\* A handler succeeds more than once for an event only when something went wrong in between: every
\* repetition is paid for by a crash, a Stop, a failed Start, a lost reply, or an AckWait that was
\* too short.  No interleaving of stale copies, Naks and restarts multiplies them further.
RepeatsPaidFor == \A m \in Msgs : runs[m] <= 1 + faults + late

BeingHandled(m) == at[SubOf[m]] = "handle" /\ msg[SubOf[m]] = m

\* No event is abandoned: it is settled in the end, or its handler is called again and again.
NeverAbandoned == \A m \in Msgs : []<>(st[m] \in Settled \/ BeingHandled(m))

-----------------------------------------------------------------------------
(* The contract.                                                           *)

Status(m) == IF st[m] \in Settled THEN st[m] ELSE "open"

\* The subscriber and its consumers implement the contract of the subscription.
Contract == INSTANCE EventContract WITH
    Events <- Msgs,
    Subjects <- Subs,
    SubjectOf <- SubOf,
    Unreadable <- Malformed,
    status <- [m \in Msgs |-> Status(m)],
    successes <- runs,
    failures <- faults + late

\* Every step of the subscriber, of its consumers and of a restarted process is one the contract
\* allows: an event is settled for a reason that exists by then and stays so unless a Stop deletes
\* its consumer, and a handler that succeeds again does so after a failure that accounts for it
\* (handleMessage, Stop).
ImplementsContract == Contract!Spec

-----------------------------------------------------------------------------
(* The inductive invariant behind the safety properties.                   *)

\* Whether the goroutine holds a delivery of m whose handler may still succeed or be tried again.
Copy(m) ==
    IF msg[SubOf[m]] = m /\ at[SubOf[m]] \in {"popped", "handle", "nak"} THEN 1 ELSE 0

\* Whether the consumer will deliver m once more without any further failure.
Owed(m) ==
    IF st[m] = "pending" \/ (st[m] = "out" /\ ~InProcess(m)) THEN 1 ELSE 0

\* Until an ending process has unsubscribed and exited it may still lose one reply.
Reserve(m) == IF proc \in Ending /\ SubOf[m] \notin gone THEN 1 ELSE 0

\* Whatever has been, is or will be handled without further failures, is paid for.
PaidInv ==
    \A m \in Msgs : runs[m] + buf[m] + Copy(m) + Owed(m) + Reserve(m) <= 1 + faults + late

\* A deleted consumer has no subscription, no buffer and has not settled anything.
GoneInv ==
    \A s \in gone :
        /\ s \notin subs
        /\ \A m \in Msgs : SubOf[m] = s => st[m] = "pending" /\ buf[m] = 0

\* What a goroutine knows of its message when it calls the handler and when it is about to reply.
WorkInv ==
    \A s \in Subs :
        /\ at[s] = "handle" => msg[s] \notin Malformed
        /\ at[s] = "ack" => runs[msg[s]] > 0
        /\ at[s] = "term" => msg[s] \in Malformed \union rejected

\* A process ends by a Stop or a failed Start.
EndingInv == proc \in Ending => faults > 0

\* Holds initially, is preserved by every step, and implies the safety properties.
IInv == TypeOK /\ PaidInv /\ GoneInv /\ WorkInv /\ SettledIsAccounted /\ EndingInv
=============================================================================
