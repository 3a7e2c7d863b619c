--------------------------- MODULE QueueSubscriber ---------------------------
(***************************************************************************)
(* The task worker (concrete/nats/queue_subscriber.go, failed_message.go): *)
(* JetStream pushes each task to the subscription of its subject, one      *)
(* goroutine per subscription runs handleMessage, and the outcome is an    *)
(* Ack, a Nak, or a dead-letter row followed by a Term.                    *)
(*                                                                         *)
(* The durable consumer (delivery count, AckWait, MaxDeliver) and the      *)
(* client's dispatch loop are modelled from how the worker uses them.      *)
(* Delays are left out: a message that may be redelivered can be           *)
(* redelivered at once.                                                    *)
(***************************************************************************)
EXTENDS Integers, FiniteSets

CONSTANTS
    Msgs,         \* tasks in the stream
    Subs,         \* subscriptions, one per registered queues.* subject
    SubOf,        \* SubOf[m]: the subscription of m's subject
    None,         \* no message
    MaxDeliver,   \* defaultMaxDeliver
    Malformed,    \* messages whose envelope does not parse
    Unkeyed,      \* messages whose envelope yields no UUID, whether or not it parses
    NoMeta,       \* messages whose JetStream metadata cannot be read
    MaxFaults     \* bound: crashes, Stops, lost replies and database errors

ASSUME QueueAssumption ==
    /\ SubOf \in [Msgs -> Subs]
    /\ None \notin Msgs
    /\ MaxDeliver \in Nat \ {0}
    /\ Malformed \subseteq Msgs
    /\ Unkeyed \subseteq Msgs
    /\ NoMeta \subseteq Msgs
    /\ MaxFaults \in Nat

VARIABLES
    \* JetStream consumer
    st,           \* st[m]: what the broker does with m next
    num,          \* num[m]: NumDelivered
    silent,       \* history: messages for which AckWait of their consumer passed without a reply
    gone,         \* subscriptions whose durable consumer does not exist, or no longer
    deletions,    \* history: deletions[s]: times the consumer of s was deleted
    \* the process
    proc,         \* life cycle of the subscriber
    subs,         \* active subscriptions
    buf,          \* deliveries <<m, n>> buffered in the client
    at,           \* at[s]: where the goroutine of subscription s is
    msg, att,     \* msg[s], att[s]: the delivery it is handling, its NumDelivered
    calls,        \* history: calls[m]: times handleMessage was called with m
    \* the outside world
    handled,      \* history: tasks whose handler returned nil at least once
    rows,         \* rows[m]: failed_tasks rows written for m
    saveFailed,   \* history: messages whose dead-letter write returned an error
    faults

brokerVars  == <<st, num, silent, gone, deletions>>
workerVars  == <<at, msg, att, calls>>
clientVars  == <<proc, subs, buf>>
outcomeVars == <<handled, rows, saveFailed>>
vars == <<brokerVars, workerVars, clientVars, outcomeVars, faults>>

Final == {"acked", "termed", "exhausted"}
Stages == {"idle", "popped", "handle", "dlq", "ack", "term", "nak"}
Procs == {"starting", "running", "aborted", "stopping", "waiting", "drained", "timedout", "down"}

ConsumerType ==
    /\ st \in [Msgs -> {"pending", "out"} \union Final]
    /\ num \in [Msgs -> 0..MaxDeliver]
    /\ silent \in SUBSET Msgs
    /\ gone \in SUBSET Subs
    /\ deletions \in [Subs -> Nat]

WorkerType ==
    /\ at \in [Subs -> Stages]
    /\ msg \in [Subs -> Msgs \union {None}]
    /\ att \in [Subs -> 0..MaxDeliver]
    /\ calls \in [Msgs -> Nat]
    /\ \A s \in Subs : at[s] = "idle" <=> msg[s] = None

ClientType ==
    /\ proc \in Procs
    /\ subs \in SUBSET Subs
    /\ buf \in SUBSET (Msgs \X (1..MaxDeliver))
    /\ faults \in 0..MaxFaults

OutcomeType ==
    /\ handled \in SUBSET Msgs
    /\ rows \in [Msgs -> Nat]
    /\ saveFailed \in SUBSET Msgs

\* The types of the consumer's and the worker's state; a goroutine has a message exactly while it
\* is not idle.
TypeOK == ConsumerType /\ WorkerType /\ ClientType /\ OutcomeType

Init ==
    /\ st = [m \in Msgs |-> "pending"]
    /\ num = [m \in Msgs |-> 0]
    /\ silent = {}
    /\ gone = Subs
    /\ deletions = [s \in Subs |-> 0]
    /\ proc = "starting"
    /\ subs = {}
    /\ buf = {}
    /\ at = [s \in Subs |-> "idle"]
    /\ msg = [s \in Subs |-> None]
    /\ att = [s \in Subs |-> 0]
    /\ calls = [m \in Msgs |-> 0]
    /\ handled = {}
    /\ rows = [m \in Msgs |-> 0]
    /\ saveFailed = {}
    /\ faults = 0

Fault == faults < MaxFaults /\ faults' = faults + 1

-----------------------------------------------------------------------------
(* The durable consumer.                                                   *)

\* m will be delivered again if it has deliveries left.
Requeue(m) == IF num[m] < MaxDeliver THEN "pending" ELSE "exhausted"

Deliver(m) ==
    /\ st[m] = "pending"
    /\ SubOf[m] \in subs
    /\ num[m] < MaxDeliver
    /\ st' = [st EXCEPT ![m] = "out"]
    /\ num' = [num EXCEPT ![m] = @ + 1]
    /\ buf' = buf \union {<<m, num[m] + 1>>}
    /\ UNCHANGED <<silent, gone, deletions, proc, subs, workerVars, outcomeVars, faults>>

\* No reply within AckWait: the handler is slow, its reply was lost, or the process died.
AckWaitExpires(m) ==
    /\ st[m] = "out"
    /\ st' = [st EXCEPT ![m] = Requeue(m)]
    /\ silent' = silent \union {m}
    /\ UNCHANGED <<num, gone, deletions, clientVars, workerVars, outcomeVars, faults>>

-----------------------------------------------------------------------------
(* Start and Stop.                                                         *)

StartReturnsEarly(s) ==
    /\ proc = "starting"
    /\ subs' = subs \union {s}
    /\ gone' = gone \ {s}
    /\ proc' = "running"
    /\ UNCHANGED <<st, num, silent, deletions, buf, workerVars, outcomeVars, faults>>

\* Start: one js.Subscribe per subject, in no particular order (router.Subjects ranges over a map),
\* on the durable consumer of the subject, which is created if it does not exist.
Start(s) ==
    /\ proc = "starting"
    /\ s \notin subs
    /\ subs' = subs \union {s}
    /\ gone' = gone \ {s}
    /\ proc' = IF subs' = Subs THEN "running" ELSE "starting"
    /\ UNCHANGED <<st, num, silent, deletions, buf, workerVars, outcomeVars, faults>>

\* Start returns the error of a subscribe; earlier subscriptions stay active until the process ends.
StartFails ==
    /\ proc = "starting"
    /\ Fault
    /\ proc' = "aborted"
    /\ UNCHANGED <<subs, buf, brokerVars, workerVars, outcomeVars>>

Stop ==
    /\ proc = "running"
    /\ Fault
    /\ proc' = "stopping"
    /\ UNCHANGED <<subs, buf, brokerVars, workerVars, outcomeVars>>

\* The client deletes a consumer that it created itself, and with it what the broker knew of the
\* subject's tasks: a later subscriber of the same name starts from the beginning of the stream.
DeleteConsumer(s) ==
    /\ gone' = gone \union {s}
    /\ deletions' = [deletions EXCEPT ![s] = @ + 1]
    /\ st' = [m \in Msgs |-> IF SubOf[m] = s THEN "pending" ELSE st[m]]
    /\ num' = [m \in Msgs |-> IF SubOf[m] = s THEN 0 ELSE num[m]]
    /\ silent' = {m \in silent : SubOf[m] # s}

UnsubscribeOnlyFirst(s) ==
    /\ proc = "stopping"
    /\ subs = Subs
    /\ s \in subs
    /\ subs' = subs \ {s}
    /\ proc' = IF subs' = {} THEN "waiting" ELSE "stopping"
    /\ buf' = {d \in buf : SubOf[d[1]] # s}
    /\ DeleteConsumer(s) \/ UNCHANGED brokerVars
    /\ UNCHANGED <<workerVars, outcomeVars, faults>>

\* Stop: every subscription is removed, and what the client had buffered for it with it.  An error
\* is collected and means the subscription was already gone.
Unsubscribe(s) ==
    /\ proc = "stopping"
    /\ s \in subs
    /\ subs' = subs \ {s}
    /\ proc' = IF subs' = {} THEN "waiting" ELSE "stopping"
    /\ buf' = {d \in buf : SubOf[d[1]] # s}
    /\ DeleteConsumer(s) \/ UNCHANGED brokerVars
    /\ UNCHANGED <<workerVars, outcomeVars, faults>>

\* The WaitGroup counts the handlers that have executed wg.Add.
InFlight == {s \in Subs : at[s] \notin {"idle", "popped"}}

\* Stop: wg.Wait returned.
StopDrained ==
    /\ proc = "waiting"
    /\ InFlight = {}
    /\ proc' = "drained"
    /\ UNCHANGED <<subs, buf, brokerVars, workerVars, outcomeVars, faults>>

\* Stop: the context of the caller expired first.
StopTimesOut ==
    /\ proc = "waiting"
    /\ proc' = "timedout"
    /\ UNCHANGED <<subs, buf, brokerVars, workerVars, outcomeVars, faults>>

\* The process is gone, with its goroutines and buffers.
Die ==
    /\ proc' = "down"
    /\ subs' = {}
    /\ buf' = {}
    /\ at' = [s \in Subs |-> "idle"]
    /\ msg' = [s \in Subs |-> None]
    /\ att' = [s \in Subs |-> 0]
    /\ UNCHANGED <<calls, brokerVars, outcomeVars>>

Crash == proc # "down" /\ Fault /\ Die

Exit == proc \in {"drained", "timedout", "aborted"} /\ Die /\ UNCHANGED faults

\* A new process builds a new subscriber.
NewQueueSubscriber ==
    /\ proc = "down"
    /\ proc' = "starting"
    /\ UNCHANGED <<subs, buf, brokerVars, workerVars, outcomeVars, faults>>

-----------------------------------------------------------------------------
(* handleMessage.                                                          *)

\* The client takes the oldest delivery of m off its buffer and is about to call handleMessage.
Pop(s, m, n) ==
    /\ s \in subs
    /\ SubOf[m] = s
    /\ at[s] = "idle"
    /\ <<m, n>> \in buf
    /\ \A k \in 1..(n - 1) : <<m, k>> \notin buf
    /\ buf' = buf \ {<<m, n>>}
    /\ at' = [at EXCEPT ![s] = "popped"]
    /\ msg' = [msg EXCEPT ![s] = m]
    /\ att' = [att EXCEPT ![s] = n]
    /\ calls' = [calls EXCEPT ![m] = @ + 1]
    /\ UNCHANGED <<proc, subs, brokerVars, outcomeVars, faults>>

Goto(s, stage) == at' = [at EXCEPT ![s] = stage] /\ UNCHANGED <<msg, att, calls>>

\* Where handleMessage goes before the router is asked: without metadata the message is terminated,
\* with a dead letter only if the envelope parses; a malformed envelope is dead-lettered.
Enter(m) ==
    CASE m \in NoMeta /\ m \in Malformed -> "term"
      [] m \in NoMeta \ Malformed -> "dlq"
      [] m \in Malformed \ NoMeta -> "dlq"
      [] OTHER -> "handle"

Begin(s) ==
    /\ at[s] = "popped"
    /\ Goto(s, Enter(msg[s]))
    /\ UNCHANGED <<brokerVars, clientVars, outcomeVars, faults>>

HandleOk(s) ==
    /\ at[s] = "handle"
    /\ Goto(s, "ack")
    /\ handled' = handled \union {msg[s]}
    /\ UNCHANGED <<rows, saveFailed, brokerVars, clientVars, faults>>

HandleTerminalNoRow(s) ==
    /\ at[s] = "handle"
    /\ Goto(s, "term")
    /\ UNCHANGED <<brokerVars, clientVars, outcomeVars, faults>>

\* The handler returned an application error.
HandleTerminal(s) ==
    /\ at[s] = "handle"
    /\ Goto(s, "dlq")
    /\ UNCHANGED <<brokerVars, clientVars, outcomeVars, faults>>

HandleTransientOffByOne(s) ==
    /\ at[s] = "handle"
    /\ Goto(s, IF att[s] > MaxDeliver THEN "dlq" ELSE "nak")
    /\ UNCHANGED <<brokerVars, clientVars, outcomeVars, faults>>

\* Any other error (the cancelled context of Stop among them): retry while attempts remain.
HandleTransient(s) ==
    /\ at[s] = "handle"
    /\ Goto(s, IF att[s] >= MaxDeliver THEN "dlq" ELSE "nak")
    /\ UNCHANGED <<brokerVars, clientVars, outcomeVars, faults>>

saveAlwaysCreates(m) == rows' = [rows EXCEPT ![m] = @ + 1]

\* failedMessageRepository.save: a row is keyed by the envelope's id and created once; for an
\* envelope whose id is no UUID deadLetter mints a fresh one each time.
save(m) == rows' = [rows EXCEPT ![m] = IF m \in Unkeyed \/ @ = 0 THEN @ + 1 ELSE @]

deadLetter(s) ==
    /\ at[s] = "dlq"
    /\ save(msg[s])
    /\ Goto(s, "term")
    /\ UNCHANGED <<handled, saveFailed, brokerVars, clientVars, faults>>

\* The error of save is only logged; the row may have been written all the same.
deadLetterFails(s) ==
    /\ at[s] = "dlq"
    /\ Fault
    /\ save(msg[s]) \/ UNCHANGED rows
    /\ saveFailed' = saveFailed \union {msg[s]}
    /\ Goto(s, "term")
    /\ UNCHANGED <<handled, brokerVars, clientVars>>

ReturnKeepsMessage(s) == at' = [at EXCEPT ![s] = "idle"] /\ UNCHANGED <<msg, att, calls>>

\* handleMessage returns (wg.Done) and the dispatch loop is free again.
Return(s) ==
    /\ at' = [at EXCEPT ![s] = "idle"]
    /\ msg' = [msg EXCEPT ![s] = None]
    /\ att' = [att EXCEPT ![s] = 0]
    /\ UNCHANGED calls

\* An Ack or a Term settles the message, whichever delivery it answers; nobody is left to hear it
\* when the consumer is gone.
Settle(s, stage, outcome) ==
    /\ at[s] = stage
    /\ st' = [st EXCEPT ![msg[s]] = IF @ \in Final \/ s \in gone THEN @ ELSE outcome]
    /\ Return(s)
    /\ UNCHANGED <<num, silent, gone, deletions, clientVars, outcomeVars, faults>>

ack(s) == Settle(s, "ack", "acked")

term(s) == Settle(s, "term", "termed")

\* NakWithDelay.
nak(s) ==
    /\ at[s] = "nak"
    /\ st' = [st EXCEPT ![msg[s]] = IF @ = "out" /\ s \notin gone THEN Requeue(msg[s]) ELSE @]
    /\ Return(s)
    /\ UNCHANGED <<num, silent, gone, deletions, clientVars, outcomeVars, faults>>

\* A reply that fails, or never reaches the broker, is only logged.
ReplyLost(s) ==
    /\ at[s] \in {"ack", "term", "nak"}
    /\ Fault
    /\ Return(s)
    /\ UNCHANGED <<brokerVars, clientVars, outcomeVars>>

-----------------------------------------------------------------------------
Consumer(m) == Deliver(m) \/ AckWaitExpires(m)

handleMessage(s) ==
    \/ \E m \in Msgs, n \in 1..MaxDeliver : Pop(s, m, n)
    \/ Begin(s)
    \/ HandleOk(s)
    \/ HandleTerminal(s)
    \/ HandleTransient(s)
    \/ deadLetter(s)
    \/ deadLetterFails(s)
    \/ ack(s)
    \/ term(s)
    \/ nak(s)
    \/ ReplyLost(s)

Lifecycle ==
    \/ \E s \in Subs : Start(s) \/ Unsubscribe(s)
    \/ StopDrained
    \/ Exit
    \/ NewQueueSubscriber

Failure == StartFails \/ Stop \/ StopTimesOut \/ Crash

Next ==
    \/ \E m \in Msgs : Consumer(m)
    \/ \E s \in Subs : handleMessage(s)
    \/ Lifecycle
    \/ Failure

Spec == Init /\ [][Next]_vars

\* Handlers return, the broker delivers and its AckWait timers fire, and the process is started again after it ended.
Fairness ==
    /\ \A m \in Msgs : WF_vars(Deliver(m)) /\ WF_vars(AckWaitExpires(m))
    /\ \A s \in Subs : WF_vars(handleMessage(s))
    /\ WF_vars(Lifecycle)

FairSpec == Spec /\ Fairness

-----------------------------------------------------------------------------
(* Properties.                                                             *)

\* Without metadata and without an envelope there is nothing a dead-letter row could record.
Unrecordable(m) == m \in NoMeta /\ m \in Malformed

\* A task the worker has taken off the stream is accounted for: acknowledged only after its handler
\* succeeded; terminated only after its dead letter was written, or the write failed.
ResolvedIsAccounted ==
    \A m \in Msgs :
        /\ st[m] = "acked" => m \in handled
        /\ st[m] = "termed" => rows[m] > 0 \/ m \in saveFailed \/ Unrecordable(m)

\* A task whose envelope carries a UUID has at most one failed_tasks row, however often it is
\* redelivered between the write and the Term and whatever consumer delivers it; any other task,
\* for which deadLetter mints an id, has at most one row for each call of handleMessage.
DeadLetterOnce ==
    \A m \in Msgs :
        /\ m \notin Unkeyed => rows[m] <= 1
        /\ rows[m] <= calls[m]

\* The last attempt is answered with a dead letter and never with a Nak: the broker gives up on a
\* task by itself only when AckWait passed for one of its deliveries.
ExhaustedOnlyBySilence == \A m \in Msgs : st[m] = "exhausted" => m \in silent

\* Every task is eventually handled or dead-lettered, whatever crashes, lost replies and restarts
\* happen on the way, unless the dead-letter write failed or AckWait used up its last delivery.
EventuallyAccounted ==
    \A m \in Msgs : <>(\/ m \in handled
                       \/ rows[m] > 0
                       \/ st[m] = "exhausted"
                       \/ m \in saveFailed
                       \/ Unrecordable(m))

-----------------------------------------------------------------------------
(* The inductive invariant behind the safety properties.                   *)

\* What the goroutine of a subscription has already done when it is about to reply.
WorkInv ==
    \A s \in Subs :
        /\ at[s] = "ack" => msg[s] \in handled
        /\ at[s] = "term" => rows[msg[s]] > 0 \/ msg[s] \in saveFailed \/ Unrecordable(msg[s])
        /\ at[s] = "nak" => att[s] < MaxDeliver
        /\ at[s] # "idle" => SubOf[msg[s]] = s

\* Until AckWait passes for a message of an existing consumer there is at most one live delivery of
\* it, the latest, and the broker is waiting for its reply.
FreshInv ==
    \A m \in {k \in Msgs \ silent : SubOf[k] \notin gone} :
        /\ st[m] # "exhausted"
        /\ \A n \in 1..MaxDeliver : <<m, n>> \in buf => n = num[m] /\ st[m] = "out"
        /\ \A s \in Subs : msg[s] = m =>
              att[s] = num[m] /\ st[m] = "out" /\ <<m, num[m]>> \notin buf

\* Without a consumer nothing is known of the subject's tasks; without a subscription nothing is
\* buffered, and in a process that is not yet subscribed no goroutine of the subject runs.
GoneInv ==
    /\ gone \intersect subs = {}
    /\ \A m \in Msgs : SubOf[m] \in gone => st[m] = "pending" /\ num[m] = 0
    /\ \A d \in buf : SubOf[d[1]] \in subs
    /\ proc \in {"starting", "down"} => \A s \in Subs \ subs : at[s] = "idle"

\* A consumer is deleted at most once for each Stop.
DeletionInv ==
    \A s \in Subs : deletions[s] + (IF proc = "stopping" /\ s \in subs THEN 1 ELSE 0) <= faults

\* Whether the goroutine holds a call for m that may still write a dead letter.
Unwritten(m) ==
    IF msg[SubOf[m]] = m /\ at[SubOf[m]] \in {"popped", "handle", "dlq"} THEN 1 ELSE 0

\* Every row, and every one still to be written, has a call of handleMessage of its own.
RowsInv == \A m \in Msgs : rows[m] + Unwritten(m) <= calls[m]

\* Whatever is buffered, handled or waited for has been delivered; the router sees only messages
\* whose envelope and metadata were read, and save only those that leave something to record.
AttemptInv ==
    /\ \A d \in buf : num[d[1]] > 0
    /\ \A m \in Msgs : st[m] = "out" => num[m] > 0
    /\ \A s \in Subs :
          /\ at[s] # "idle" => calls[msg[s]] > 0
          /\ at[s] = "handle" => msg[s] \notin Malformed \union NoMeta
          /\ at[s] = "dlq" => ~Unrecordable(msg[s])

\* Holds initially, is preserved by every step, and implies the safety properties.
IInv ==
    /\ TypeOK
    /\ WorkInv
    /\ FreshInv
    /\ GoneInv
    /\ DeletionInv
    /\ RowsInv
    /\ ResolvedIsAccounted
    /\ DeadLetterOnce
    /\ AttemptInv

-----------------------------------------------------------------------------
(* The contract.                                                           *)

Status(m) == IF st[m] \in Final THEN st[m] ELSE "open"

\* The worker and its consumer implement the contract of the task queue.
Contract == INSTANCE TaskContract WITH
    Tasks <- Msgs,
    Subjects <- Subs,
    SubjectOf <- SubOf,
    MaxAttempts <- MaxDeliver,
    Readable <- Msgs \ (Malformed \union NoMeta),
    Recordable <- {m \in Msgs : ~Unrecordable(m)},
    status <- [m \in Msgs |-> Status(m)],
    attempts <- num,
    begun <- calls,
    recorded <- {m \in Msgs : rows[m] > 0},
    unrecorded <- saveFailed,
    unanswered <- silent,
    forgotten <- deletions,
    failures <- faults

\* Every step of the worker, of a late delivery and of a restarted process among them, is one the
\* contract allows: a task is settled for a reason that exists by then, at the latest after
\* MaxDeliver attempts, and stays settled and undelivered unless a Stop deletes the consumer of its
\* subject, at most once for each failure, Stops included, so that all of the subject's tasks start
\* over (handleMessage, deadLetter, ack, term, nak, Stop).
ImplementsContract == Contract!Spec

-----------------------------------------------------------------------------
\* Stop returns, by draining unless its caller's context expires.
StopReturns == proc = "stopping" ~> proc \in {"drained", "timedout", "down"}

\* queue_subscriber.go:124 says Stop waits for in-flight handlers to drain: once it has drained, no
\* handler runs.
StoppedMeansDrained == proc = "drained" => \A s \in Subs : at[s] = "idle"

\* failed_message.go:13 says every message given up on after MaxDeliver attempts has a row (once no
\* delivery of it is left in the process).
ExhaustedHasRow ==
    \A m \in Msgs :
        /\ st[m] = "exhausted"
        /\ \A d \in buf : d[1] # m
        /\ \A s \in Subs : msg[s] # m
        => rows[m] > 0 \/ m \in handled
=============================================================================
