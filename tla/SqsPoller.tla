----------------------------- MODULE SqsPoller -----------------------------
(***************************************************************************)
(* The object-storage event worker (concrete/sqs/poller.go): replicas poll *)
(* one SQS queue, parse each message into S3 records, hand the records to  *)
(* the router one by one and delete the message when all of them settled.  *)
(*                                                                         *)
(* The queue is modelled from how the poller uses it: a received message   *)
(* is hidden until its visibility timeout passes, and a delete by a        *)
(* receiver whose receipt is no longer the latest may have no effect.      *)
(* The order of the messages in a response is the queue's choice, so a     *)
(* batch is a set.  Backoff durations are left out.                        *)
(***************************************************************************)
EXTENDS Integers, Sequences, FiniteSets

CONSTANTS
    Msgs,         \* messages of the queue
    Body,         \* Body[m]: the record keys of m's JSON, each "good", "empty" or "bad"
    Garbage,      \* messages whose body is not JSON
    Pollers,      \* replicas of the worker
    None,         \* no message, no poller
    MaxMessages,  \* cfg.MaxMessages
    MaxFaults,    \* bound: crashes, Stops, transient handler errors, SQS errors
    MaxEarly      \* bound: visibility timeouts that pass during processing

ASSUME SqsAssumption ==
    /\ \A m \in Msgs : Body[m] \in Seq({"good", "empty", "bad"})
    /\ Garbage \subseteq Msgs
    /\ None \notin Msgs \union Pollers
    /\ MaxMessages \in 1..10
    /\ MaxFaults \in Nat
    /\ MaxEarly \in Nat

VARIABLES
    \* the queue
    q,            \* q[m]: "visible", "hidden" or "deleted"
    receipt,      \* receipt[m]: the poller with m's latest receipt handle, if it still holds it
    \* the pollers
    pc,           \* where the goroutine of a poller is
    cancelled,    \* its context is cancelled
    stop,         \* its Stop call: "no", "waiting" or "returned"
    batch,        \* messages of the response it has not finished
    cur,          \* the message it processes
    todo,         \* the records of that message it has not handled yet
    \* the outside world
    settled,      \* history: settled[m]: records whose handler returned nil or an AppError
    faults, early

queueVars  == <<q, receipt>>
workVars   == <<batch, cur, todo>>
vars == <<queueVars, pc, cancelled, stop, workVars, settled, faults, early>>

Stages == {"new", "loop", "receive", "idle", "backoff", "batch", "handle", "delete", "done", "down"}

Indexes == UNION {DOMAIN Body[m] : m \in Msgs}

\* The messages a poller works on belong to its batch, and it is on a message exactly in the stages
\* of processMessage.
TypeOK ==
    /\ q \in [Msgs -> {"visible", "hidden", "deleted"}]
    /\ receipt \in [Msgs -> Pollers \union {None}]
    /\ pc \in [Pollers -> Stages]
    /\ cancelled \in [Pollers -> BOOLEAN]
    /\ stop \in [Pollers -> {"no", "waiting", "returned"}]
    /\ batch \in [Pollers -> SUBSET Msgs]
    /\ cur \in [Pollers -> Msgs \union {None}]
    /\ todo \in [Pollers -> SUBSET Indexes]
    /\ settled \in [Msgs -> SUBSET Indexes]
    /\ faults \in 0..MaxFaults
    /\ early \in 0..MaxEarly
    /\ \A p \in Pollers :
          /\ batch[p] # {} <=> pc[p] \in {"batch", "handle", "delete"}
          /\ pc[p] \in {"handle", "delete"} <=> cur[p] # None
          /\ cur[p] # None => cur[p] \in batch[p]

Init ==
    /\ q = [m \in Msgs |-> "visible"]
    /\ receipt = [m \in Msgs |-> None]
    /\ pc = [p \in Pollers |-> "new"]
    /\ cancelled = [p \in Pollers |-> FALSE]
    /\ stop = [p \in Pollers |-> "no"]
    /\ batch = [p \in Pollers |-> {}]
    /\ cur = [p \in Pollers |-> None]
    /\ todo = [p \in Pollers |-> {}]
    /\ settled = [m \in Msgs |-> {}]
    /\ faults = 0
    /\ early = 0

Fault == faults < MaxFaults /\ faults' = faults + 1

Goto(p, stage) == pc' = [pc EXCEPT ![p] = stage]

-----------------------------------------------------------------------------
(* parseS3Records.                                                         *)

\* Records with an empty key are skipped.
Events(m) == {i \in DOMAIN Body[m] : Body[m][i] = "good"}

\* One key that does not decode, or no record left, fails the whole message.
Parses(m) ==
    /\ m \notin Garbage
    /\ \A i \in DOMAIN Body[m] : Body[m][i] # "bad"
    /\ Events(m) # {}

-----------------------------------------------------------------------------
(* The queue.                                                              *)

\* Nobody holds m's latest receipt any more, and its visibility timeout passes.
Expire(m) ==
    /\ q[m] = "hidden"
    /\ receipt[m] = None
    /\ q' = [q EXCEPT ![m] = "visible"]
    /\ UNCHANGED <<receipt, pc, cancelled, stop, workVars, settled, faults, early>>

\* The visibility timeout passes while a poller still works on the batch with m.
ExpireEarly(m) ==
    /\ q[m] = "hidden"
    /\ receipt[m] # None
    /\ early < MaxEarly
    /\ early' = early + 1
    /\ q' = [q EXCEPT ![m] = "visible"]
    /\ receipt' = [receipt EXCEPT ![m] = None]
    /\ UNCHANGED <<pc, cancelled, stop, workVars, settled, faults>>

-----------------------------------------------------------------------------
(* Start and Stop.                                                         *)

Start(p) ==
    /\ pc[p] = "new" /\ stop[p] = "no"
    /\ Goto(p, "loop")
    /\ UNCHANGED <<queueVars, cancelled, stop, workVars, settled, faults, early>>

\* Stop cancels the context; without a Start there is nothing to wait for.
Stop(p) ==
    /\ pc[p] # "down" /\ stop[p] = "no"
    /\ cancelled' = [cancelled EXCEPT ![p] = pc[p] # "new"]
    /\ stop' = [stop EXCEPT ![p] = IF pc[p] = "new" THEN "returned" ELSE "waiting"]
    /\ Fault
    /\ UNCHANGED <<queueVars, pc, workVars, settled, early>>

\* done is closed: the goroutine has returned.
StopDone(p) ==
    /\ stop[p] = "waiting" /\ pc[p] = "done"
    /\ stop' = [stop EXCEPT ![p] = "returned"]
    /\ UNCHANGED <<queueVars, pc, cancelled, workVars, settled, faults, early>>

\* The context of Stop ends first; the goroutine keeps running.
StopTimesOut(p) ==
    /\ stop[p] = "waiting" /\ pc[p] # "done"
    /\ stop' = [stop EXCEPT ![p] = "returned"]
    /\ UNCHANGED <<queueVars, pc, cancelled, workVars, settled, faults, early>>

\* The process ends: what the poller held is lost, the queue is not told.
Die(p) ==
    /\ Goto(p, "down")
    /\ batch' = [batch EXCEPT ![p] = {}]
    /\ cur' = [cur EXCEPT ![p] = None]
    /\ todo' = [todo EXCEPT ![p] = {}]
    /\ receipt' = [m \in Msgs |-> IF receipt[m] = p THEN None ELSE receipt[m]]
    /\ UNCHANGED <<q, cancelled, stop, settled, early>>

Exit(p) == pc[p] # "down" /\ stop[p] = "returned" /\ Die(p) /\ UNCHANGED faults

Crash(p) == pc[p] # "down" /\ Die(p) /\ Fault

\* A new process takes the replica's place.
NewPoller(p) ==
    /\ pc[p] = "down"
    /\ Goto(p, "new")
    /\ cancelled' = [cancelled EXCEPT ![p] = FALSE]
    /\ stop' = [stop EXCEPT ![p] = "no"]
    /\ UNCHANGED <<queueVars, workVars, settled, faults, early>>

-----------------------------------------------------------------------------
(* run and processBatch.                                                   *)

LoopIgnoresCancel(p) ==
    /\ pc[p] = "loop"
    /\ Goto(p, "receive")
    /\ UNCHANGED <<queueVars, cancelled, stop, workVars, settled, faults, early>>

\* The head of run's loop.
Loop(p) ==
    /\ pc[p] = "loop"
    /\ Goto(p, IF cancelled[p] THEN "done" ELSE "receive")
    /\ UNCHANGED <<queueVars, cancelled, stop, workVars, settled, faults, early>>

\* The context may be cancelled while the call is under way, and the answer still arrive.
Receive(p, S) ==
    /\ pc[p] = "receive"
    /\ S # {} /\ Cardinality(S) <= MaxMessages
    /\ \A m \in S : q[m] = "visible"
    /\ q' = [m \in Msgs |-> IF m \in S THEN "hidden" ELSE q[m]]
    /\ receipt' = [m \in Msgs |-> IF m \in S THEN p ELSE receipt[m]]
    /\ batch' = [batch EXCEPT ![p] = S]
    /\ Goto(p, "batch")
    /\ UNCHANGED <<cancelled, stop, cur, todo, settled, faults, early>>

\* A poll may come back empty although messages are visible.
ReceiveEmpty(p) ==
    /\ pc[p] = "receive"
    /\ Goto(p, "idle")
    /\ UNCHANGED <<queueVars, cancelled, stop, workVars, settled, faults, early>>

\* The answer is lost: the queue may have hidden messages for it.
ReceiveFails(p, S) ==
    /\ pc[p] = "receive"
    /\ Cardinality(S) <= MaxMessages
    /\ \A m \in S : q[m] = "visible"
    /\ q' = [m \in Msgs |-> IF m \in S THEN "hidden" ELSE q[m]]
    /\ Goto(p, "backoff")
    /\ \/ cancelled[p] /\ UNCHANGED faults
       \/ Fault
    /\ UNCHANGED <<receipt, cancelled, stop, workVars, settled, early>>

\* The end of idleBackoff, or of the context: both lead to the head of the loop.
IdleBackoff(p) ==
    /\ pc[p] = "idle"
    /\ Goto(p, "loop")
    /\ UNCHANGED <<queueVars, cancelled, stop, workVars, settled, faults, early>>

\* failureBackoff: the select may take either branch when both are ready.
FailureBackoff(p) ==
    /\ pc[p] = "backoff"
    /\ \/ Goto(p, "loop")
       \/ cancelled[p] /\ Goto(p, "done")
    /\ UNCHANGED <<queueVars, cancelled, stop, workVars, settled, faults, early>>

-----------------------------------------------------------------------------
(* processMessage.                                                         *)

\* The poller is done with its message, deleted or not, and goes on to the next of the batch.
NextMessage(p) ==
    /\ batch' = [batch EXCEPT ![p] = @ \ {cur[p]}]
    /\ cur' = [cur EXCEPT ![p] = None]
    /\ todo' = [todo EXCEPT ![p] = {}]
    /\ Goto(p, IF batch[p] = {cur[p]} THEN "loop" ELSE "batch")

\* m is left to its visibility timeout.
LetGo(p) == receipt' = [receipt EXCEPT ![cur[p]] = IF @ = p THEN None ELSE @]

ParseErrorSkips(p, m) ==
    /\ pc[p] = "batch" /\ m \in batch[p]
    /\ IF Parses(m)
       THEN /\ cur' = [cur EXCEPT ![p] = m]
            /\ todo' = [todo EXCEPT ![p] = Events(m)]
            /\ Goto(p, "handle")
            /\ UNCHANGED <<batch, receipt>>
       ELSE /\ batch' = [batch EXCEPT ![p] = @ \ {m}]
            /\ receipt' = [receipt EXCEPT ![m] = IF @ = p THEN None ELSE @]
            /\ Goto(p, IF batch[p] = {m} THEN "loop" ELSE "batch")
            /\ UNCHANGED <<cur, todo>>
    /\ UNCHANGED <<q, cancelled, stop, settled, faults, early>>

\* The next message of the batch: an unparseable one is deleted unhandled.
ParseRecords(p, m) ==
    /\ pc[p] = "batch" /\ m \in batch[p]
    /\ cur' = [cur EXCEPT ![p] = m]
    /\ todo' = [todo EXCEPT ![p] = IF Parses(m) THEN Events(m) ELSE {}]
    /\ Goto(p, IF Parses(m) THEN "handle" ELSE "delete")
    /\ UNCHANGED <<queueVars, cancelled, stop, batch, settled, faults, early>>

\* The records are handled in the order of the message.
First(p, i) == i \in todo[p] /\ \A j \in todo[p] : i <= j

HandleAnyOrder(p, i) ==
    /\ pc[p] = "handle" /\ i \in todo[p]
    /\ settled' = [settled EXCEPT ![cur[p]] = @ \union {i}]
    /\ todo' = [todo EXCEPT ![p] = @ \ {i}]
    /\ Goto(p, IF todo[p] = {i} THEN "delete" ELSE "handle")
    /\ UNCHANGED <<queueVars, cancelled, stop, batch, cur, faults, early>>

\* The router has no handler, or the handler returns nil or an AppError: on to the next record.
Handle(p, i) ==
    /\ pc[p] = "handle" /\ First(p, i)
    /\ settled' = [settled EXCEPT ![cur[p]] = @ \union {i}]
    /\ todo' = [todo EXCEPT ![p] = @ \ {i}]
    /\ Goto(p, IF todo[p] = {i} THEN "delete" ELSE "handle")
    /\ UNCHANGED <<queueVars, cancelled, stop, batch, cur, faults, early>>

HandleErrorIgnored(p) ==
    /\ pc[p] = "handle"
    /\ Fault
    /\ todo' = [todo EXCEPT ![p] = {}]
    /\ Goto(p, "delete")
    /\ UNCHANGED <<queueVars, cancelled, stop, batch, cur, settled, early>>

HandleErrorKeepsRecords(p) ==
    /\ pc[p] = "handle"
    /\ Fault
    /\ Goto(p, "batch")
    /\ UNCHANGED <<queueVars, cancelled, stop, workVars, settled, early>>

\* Any other error ends the message without a delete.
HandleFails(p) ==
    /\ pc[p] = "handle"
    /\ Fault
    /\ LetGo(p)
    /\ NextMessage(p)
    /\ UNCHANGED <<q, cancelled, stop, settled, early>>

\* deleteMessage: with an old receipt handle the call succeeds but may leave the message in place.
Delete(p) ==
    /\ pc[p] = "delete" /\ ~cancelled[p]
    /\ \/ q' = [q EXCEPT ![cur[p]] = "deleted"]
       \/ receipt[cur[p]] # p /\ UNCHANGED q
    /\ LetGo(p)
    /\ NextMessage(p)
    /\ UNCHANGED <<cancelled, stop, settled, faults, early>>

\* The call fails, with a cancelled context always; it may have reached the queue all the same.
DeleteFails(p) ==
    /\ pc[p] = "delete"
    /\ \/ q' = [q EXCEPT ![cur[p]] = "deleted"]
       \/ UNCHANGED q
    /\ \/ cancelled[p] /\ UNCHANGED faults
       \/ Fault
    /\ LetGo(p)
    /\ NextMessage(p)
    /\ UNCHANGED <<cancelled, stop, settled, early>>

-----------------------------------------------------------------------------
Queue(m) == Expire(m) \/ ExpireEarly(m)

\* A step of poller p's goroutine that the environment cannot withhold for ever.
run(p) ==
    \/ Loop(p)
    \/ ReceiveEmpty(p)
    \/ \E S \in SUBSET Msgs : Receive(p, S) \/ ReceiveFails(p, S)
    \/ IdleBackoff(p)
    \/ FailureBackoff(p)
    \/ \E m \in Msgs : ParseRecords(p, m)
    \/ \E i \in Indexes : Handle(p, i)
    \/ HandleFails(p)
    \/ Delete(p)
    \/ DeleteFails(p)

Lifecycle(p) == Start(p) \/ StopDone(p) \/ Exit(p) \/ NewPoller(p)

Failure(p) == Stop(p) \/ StopTimesOut(p) \/ Crash(p)

Next ==
    \/ \E m \in Msgs : Queue(m)
    \/ \E p \in Pollers : run(p) \/ Lifecycle(p) \/ Failure(p)

Spec == Init /\ [][Next]_vars

\* Handlers and SQS calls return, visibility timeouts pass, a stopped or crashed replica is started
\* again, and a poller that keeps polling is given a message that keeps being visible.
Fairness ==
    /\ \A m \in Msgs :
          /\ WF_vars(Expire(m))
          /\ SF_vars(\E p \in Pollers, S \in SUBSET Msgs : m \in S /\ Receive(p, S))
    /\ \A p \in Pollers : WF_vars(run(p)) /\ WF_vars(Lifecycle(p))

FairSpec == Spec /\ Fairness

-----------------------------------------------------------------------------
(* Properties.                                                             *)

\* A parseable message leaves the queue only after every record of it was handled or rejected, though
\* replicas may hold it at the same time, each with a different part of it done.
NoRecordLost == \A m \in Msgs : q[m] = "deleted" /\ Parses(m) => settled[m] = Events(m)

\* The records of a message take effect in its order: over all redeliveries and replicas, no record
\* is settled before the records in front of it.
RecordsInOrder ==
    \A m \in Msgs : \A i \in settled[m] : \A j \in Events(m) : j < i => j \in settled[m]

\* Every message eventually leaves the queue, an unparseable one too: none is retried for ever.
EventuallyDeleted == \A m \in Msgs : <>(q[m] = "deleted")

\* Stop returns after the goroutine has finished its batch, without its own deadline.
StopTerminates == \A p \in Pollers : stop[p] = "waiting" ~> stop[p] # "waiting"

-----------------------------------------------------------------------------
(* The contract.                                                           *)

\* The records of m that reach the router.
Routed(m) == IF Parses(m) THEN Events(m) ELSE {}

\* The replicas and the queue implement the contract of the object-event worker.
Contract == INSTANCE ObjectEventContract WITH
    Messages <- Msgs,
    Records <- [m \in Msgs |-> Routed(m)],
    done <- settled,
    removed <- {m \in Msgs : q[m] = "deleted"}

\* Every step of every replica is one the contract allows: the records of a message settle in its
\* order over all redeliveries, none before those in front of it, the message is removed only when
\* none is left, and nothing of it happens after that (processMessage, deleteMessage).
ImplementsContract == Contract!Spec

-----------------------------------------------------------------------------
(* The inductive invariant behind the safety properties.                   *)

\* What a poller has behind it in its message is settled, and it deletes only what it has finished.
ProgressInv ==
    \A p \in Pollers : cur[p] # None =>
        /\ todo[p] \subseteq Events(cur[p])
        /\ Parses(cur[p]) => Events(cur[p]) \ todo[p] \subseteq settled[cur[p]]
        /\ \A i \in todo[p], j \in Events(cur[p]) \ todo[p] : j < i
        /\ pc[p] = "delete" => todo[p] = {}
        /\ pc[p] = "handle" => Parses(cur[p])

\* Only records of the message are ever settled, and none of one that does not parse.
SettledInv == \A m \in Msgs : settled[m] \subseteq Routed(m)

\* Holds initially, is preserved by every step, and implies the safety properties.
IInv == TypeOK /\ ProgressInv /\ SettledInv /\ NoRecordLost /\ RecordsInOrder
=============================================================================
