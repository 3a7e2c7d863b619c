---------------------------- MODULE TaskContract ----------------------------
(***************************************************************************)
(* What the task queue promises of every task, whatever crashes, restarts  *)
(* and lost replies happen.  A task is open until it is settled:           *)
(* acknowledged when its handler has succeeded, terminated when its dead   *)
(* letter was written (or the attempt to write it is known to have         *)
(* failed), or given up by the broker when all its attempts are used up    *)
(* and one of them was never answered.  A settled task is not attempted    *)
(* again, but an attempt under way may still end.  It is opened again, with*)
(* its count of attempts at zero, only with all tasks of its subject, when *)
(* a Stop takes the consumer of the subject with it: at most once for each *)
(* failure.                                                                *)
(***************************************************************************)
EXTENDS Integers

CONSTANTS
    Tasks,
    Subjects,
    SubjectOf,    \* SubjectOf[t]: the subject of t
    MaxAttempts,
    Readable,     \* tasks that a handler can be called for
    Recordable    \* tasks that a dead letter can be written for

VARIABLES
    status,       \* status[t]: open, or how t was settled
    attempts,     \* attempts[t]: times t was given to a worker, by the present consumer
    begun,        \* begun[t]: times a worker began with t
    handled,      \* tasks whose handler has succeeded
    recorded,     \* tasks with a dead letter
    unrecorded,   \* tasks for which writing one failed
    unanswered,   \* tasks one of whose attempts was not answered in time
    forgotten,    \* forgotten[s]: times the consumer of s was deleted
    failures      \* crashes, Stops, failed Starts, lost replies and failed writes so far

vars == <<status, attempts, begun, handled, recorded, unrecorded, unanswered, forgotten, failures>>

Init ==
    /\ status = [t \in Tasks |-> "open"]
    /\ attempts = [t \in Tasks |-> 0]
    /\ begun = [t \in Tasks |-> 0]
    /\ handled = {}
    /\ recorded = {}
    /\ unrecorded = {}
    /\ unanswered = {}
    /\ forgotten = [s \in Subjects |-> 0]
    /\ failures = 0

Open(t) == status[t] = "open"
SettleAs(t, how) == Open(t) /\ status' = [status EXCEPT ![t] = how]

Attempt(t) ==
    /\ Open(t)
    /\ attempts[t] < MaxAttempts
    /\ attempts' = [attempts EXCEPT ![t] = @ + 1]
    /\ UNCHANGED <<status, begun, handled, recorded, unrecorded, unanswered, forgotten, failures>>

\* A worker begins with what it was given.
Begin(t) ==
    /\ attempts[t] > 0
    /\ begun' = [begun EXCEPT ![t] = @ + 1]
    /\ UNCHANGED <<status, attempts, handled, recorded, unrecorded, unanswered, forgotten, failures>>

Handle(t) ==
    /\ begun[t] > 0
    /\ t \in Readable
    /\ handled' = handled \union {t}
    /\ UNCHANGED <<status, attempts, begun, recorded, unrecorded, unanswered, forgotten, failures>>

Record(t) ==
    /\ begun[t] > 0
    /\ t \in Recordable
    /\ recorded' = recorded \union {t}
    /\ UNCHANGED <<status, attempts, begun, handled, unrecorded, unanswered, forgotten, failures>>

\* The write fails, and may have been done all the same.
RecordFails(t) ==
    /\ begun[t] > 0
    /\ t \in Recordable
    /\ recorded' \in {recorded, recorded \union {t}}
    /\ unrecorded' = unrecorded \union {t}
    /\ failures' = failures + 1
    /\ UNCHANGED <<status, attempts, begun, handled, unanswered, forgotten>>

\* An attempt is not answered in time; after the last one the task is given up.
Miss(t) ==
    /\ attempts[t] > 0
    /\ unanswered' = unanswered \union {t}
    /\ IF attempts[t] < MaxAttempts
       THEN Open(t) /\ UNCHANGED status
       ELSE SettleAs(t, "exhausted")
    /\ UNCHANGED <<attempts, begun, handled, recorded, unrecorded, forgotten, failures>>

\* A worker asks for another attempt when there is none: one of the others went unanswered.
GiveUp(t) ==
    /\ attempts[t] = MaxAttempts
    /\ t \in unanswered
    /\ SettleAs(t, "exhausted")
    /\ UNCHANGED <<attempts, begun, handled, recorded, unrecorded, unanswered, forgotten, failures>>

Ack(t) ==
    /\ t \in handled
    /\ SettleAs(t, "acked")
    /\ UNCHANGED <<attempts, begun, handled, recorded, unrecorded, unanswered, forgotten, failures>>

Term(t) ==
    /\ t \in recorded \union unrecorded \/ t \notin Recordable
    /\ begun[t] > 0
    /\ SettleAs(t, "termed")
    /\ UNCHANGED <<attempts, begun, handled, recorded, unrecorded, unanswered, forgotten, failures>>

Fail ==
    /\ failures' = failures + 1
    /\ UNCHANGED <<status, attempts, begun, handled, recorded, unrecorded, unanswered, forgotten>>

\* The consumer of s is deleted, and a new one starts from the beginning of the stream.
Forget(s) ==
    /\ forgotten[s] < failures
    /\ forgotten' = [forgotten EXCEPT ![s] = @ + 1]
    /\ status' = [t \in Tasks |-> IF SubjectOf[t] = s THEN "open" ELSE status[t]]
    /\ attempts' = [t \in Tasks |-> IF SubjectOf[t] = s THEN 0 ELSE attempts[t]]
    /\ unanswered' = {t \in unanswered : SubjectOf[t] # s}
    /\ UNCHANGED <<begun, handled, recorded, unrecorded, failures>>

Work(t) ==
    \/ Attempt(t)
    \/ Begin(t)
    \/ Handle(t)
    \/ Record(t)
    \/ RecordFails(t)
    \/ Miss(t)
    \/ GiveUp(t)
    \/ Ack(t)
    \/ Term(t)

Next ==
    \/ \E t \in Tasks : Work(t)
    \/ \E s \in Subjects : Forget(s)
    \/ Fail

Spec == Init /\ [][Next]_vars
=============================================================================
