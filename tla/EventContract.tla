---------------------------- MODULE EventContract ----------------------------
(***************************************************************************)
(* What the subscription to integration events promises of every event.    *)
(* An event is open until it is acknowledged, after a success of its       *)
(* handler, or terminated, because it cannot be read or its handler        *)
(* rejected it.  It is opened again only with all events of its subject,   *)
(* when a Stop takes the consumer of the subject with it.  Beyond the      *)
(* first, a success of its handler takes a failure before it.              *)
(***************************************************************************)
EXTENDS Integers

CONSTANTS
    Events,
    Subjects,
    SubjectOf,    \* SubjectOf[e]: the subject of e
    Unreadable    \* events whose envelope cannot be read

VARIABLES
    status,       \* status[e]: open, acked or termed
    successes,    \* successes[e]: times the handler of e succeeded
    rejected,     \* events that their handler rejected
    failures      \* crashes, Stops, failed Starts, lost replies and late replies so far

vars == <<status, successes, rejected, failures>>

Init ==
    /\ status = [e \in Events |-> "open"]
    /\ successes = [e \in Events |-> 0]
    /\ rejected = {}
    /\ failures = 0

Succeed(e) ==
    /\ e \notin Unreadable
    /\ successes[e] <= failures
    /\ successes' = [successes EXCEPT ![e] = @ + 1]
    /\ UNCHANGED <<status, rejected, failures>>

Reject(e) ==
    /\ e \notin Unreadable
    /\ rejected' = rejected \union {e}
    /\ UNCHANGED <<status, successes, failures>>

Settle(e, how) ==
    /\ status[e] = "open"
    /\ how = "acked" => successes[e] > 0
    /\ how = "termed" => e \in Unreadable \union rejected
    /\ status' = [status EXCEPT ![e] = how]
    /\ UNCHANGED <<successes, rejected, failures>>

Fail ==
    /\ failures' = failures + 1
    /\ UNCHANGED <<status, successes, rejected>>

\* The consumer of s is deleted, and a new one starts from the beginning of the stream.
Forget(s) ==
    /\ failures > 0
    /\ status' = [e \in Events |-> IF SubjectOf[e] = s THEN "open" ELSE status[e]]
    /\ UNCHANGED <<successes, rejected, failures>>

Next ==
    \/ \E e \in Events : Succeed(e) \/ Reject(e) \/ Settle(e, "acked") \/ Settle(e, "termed")
    \/ \E s \in Subjects : Forget(s)
    \/ Fail

Spec == Init /\ [][Next]_vars
=============================================================================
