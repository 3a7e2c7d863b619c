--------------------------- MODULE OutboxContract ---------------------------
(***************************************************************************)
(* What the transactional outbox promises, whatever relays the events and  *)
(* however often it fails.  Events are staged inside a transaction, become *)
(* visible when it commits, and every committed event that can be sent is  *)
(* delivered at least once, after every event that had already been        *)
(* committed when it was staged.  An event is taken off the outbox         *)
(* (retired) only once it was delivered or when it can never be sent.      *)
(***************************************************************************)
EXTENDS Integers

CONSTANTS
    MaxId,      \* events are numbered 1..MaxId
    Malformed   \* events whose envelope cannot be built: never sendable

VARIABLES
    nextId,     \* number of the next event
    staged,     \* events of transactions that are still open
    committed,  \* events of committed transactions
    preds,      \* preds[j]: the events already committed when j was staged
    delivered,  \* events the broker has stored at least once
    retired     \* events taken off the outbox

vars == <<nextId, staged, committed, preds, delivered, retired>>

Ids == 1..MaxId

Init ==
    /\ nextId = 1
    /\ staged = {}
    /\ committed = {}
    /\ preds = [i \in Ids |-> {}]
    /\ delivered = {}
    /\ retired = {}

Stage ==
    /\ nextId <= MaxId
    /\ nextId' = nextId + 1
    /\ staged' = staged \union {nextId}
    /\ preds' = [preds EXCEPT ![nextId] = committed]
    /\ UNCHANGED <<committed, delivered, retired>>

\* A transaction ends: its events become visible together, or vanish together.
End(S) ==
    /\ staged' = staged \ S
    /\ committed' \in {committed, committed \union S}
    /\ UNCHANGED <<nextId, preds, delivered, retired>>

Deliver(i) ==
    /\ i \in committed \ (delivered \union Malformed)
    /\ preds[i] \subseteq delivered \union Malformed
    /\ delivered' = delivered \union {i}
    /\ UNCHANGED <<nextId, staged, committed, preds, retired>>

Retire(i) ==
    /\ i \in committed \intersect (delivered \union Malformed)
    /\ retired' = retired \union {i}
    /\ UNCHANGED <<nextId, staged, committed, preds, delivered>>

Next ==
    \/ Stage
    \/ \E S \in SUBSET staged : End(S)
    \/ \E i \in Ids : Deliver(i) \/ Retire(i)

Spec == Init /\ [][Next]_vars

\* The promise itself: a committed event is eventually delivered, or retired as unsendable, and
\* leaves the outbox.
Settled == \A i \in Ids : i \in committed ~> i \in retired /\ (i \in delivered \/ i \in Malformed)
=============================================================================
