------------------------ MODULE ObjectEventContract ------------------------
(***************************************************************************)
(* What the object-storage event worker promises of every message of its   *)
(* queue, however many replicas hold it at once: its records settle one by *)
(* one in the order of the message, and it is removed, once, when none is  *)
(* left.  A message that cannot be read has no records.                    *)
(***************************************************************************)
EXTENDS Integers

CONSTANTS
    Messages,
    Records    \* Records[m]: the numbers of the records of m

VARIABLES
    done,      \* done[m]: the records of m that have been settled
    removed    \* messages that were taken off the queue

vars == <<done, removed>>

Init ==
    /\ done = [m \in Messages |-> {}]
    /\ removed = {}

\* The first record of m that is left is settled.
Settle(m, i) ==
    /\ m \notin removed
    /\ i \in Records[m] \ done[m]
    /\ \A j \in Records[m] : j < i => j \in done[m]
    /\ done' = [done EXCEPT ![m] = @ \union {i}]
    /\ UNCHANGED removed

Remove(m) ==
    /\ m \notin removed
    /\ done[m] = Records[m]
    /\ removed' = removed \union {m}
    /\ UNCHANGED done

Next == \E m \in Messages : Remove(m) \/ \E i \in Records[m] : Settle(m, i)

Spec == Init /\ [][Next]_vars
=============================================================================
