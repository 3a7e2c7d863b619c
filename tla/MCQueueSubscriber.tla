-------------------------- MODULE MCQueueSubscriber --------------------------
(* Instances of QueueSubscriber for TLC: two subjects, one of them with two tasks. *)
EXTENDS QueueSubscriber

CONSTANTS m1, m2, m3, s1, s2

MCSubOf == [m \in Msgs |-> IF m = m3 THEN s2 ELSE s1]
=============================================================================
