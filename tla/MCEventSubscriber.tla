-------------------------- MODULE MCEventSubscriber --------------------------
(* Instances of EventSubscriber for TLC: two subjects, one with two events. *)
EXTENDS EventSubscriber

CONSTANTS m1, m2, m3, s1, s2

MCSubOf == [m \in Msgs |-> IF m = m3 THEN s2 ELSE s1]
=============================================================================
