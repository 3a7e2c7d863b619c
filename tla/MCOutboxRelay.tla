--------------------------- MODULE MCOutboxRelay ---------------------------
(* Instances of OutboxRelay for TLC. *)
EXTENDS OutboxRelay, TLC

\* Replicas and sessions are interchangeable.
Perms == Permutations(Relays) \union Permutations(Sessions)
=============================================================================
