----------------------------- MODULE MCJwksCache -----------------------------
(* Instances of JwksCache for TLC: a rotation that adds b, then drops a. *)
EXTENDS JwksCache

CONSTANTS a, b

MCKeySet == [v \in Versions |-> CASE v = 0 -> {} [] v = 1 -> {a} [] v = 2 -> {a, b} [] OTHER -> {b}]
=============================================================================
