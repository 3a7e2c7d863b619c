---------------------------- MODULE MCAppProcess ----------------------------
(* Use case a raises e1 and e2, use case b raises e2.  Subscriber h1 joins the *)
(* transaction, h2 calls use case b, and h3 joins on e2.                       *)
EXTENDS AppProcess, TLC

CONSTANTS a, b, e1, e2, h1, h2, h3, k1, k2, old, new, j1, j2

MCEmits == (a :> <<e1, e2>>) @@ (b :> <<e2>>)
MCCalls == (h1 :> None) @@ (h2 :> b) @@ (h3 :> None)
MCWired == (e1 :> <<h2>>) @@ (e2 :> <<h3>>)
MCLate == {<<e1, h1>>}
MCStored == (k1 :> old) @@ (k2 :> NoObject)
Process(knd, n, p1, p2, late, ups, sigs) ==
    [kind |-> knd, hosts |-> n, programs |-> (j1 :> p1) @@ (j2 :> p2),
     late |-> late, uploads |-> ups, signals |-> sigs]

\* Two requests that run use cases while a subscriber registers, or while the
\* process is stopped; a use case beside a migration; two moves while a client
\* uploads; one command.
MCServices == {
    Process("server", 1, {a}, {a}, MCLate, {}, 0),
    Process("server", 2, {a}, {b, "write"}, {}, {}, 1),
    Process("server", 1, {a}, {"migrator"}, {}, {}, 1),
    Process("server", 1, {"storage"}, {"storage"}, {}, {new}, 0),
    Process("console", 0, {}, {a, "write", "migrator", "storage"}, {}, {}, 2)}
=============================================================================
