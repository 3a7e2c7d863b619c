------------------------------ MODULE ConnPool ------------------------------
(***************************************************************************)
(* The connection pool that the units of work and the migrator of one      *)
(* process share (concrete/persistence/connector).  database/sql itself is *)
(* modelled from how the callers use it: a caller waits while MaxOpen      *)
(* connections are in use, Close makes every later request and every       *)
(* waiting one fail, and leaves the connections that are in use alone.     *)
(***************************************************************************)
EXTENDS Naturals

CONSTANTS
    Jobs,                 \* goroutines of the process that use the database
    MaxOpen               \* maxOpenConns, testMaxOpenConns

ASSUME PoolAssumption == MaxOpen \in Nat \ {0}

VARIABLES
    inUse,                \* connections that are not idle
    closed                \* Connector.Stop has closed the pool

poolVars == <<inUse, closed>>

\* A caller is given a connection.
Acquire ==
    /\ ~closed
    /\ inUse < MaxOpen
    /\ inUse' = inUse + 1
    /\ UNCHANGED closed

\* A transaction ends, or Conn.Close: the connection is idle, or is dropped when the pool is closed.
Release ==
    /\ inUse' = inUse - 1
    /\ UNCHANGED closed

\* Connector.Stop: db.Close.
ClosePool ==
    /\ closed' = TRUE
    /\ UNCHANGED inUse
=============================================================================
