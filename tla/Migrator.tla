------------------------------ MODULE Migrator ------------------------------
(***************************************************************************)
(* The migration commands (concrete/persistence/migrator/postgres).  Each  *)
(* works on a migrate instance with a connection of its own, taken from    *)
(* the pool that the units of work use.  golang-migrate is modelled by     *)
(* what it does with that connection: a driver or an instance that cannot  *)
(* be built leaves it open, and Close gives it back.  The schema is left   *)
(* out: a statement succeeds or fails.                                     *)
(***************************************************************************)
EXTENDS ConnPool

Ops == {"status", "migrate", "rollback", "fresh"}

VARIABLES
    mig,                  \* mig[j]: the command j runs, where it is, and whether it failed
    leaked                \* history: connections that nobody will give back

migVars == <<mig, leaked>>

MigStates == [op: Ops \union {"none"}, err: BOOLEAN,
              pc: {"idle", "conn", "driver", "source", "op", "close", "done"}]

\* Stages in which the command has a connection.
Holding == {"driver", "source", "op", "close"}

\* The types of the state.
MigTypeOK ==
    /\ mig \in [Jobs -> MigStates]
    /\ leaked \in Nat

MigInit ==
    /\ mig = [j \in Jobs |-> [op |-> "none", err |-> FALSE, pc |-> "idle"]]
    /\ leaked = 0

MigTo(j, pc) == mig' = [mig EXCEPT ![j].pc = pc]
MigFail(j, pc) == mig' = [mig EXCEPT ![j].pc = pc, ![j].err = TRUE]

\* Status, Migrate, Rollback or Fresh is called.
CallMigrator(j, op) ==
    /\ mig[j].pc = "idle"
    /\ mig' = [mig EXCEPT ![j].pc = "conn", ![j].op = op]
    /\ UNCHANGED <<poolVars, leaked>>

\* instance: db.Conn waits for a connection.
Conn(j) ==
    /\ mig[j].pc = "conn"
    /\ Acquire
    /\ MigTo(j, "driver")
    /\ UNCHANGED leaked

\* The pool is closed, or the context ends first.
ConnFails(j) ==
    /\ mig[j].pc = "conn"
    /\ MigFail(j, "done")
    /\ UNCHANGED <<poolVars, leaked>>

WithConnection(j) ==
    /\ mig[j].pc = "driver"
    /\ MigTo(j, "source")
    /\ UNCHANGED <<poolVars, leaked>>

\* Variant: the connection is closed, and closed again by the caller.
ClosedTwice(j) ==
    /\ mig[j].pc = "driver"
    /\ Release
    /\ MigFail(j, "close")
    /\ UNCHANGED leaked

\* The driver cannot be built: instance closes the connection.
WithConnectionFails(j) ==
    /\ mig[j].pc = "driver"
    /\ Release
    /\ MigFail(j, "done")
    /\ UNCHANGED leaked

NewWithDatabaseInstance(j) ==
    /\ mig[j].pc = "source"
    /\ MigTo(j, "op")
    /\ UNCHANGED <<poolVars, leaked>>

\* The migration files cannot be read: instance returns and leaves the driver open.
NewWithDatabaseInstanceFails(j) ==
    /\ mig[j].pc = "source"
    /\ leaked' = leaked + 1
    /\ MigFail(j, "done")
    /\ UNCHANGED poolVars

\* Version, Up, Steps(-1) or Drop returns, with ErrNilVersion and ErrNoChange counted as success.
RunOp(j) ==
    /\ mig[j].pc = "op"
    /\ MigTo(j, "close")
    /\ UNCHANGED <<poolVars, leaked>>

RunOpFails(j) ==
    /\ mig[j].pc = "op"
    /\ MigFail(j, "close")
    /\ UNCHANGED <<poolVars, leaked>>

\* close, deferred by the first three; Fresh calls it in front of Migrate,
\* which builds an instance of its own.
Close(j) ==
    /\ mig[j].pc = "close"
    /\ Release
    /\ mig' = IF mig[j].op = "fresh" /\ ~mig[j].err
              THEN [mig EXCEPT ![j].op = "migrate", ![j].pc = "conn"]
              ELSE [mig EXCEPT ![j].pc = "done"]
    /\ UNCHANGED leaked

MigProgress(j) ==
    Conn(j) \/ WithConnection(j) \/ NewWithDatabaseInstance(j) \/ RunOp(j) \/ Close(j)

MigFault(j) ==
    ConnFails(j) \/ WithConnectionFails(j) \/ NewWithDatabaseInstanceFails(j) \/ RunOpFails(j)

MigStep(j) == MigProgress(j) \/ MigFault(j)

\* The commands that have a connection.
Migrating == {j \in Jobs : mig[j].pc \in Holding}
=============================================================================
