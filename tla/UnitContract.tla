---------------------------- MODULE UnitContract ----------------------------
(***************************************************************************)
(* What unitOfWork.Do promises of every unit of work, whoever calls it and *)
(* however units are nested: a unit is decided in one step.  Either all    *)
(* its writes become visible together, with those it has promised when it  *)
(* began, and its caller may or may not be told, or it is undone and none  *)
(* of them ever is.                                                        *)
(***************************************************************************)
CONSTANTS
    Units,
    Writers        \* a write is made in a unit by one of these

VARIABLES
    owed,          \* writes that belong to a unit: it ends with all of them or with none
    db,            \* visible writes
    succeeded,     \* units whose caller was told that they are committed
    rolledback     \* units that ended without a commit

vars == <<owed, db, succeeded, rolledback>>

Of(S, u) == {w \in S : w[1] = u}

Init ==
    /\ owed = {}
    /\ db = {}
    /\ succeeded = {}
    /\ rolledback = {}

\* Nothing of u is visible and nobody was told how it ended.
Undecided(u) == u \notin succeeded \union rolledback /\ Of(db, u) = {}

Begin(u) ==
    /\ Undecided(u)
    /\ Of(owed, u) = {}
    /\ \E W \in SUBSET ({u} \X Writers) : owed' = owed \union W
    /\ UNCHANGED <<db, succeeded, rolledback>>

\* When the answer to COMMIT is lost, succeeded does not grow.
Commit(u) ==
    /\ Undecided(u)
    /\ \E W \in SUBSET ({u} \X Writers) : Of(owed, u) \subseteq W /\ db' = db \union W
    /\ succeeded' \in {succeeded, succeeded \union {u}}
    /\ UNCHANGED <<owed, rolledback>>

Rollback(u) ==
    /\ Undecided(u)
    /\ rolledback' = rolledback \union {u}
    /\ UNCHANGED <<owed, db, succeeded>>

Next == \E u \in Units : Begin(u) \/ Commit(u) \/ Rollback(u)

Spec == Init /\ [][Next]_vars
=============================================================================
