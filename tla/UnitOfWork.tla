----------------------------- MODULE UnitOfWork -----------------------------
(***************************************************************************)
(* Use cases that run in a unit of work and publish domain events on the   *)
(* in-process bus (concrete/persistence/uow, concrete/inmem_event,         *)
(* concrete/outbox_queue).                                                 *)
(*                                                                         *)
(* Do opens a transaction on a connection of its own, also when it is      *)
(* called from inside another one; Publish calls the subscribers one after *)
(* the other on the transaction in the context.  A job is a goroutine that *)
(* runs one use case; its calls of Do nest, and frame[j][d] is the d-th.   *)
(* Use cases and subscribers belong to the services: a subscriber either   *)
(* writes through the ambient transaction (a repository, Store, Enqueue) or*)
(* calls a use case, and any of them may return an error or panic.         *)
(***************************************************************************)
EXTENDS ConnPool, Sequences

CONSTANTS
    UseCases,
    Events,               \* names of domain events
    Handlers,             \* subscribers
    None,                 \* no use case
    Emits,                \* Emits[u]: the events u hands to PublishAll
    Calls,                \* Calls[h]: the use case subscriber h calls, or None
    Wired,                \* Wired[e]: subscribers registered before the first use case
    Late,                 \* <<e, h>>: registrations that happen later
    MaxDepth              \* bound: calls of Do inside each other

ASSUME UowAssumption ==
    /\ Emits \in [UseCases -> Seq(Events)]
    /\ None \notin UseCases
    /\ Calls \in [Handlers -> UseCases \union {None}]
    /\ Wired \in [Events -> Seq(Handlers)]
    /\ Late \subseteq Events \X Handlers
    /\ MaxDepth \in Nat \ {0}

VARIABLES
    routes,               \* Bus.routes
    pending,              \* registrations still to come
    depth,                \* depth[j]: calls of Do that j is inside of
    frame,                \* frame[j][d]: state of the d-th
    units,                \* units[j]: calls of Do that j has made
    res,                  \* res[j]: what j's use case returned
    db,                   \* committed writes
    \* history
    owed,                 \* writes that belong to a unit of work
    succeeded,            \* units whose Do returned nil
    rolledback            \* units that ended without a commit

uowVars == <<routes, pending, depth, frame, units, res, db, owed, succeeded, rolledback>>

Own == "own"              \* the use case's own write, as opposed to a subscriber's
Units == Jobs \X Nat
Writes == Units \X (Handlers \union {Own})
Levels == 1..MaxDepth

\* pc: waiting for BEGIN, in fn before its write, in PublishAll, returned an error
Frames == [unit: Units, use: UseCases \union {None}, pc: {"begin", "fn", "publish", "rollback"},
           events: Seq(Events), calls: Seq(Handlers), staged: SUBSET Writes]

\* The types of the state.
UowTypeOK ==
    /\ inUse \in Nat
    /\ closed \in BOOLEAN
    /\ routes \in [Events -> Seq(Handlers)]
    /\ pending \in SUBSET Late
    /\ depth \in [Jobs -> 0..MaxDepth]
    /\ frame \in [Jobs -> [Levels -> Frames]]
    /\ units \in [Jobs -> Nat]
    /\ res \in [Jobs -> {"none", "running", "ok", "error"}]
    /\ db \in SUBSET Writes
    /\ owed \in SUBSET Writes
    /\ succeeded \in SUBSET Units
    /\ rolledback \in SUBSET Units

NewFrame(unit, u) == [unit |-> unit, use |-> u, pc |-> "begin",
                      events |-> <<>>, calls |-> <<>>, staged |-> {}]
NoFrame(j) == NewFrame(<<j, 0>>, None)

UowInit ==
    /\ routes = Wired
    /\ pending \in SUBSET Late
    /\ depth = [j \in Jobs |-> 0]
    /\ frame = [j \in Jobs |-> [d \in Levels |-> NoFrame(j)]]
    /\ units = [j \in Jobs |-> 0]
    /\ res = [j \in Jobs |-> "none"]
    /\ db = {}
    /\ owed = {}
    /\ succeeded = {}
    /\ rolledback = {}

-----------------------------------------------------------------------------
(* The bus *)

Subscribed(e) == {routes[e][i] : i \in DOMAIN routes[e]}

\* What a use case that starts now has to leave behind: its own write and
\* those of the subscribers of its events that join its transaction.
Owed(unit, u) ==
    {<<unit, Own>>} \union
    {<<unit, h>> : h \in {g \in Handlers : /\ Calls[g] = None
                                           /\ \E i \in DOMAIN Emits[u] : g \in Subscribed(Emits[u][i])}}

\* Bus.Subscribe: append the wrapped handler under the lock.
Subscribe(e, h) ==
    /\ <<e, h>> \in pending
    /\ pending' = pending \ {<<e, h>>}
    /\ routes' = [routes EXCEPT ![e] = Append(@, h)]
    /\ UNCHANGED <<poolVars, depth, frame, units, res, db, owed, succeeded, rolledback>>

\* The copy of the handlers that Publish takes under the read lock.
Snapshot(e) == routes[e]

-----------------------------------------------------------------------------
(* Calling and leaving Do *)

Top(j) == frame[j][depth[j]]
SetTop(j, f) == frame' = [frame EXCEPT ![j][depth[j]] = f]
In(j, pc) == depth[j] > 0 /\ Top(j).pc = pc

\* Do is called: a new transaction on u.orm, whatever the context holds.
PushDo(j, u) ==
    /\ depth[j] < MaxDepth
    /\ depth' = [depth EXCEPT ![j] = @ + 1]
    /\ units' = [units EXCEPT ![j] = @ + 1]
    /\ frame' = [frame EXCEPT ![j][depth[j] + 1] = NewFrame(<<j, units[j] + 1>>, u)]

\* fn is on its way out with an error: no further event, no further subscriber.
Abort(f) == [f EXCEPT !.pc = "rollback", !.calls = <<>>, !.events = <<>>]

\* A subscriber whose use case has returned is done or fails: it may add an
\* error of its own, or ignore the one it got.
Resumed(f) == {[f EXCEPT !.calls = Tail(@)], Abort(f)}

\* Do returns r, to the transport handler or to a subscriber.
Return(j, r) ==
    /\ depth' = [depth EXCEPT ![j] = @ - 1]
    /\ \/ /\ depth[j] = 1
          /\ res' = [res EXCEPT ![j] = r]
          /\ frame' = [frame EXCEPT ![j][1] = NoFrame(j)]
       \/ /\ depth[j] > 1
          /\ \E f \in Resumed(frame[j][depth[j] - 1]) :
                 frame' = [frame EXCEPT ![j] = [@ EXCEPT ![depth[j] - 1] = f, ![depth[j]] = NoFrame(j)]]
          /\ UNCHANGED res
    /\ UNCHANGED <<routes, pending, units>>

\* uow.ORM: a write w goes to the transaction in the context, whose call of Do
\* goes on as f, or straight to the database when the context has none.
ORM(j, f, w) ==
    IF depth[j] > 0
    THEN /\ SetTop(j, [f EXCEPT !.staged = @ \union {w}])
         /\ UNCHANGED db
    ELSE /\ db' = db \union {w}
         /\ UNCHANGED frame

-----------------------------------------------------------------------------
(* A job *)

\* A transport handler calls a use case.
CallUseCase(j, u) ==
    /\ res[j] = "none"
    /\ PushDo(j, u)
    /\ res' = [res EXCEPT ![j] = "running"]
    /\ UNCHANGED <<poolVars, routes, pending, db, owed, succeeded, rolledback>>

\* A transport handler writes without a unit of work: the statement commits by itself.
WriteOutside(j) ==
    /\ res[j] = "none"
    /\ ~closed
    /\ inUse < MaxOpen
    /\ units' = [units EXCEPT ![j] = @ + 1]
    /\ ORM(j, NoFrame(j), <<<<j, units[j] + 1>>, Own>>)
    /\ res' = [res EXCEPT ![j] = "ok"]
    /\ UNCHANGED <<poolVars, routes, pending, depth, owed, succeeded, rolledback>>

\* gorm's Transaction gets a connection and sends BEGIN; fn starts.
Begin(j) ==
    /\ In(j, "begin")
    /\ Acquire
    /\ SetTop(j, [Top(j) EXCEPT !.pc = "fn"])
    /\ owed' = owed \union Owed(Top(j).unit, Top(j).use)
    /\ UNCHANGED <<routes, pending, depth, units, res, db, succeeded, rolledback>>

\* No connection, because the pool is closed, the context ends or the
\* database is down: Do returns the error and fn does not run.
BeginFails(j) ==
    /\ In(j, "begin")
    /\ rolledback' = rolledback \union {Top(j).unit}
    /\ Return(j, "error")
    /\ UNCHANGED <<poolVars, db, owed, succeeded>>

\* The use case writes through its repositories and releases the events of its aggregates.
Write(j) ==
    /\ In(j, "fn")
    /\ ORM(j, [Top(j) EXCEPT !.pc = "publish", !.events = Emits[Top(j).use]], <<Top(j).unit, Own>>)
    /\ UNCHANGED <<poolVars, routes, pending, depth, units, res, owed, succeeded, rolledback>>

\* PublishAll takes the next event, Publish the copy of its handlers.
Publish(j) ==
    /\ In(j, "publish")
    /\ Top(j).calls = <<>>
    /\ Top(j).events # <<>>
    /\ SetTop(j, [Top(j) EXCEPT !.events = Tail(@), !.calls = Snapshot(Head(Top(j).events))])
    /\ UNCHANGED <<poolVars, routes, pending, depth, units, res, db, owed, succeeded, rolledback>>

Dispatching(j) == In(j, "publish") /\ Top(j).calls # <<>>

\* A subscriber writes through the ambient transaction and returns nil.
HandlerWrites(j) ==
    /\ Dispatching(j)
    /\ Calls[Head(Top(j).calls)] = None
    /\ ORM(j, [Top(j) EXCEPT !.calls = Tail(@)], <<Top(j).unit, Head(Top(j).calls)>>)
    /\ UNCHANGED <<poolVars, routes, pending, depth, units, res, owed, succeeded, rolledback>>

\* A subscriber calls a use case; it returns when that does.
HandlerNests(j) ==
    /\ Dispatching(j)
    /\ Calls[Head(Top(j).calls)] # None
    /\ PushDo(j, Calls[Head(Top(j).calls)])
    /\ UNCHANGED <<poolVars, routes, pending, res, db, owed, succeeded, rolledback>>

\* Variant: Publish logs the error and calls the next subscriber.
HandlerErrorIgnored(j) ==
    /\ Dispatching(j)
    /\ SetTop(j, [Top(j) EXCEPT !.calls = Tail(@)])
    /\ UNCHANGED <<poolVars, routes, pending, depth, units, res, db, owed, succeeded, rolledback>>

\* A subscriber returns an error, or panics and recoverMiddleware makes it
\* one: Publish and PublishAll return it, and so does fn.
HandlerFails(j) ==
    /\ Dispatching(j)
    /\ SetTop(j, Abort(Top(j)))
    /\ UNCHANGED <<poolVars, routes, pending, depth, units, res, db, owed, succeeded, rolledback>>

\* fn itself fails or panics.
UseCaseFails(j) ==
    /\ In(j, "fn")
    /\ SetTop(j, Abort(Top(j)))
    /\ UNCHANGED <<poolVars, routes, pending, depth, units, res, db, owed, succeeded, rolledback>>

\* Variant: the transaction is committed and its connection kept.
CommitKeepsConnection(j) ==
    /\ In(j, "publish")
    /\ Top(j).calls = <<>>
    /\ Top(j).events = <<>>
    /\ db' = db \union Top(j).staged
    /\ succeeded' = succeeded \union {Top(j).unit}
    /\ Return(j, "ok")
    /\ UNCHANGED <<poolVars, owed, rolledback>>

\* fn returned nil: COMMIT, and Do returns nil.
Commit(j) ==
    /\ In(j, "publish")
    /\ Top(j).calls = <<>>
    /\ Top(j).events = <<>>
    /\ db' = db \union Top(j).staged
    /\ succeeded' = succeeded \union {Top(j).unit}
    /\ Release
    /\ Return(j, "ok")
    /\ UNCHANGED <<owed, rolledback>>

\* COMMIT fails, or only its answer is lost: Do returns an error in both cases.
CommitFails(j) ==
    /\ In(j, "publish")
    /\ Top(j).calls = <<>>
    /\ Top(j).events = <<>>
    /\ \/ /\ rolledback' = rolledback \union {Top(j).unit}
          /\ UNCHANGED db
       \/ /\ db' = db \union Top(j).staged
          /\ UNCHANGED rolledback
    /\ Release
    /\ Return(j, "error")
    /\ UNCHANGED <<owed, succeeded>>

\* Variant: a unit of work that failed keeps its connection.
RollbackKeepsConnection(j) ==
    /\ In(j, "rollback")
    /\ rolledback' = rolledback \union {Top(j).unit}
    /\ Return(j, "error")
    /\ UNCHANGED <<poolVars, db, owed, succeeded>>

\* fn returned an error or panicked: ROLLBACK, and Do returns the error.
Rollback(j) ==
    /\ In(j, "rollback")
    /\ rolledback' = rolledback \union {Top(j).unit}
    /\ Release
    /\ Return(j, "error")
    /\ UNCHANGED <<db, owed, succeeded>>

\* The steps a running job takes without an error of the database.
UowProgress(j) ==
    \/ Begin(j) \/ Write(j) \/ Publish(j) \/ HandlerWrites(j) \/ HandlerNests(j)
    \/ Commit(j) \/ Rollback(j)

UowFault(j) == BeginFails(j) \/ HandlerFails(j) \/ UseCaseFails(j) \/ CommitFails(j)

UowStep(j) == UowProgress(j) \/ UowFault(j)

-----------------------------------------------------------------------------
(* Properties *)

\* The calls of Do that have a connection.
OpenUnits == {x \in Jobs \X Levels : x[2] <= depth[x[1]] /\ frame[x[1]][x[2]].pc # "begin"}

\* A unit of work commits as a whole, reactions included: when Do returned
\* nil its write and those of all subscribers known when it began are in the
\* database, when it was rolled back none is, and even when the answer to
\* COMMIT was lost there is no part of one.  Nothing of a unit that is still
\* open is visible, whatever other units of the same job do
\* (unitOfWork.Do, Bus.Publish, Bus.PublishAll, recoverMiddleware).
UnitAtomic ==
    /\ \A w \in owed : w[1] \in succeeded => w \in db
    /\ \A w \in db, v \in owed : w[1] = v[1] => v \in db
    /\ \A w \in db : w[1] \notin rolledback
    /\ \A j \in Jobs : \A d \in 1..depth[j] : \A w \in db : w[1] # frame[j][d].unit

-----------------------------------------------------------------------------
(* The contract.                                                           *)

\* Calls of Do and the bus implement the contract of the unit of work.
Contract == INSTANCE UnitContract WITH Writers <- Handlers \union {Own}

\* Every step of every job, in nested calls of Do and in the reactions to
\* events, is one the contract allows: a unit is decided once and as a whole,
\* and no step of another unit, outer or inner, adds to it afterwards
\* (unitOfWork.Do, uow.ORM, Bus.Publish).
ImplementsContract == Contract!Spec
=============================================================================
