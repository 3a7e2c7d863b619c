-------------------------- MODULE AppProcessProofs --------------------------
(***************************************************************************)
(* The invariants of a process hold for every pool, every set of jobs, use *)
(* cases, subscribers, listeners and objects, and every number of signals. *)
(***************************************************************************)
EXTENDS AppProcess, AppWorkProofs, FiniteSetTheorems

-----------------------------------------------------------------------------
(* The inductive invariant *)

\* The types of what AppProcess adds to its components.
AppTypes ==
    /\ service \in Services
    /\ phase \in Phases
    /\ signals \in Nat
    /\ reset \in BOOLEAN
    /\ srv \in [Listeners -> {"new", "starting", "listening", "failed", "shut"}]
    /\ next \in Nat
    /\ at \in [Jobs -> Nat]
    /\ failed \in Failures \union {"none", "cancelled"}
    /\ stopErr \in BOOLEAN
    /\ captured \in [Failures -> Nat]
    /\ buffered \in SUBSET Failures
    /\ failures \in SUBSET Failures

\* A job does one thing only.
OneTask(j) ==
    /\ res[j] # "none" => mig[j].pc = "idle" /\ mv[j].pc = "idle"
    /\ mig[j].pc # "idle" => mv[j].pc = "idle"

\* Nothing is served and nothing runs.
Quiet ==
    /\ \A s \in Listeners : srv[s] \in {"new", "shut"}
    /\ \A j \in Jobs : at[j] = 0 /\ ~Running(j)

\* How the phase of the process bounds what the listeners and the jobs do.
LifeInv ==
    /\ closed => phase \in {"flush", "stopped", "exit", "killed"}
    /\ (closed \/ phase \in {"closepool", "flush", "stopped", "exit"}) /\ ~stopErr => Quiet
    /\ phase \in {"connect", "serve"} => Quiet
    /\ phase \in {"connect", "serve", "run"} => next = 1
    /\ phase = "shutdown" => \A s \in Listeners : s < next => srv[s] = "shut" /\ InFlight(s) = {}
    /\ kind = "server" => \A j \in Jobs : /\ at[j] # 0 => at[j] \in Listeners
                                          /\ at[j] = 0 => ~Running(j)
    /\ kind = "console" => /\ phase \notin {"serve", "shutdown"}
                           /\ \A s \in Listeners : srv[s] = "new"
                           /\ \A j \in Jobs \ {Main} : at[j] = 0 /\ ~Running(j)

\* What has been noted, reported and kept for Run's result before it returns.
ReportInv ==
    kind = "console" /\ Alive =>
        /\ failures = ({failed} \intersect Failures) \union (IF stopErr THEN {"stop"} ELSE {})
        /\ failed # "stop"
        /\ \A f \in Failures : captured[f] = IF f = failed /\ f # "start" THEN 1 ELSE 0
        /\ failed = "start" => ~stopErr /\ phase \in {"flush", "stopped"}
        /\ phase \in {"connect", "run"} => failed = "none" /\ ~stopErr /\ buffered = {}
        /\ phase = "closepool" => ~stopErr
        /\ phase = "stopped" /\ ~stopErr => buffered = {}

\* The inductive invariant.
Inv ==
    /\ inUse \in Nat /\ UowTypes /\ MigTypeOK /\ MoveTypeOK /\ AppTypes
    /\ UowInv
    /\ MoveInv
    /\ PoolAccounted
    /\ \A j \in Jobs : OneTask(j)
    /\ LifeInv
    /\ ReportInv
    /\ ConsoleReports

-----------------------------------------------------------------------------
(* The components *)

\* What a step of the process is to its components: a step of one of them, or none.
LEMMA WorkParts ==
  ASSUME Inv, Next
  PROVE  /\ \/ UowAction /\ UNCHANGED migVars
            \/ MigAction /\ UNCHANGED uowVars
            \/ UNCHANGED <<inUse, uowVars, migVars>> /\ closed' \in BOOLEAN
         /\ MoveAction \/ UNCHANGED moveVars
  <1> DEFINE P == /\ \/ UowAction /\ UNCHANGED migVars
                     \/ MigAction /\ UNCHANGED uowVars
                     \/ UNCHANGED <<inUse, uowVars, migVars>> /\ closed' \in BOOLEAN
                  /\ MoveAction \/ UNCHANGED moveVars
  <1>1. Movers = Jobs /\ closed \in BOOLEAN
    BY AppAssumption DEF Inv, UowTypes
  <1>2. ASSUME UNCHANGED workVars PROVE P
    BY <1>1, <1>2 DEF workVars, poolVars
  <1>3. ASSUME NEW j \in Jobs, Work(j) PROVE P
    <2>1. CASE UowStep(j) /\ UNCHANGED <<migVars, moveVars>>
      BY <2>1 DEF UowAction
    <2>2. CASE MigStep(j) /\ UNCHANGED <<uowVars, moveVars>>
      BY <2>2 DEF MigAction
    <2>3. CASE MoveStep(j) /\ UNCHANGED <<poolVars, uowVars, migVars>>
      BY <1>1, <2>3 DEF MoveAction, poolVars
    <2> QED
      BY <1>3, <2>1, <2>2, <2>3 DEF Work
  <1>4. ASSUME NEW j \in Jobs, Give(j) PROVE P
    <2>1. CASE (\E u \in UseCases \intersect service.programs[j] : CallUseCase(j, u)) /\ UNCHANGED <<migVars, moveVars>>
      BY <2>1 DEF UowAction
    <2>2. CASE WriteOutside(j) /\ UNCHANGED <<migVars, moveVars>>
      BY <2>2 DEF UowAction
    <2>3. CASE (\E op \in Ops : CallMigrator(j, op)) /\ UNCHANGED <<uowVars, moveVars>>
      BY <2>3 DEF MigAction
    <2>4. CASE /\ (\E src, dst \in Keys : CallMove(j, src, dst)) \/ (\E k \in Keys : CallDelete(j, k))
               /\ UNCHANGED <<poolVars, uowVars, migVars>>
      BY <1>1, <2>4 DEF MoveAction, poolVars
    <2> QED
      BY <1>4, <2>1, <2>2, <2>3, <2>4 DEF Give
  <1>5. CASE \E s \in Listeners, j \in Jobs : Request(s, j)
    BY <1>4, <1>5 DEF Request
  <1>6. CASE Execute
    BY <1>4, <1>6, AppAssumption DEF Execute
  <1>7. CASE Register
    BY <1>7 DEF Register, UowAction
  <1>8. CASE ClientUploads
    BY <1>1, <1>8 DEF ClientUploads, MoveAction, poolVars
  <1>9. CASE ConnectorStop \/ ConnectorStopFails
    BY <1>1, <1>9 DEF ConnectorStop, ConnectorStopFails, ClosePool, poolVars
  <1>10. CASE Start \/ LateStop \/ Signal \/ Rearm \/ CommandEnds
    BY <1>2, <1>10 DEF Start, Connect, ConnectFails, ServerStart, ServerStartFails, LateStop, Signal, Rearm, CommandEnds
  <1>11. CASE ShutListener \/ Drained \/ ServerStopped \/ ShutdownFails \/ SentryClose \/ Exit
    BY <1>2, <1>11 DEF ShutListener, Drained, ServerStopped, ShutdownFails, SentryClose, Exit
  <1>12. CASE \/ \E s \in Listeners : Listen(s) \/ ListenFails(s)
              \/ \E j \in Jobs : Respond(j)
    BY <1>2, <1>12 DEF Listen, ListenFails, Respond
  <1>13. CASE \E j \in Jobs : Work(j)
    BY <1>3, <1>13
  <1> QED
    BY <1>5, <1>6, <1>7, <1>8, <1>9, <1>10, <1>11, <1>12, <1>13 DEF Next, Stop

\* There are finitely many calls of Do and migration commands.
LEMMA FiniteUsers ==
  /\ IsFiniteSet(OpenUnits) /\ Cardinality(OpenUnits) \in Nat
  /\ IsFiniteSet(Migrating) /\ Cardinality(Migrating) \in Nat
  <1>1. IsFiniteSet(Jobs)
    BY AppAssumption
  <1>2. IsFiniteSet(Levels)
    BY UowAssumption, FS_Interval DEF Levels
  <1>3. IsFiniteSet(Jobs \X Levels)
    BY <1>1, <1>2, FS_Product
  <1>4. OpenUnits \in SUBSET (Jobs \X Levels) /\ Migrating \in SUBSET Jobs
    BY DEF OpenUnits, Migrating
  <1>5. IsFiniteSet(OpenUnits) /\ IsFiniteSet(Migrating)
    BY <1>1, <1>3, <1>4, FS_Subset
  <1> QED
    BY <1>5, FS_CardinalityType

\* Every step keeps the account of the connections.
LEMMA PoolKept ==
  ASSUME Inv, Next
  PROVE  PoolAccounted' /\ inUse' \in Nat
  <1> DEFINE U == Cardinality(OpenUnits)
             M == Cardinality(Migrating)
  <1>1. /\ U \in Nat /\ M \in Nat /\ leaked \in Nat /\ inUse \in Nat
        /\ inUse = U + M + leaked
    BY FiniteUsers DEF Inv, MigTypeOK, PoolAccounted
  <1>2. ASSUME NEW x
        PROVE  /\ x \notin OpenUnits => Cardinality(OpenUnits \union {x}) = U + 1
               /\ x \in OpenUnits => Cardinality(OpenUnits \ {x}) = U - 1
               /\ x \notin Migrating => Cardinality(Migrating \union {x}) = M + 1
               /\ x \in Migrating => Cardinality(Migrating \ {x}) = M - 1
    BY FiniteUsers, FS_AddElement, FS_RemoveElement
  <1>3. ASSUME NEW S, IsFiniteSet(S), NEW x \in S PROVE Cardinality(S) - 1 \in Nat
    <2>1. IsFiniteSet(S \ {x}) /\ Cardinality(S \ {x}) = Cardinality(S) - 1
      BY <1>3, FS_RemoveElement
    <2>2. Cardinality(S \ {x}) \in Nat
      BY <2>1, FS_CardinalityType
    <2> QED
      BY <2>1, <2>2
  <1>4. CASE UowAction /\ UNCHANGED migVars
    <2>1. leaked' = leaked /\ Migrating' = Migrating
      BY <1>4 DEF migVars, Migrating
    <2>2. \/ inUse' = inUse /\ OpenUnits' = OpenUnits
          \/ \E x \in Jobs \X Levels : x \notin OpenUnits /\ inUse' = inUse + 1 /\ OpenUnits' = OpenUnits \union {x}
          \/ \E x \in OpenUnits : inUse' = inUse - 1 /\ OpenUnits' = OpenUnits \ {x}
      BY <1>4, UowPool DEF Inv
    <2>3. CASE inUse' = inUse /\ OpenUnits' = OpenUnits
      BY <1>1, <2>1, <2>3 DEF PoolAccounted
    <2>4. ASSUME NEW x, x \notin OpenUnits, inUse' = inUse + 1, OpenUnits' = OpenUnits \union {x}
          PROVE  PoolAccounted' /\ inUse' \in Nat
      <3>1. Cardinality(OpenUnits') = U + 1
        BY <1>2, <2>4
      <3> QED
        BY <1>1, <2>1, <2>4, <3>1 DEF PoolAccounted
    <2>5. ASSUME NEW x \in OpenUnits, inUse' = inUse - 1, OpenUnits' = OpenUnits \ {x}
          PROVE  PoolAccounted' /\ inUse' \in Nat
      <3>1. U - 1 \in Nat /\ Cardinality(OpenUnits') = U - 1
        BY <1>2, <1>3, <2>5, FiniteUsers
      <3> QED
        BY <1>1, <2>1, <2>5, <3>1 DEF PoolAccounted
    <2> QED
      BY <2>2, <2>3, <2>4, <2>5
  <1>5. CASE MigAction /\ UNCHANGED uowVars
    <2>1. OpenUnits' = OpenUnits
      BY <1>5 DEF uowVars, OpenUnits
    <2>2. \/ inUse' = inUse /\ leaked' = leaked /\ Migrating' = Migrating
          \/ \E j \in Jobs : j \notin Migrating /\ inUse' = inUse + 1 /\ leaked' = leaked /\ Migrating' = Migrating \union {j}
          \/ \E j \in Migrating : inUse' = inUse - 1 /\ leaked' = leaked /\ Migrating' = Migrating \ {j}
          \/ \E j \in Migrating : inUse' = inUse /\ leaked' = leaked + 1 /\ Migrating' = Migrating \ {j}
      BY <1>5, MigPool DEF Inv
    <2>3. CASE inUse' = inUse /\ leaked' = leaked /\ Migrating' = Migrating
      BY <1>1, <2>1, <2>3 DEF PoolAccounted
    <2>4. ASSUME NEW j, j \notin Migrating, inUse' = inUse + 1, leaked' = leaked, Migrating' = Migrating \union {j}
          PROVE  PoolAccounted' /\ inUse' \in Nat
      <3>1. Cardinality(Migrating') = M + 1
        BY <1>2, <2>4
      <3> QED
        BY <1>1, <2>1, <2>4, <3>1 DEF PoolAccounted
    <2>5. ASSUME NEW j \in Migrating, Migrating' = Migrating \ {j},
                 \/ inUse' = inUse - 1 /\ leaked' = leaked
                 \/ inUse' = inUse /\ leaked' = leaked + 1
          PROVE  PoolAccounted' /\ inUse' \in Nat
      <3>1. M - 1 \in Nat /\ Cardinality(Migrating') = M - 1
        BY <1>2, <1>3, <2>5, FiniteUsers
      <3> QED
        BY <1>1, <2>1, <2>5, <3>1 DEF PoolAccounted
    <2> QED
      BY <2>2, <2>3, <2>4, <2>5
  <1>6. CASE UNCHANGED <<inUse, uowVars, migVars>>
    BY <1>1, <1>6 DEF uowVars, migVars, OpenUnits, Migrating, PoolAccounted
  <1> QED
    BY <1>4, <1>5, <1>6, WorkParts

\* Every step keeps the types and the invariants of the components.
LEMMA ComponentsKept ==
  ASSUME Inv, Next
  PROVE  UowTypes' /\ UowInv' /\ MigTypeOK' /\ MoveTypeOK' /\ MoveInv'
  <1>1. UowTypes' /\ UowInv' /\ MigTypeOK'
    <2>1. CASE UowAction /\ UNCHANGED migVars
      BY <2>1, UowActionKeeps DEF Inv, migVars, MigTypeOK
    <2>2. CASE MigAction /\ UNCHANGED uowVars
      <3>1. MigTypeOK' /\ closed' = closed /\ closed \in BOOLEAN
        BY <2>2, MigPool DEF Inv, UowTypes
      <3> QED
        BY <2>2, <3>1, UowActionKeeps DEF Inv
    <2>3. CASE UNCHANGED <<inUse, uowVars, migVars>> /\ closed' \in BOOLEAN
      BY <2>3, UowActionKeeps DEF Inv, migVars, MigTypeOK
    <2> QED
      BY <2>1, <2>2, <2>3, WorkParts
  <1>2. MoveTypeOK' /\ MoveInv'
    BY WorkParts, MoveActionKeeps DEF Inv
  <1> QED
    BY <1>1, <1>2

-----------------------------------------------------------------------------
(* Jobs *)

\* A job whose record is the same does what it did.
SameTask(i) == res'[i] = res[i] /\ mig'[i] = mig[i] /\ mv'[i] = mv[i]

\* ... and stays what it was: running, returned, or neither.
LEMMA SameTaskKeeps ==
  ASSUME NEW i, SameTask(i)
  PROVE  /\ OneTask(i) => OneTask(i)'
         /\ Running(i)' = Running(i)
         /\ Returned(i)' = Returned(i)
  BY DEF SameTask, OneTask, Running, Fresh, Returned

\* Only a job that runs takes a step of its work, and the step is its own.
LEMMA WorkLocal ==
  ASSUME Inv, NEW j \in Jobs, Work(j)
  PROVE  Running(j) /\ OneTask(j)' /\ \A i \in Jobs \ {j} : SameTask(i)
  <1>1. OneTask(j) /\ Movers = Jobs
    BY AppAssumption DEF Inv
  <1>2. CASE UowStep(j) /\ UNCHANGED <<migVars, moveVars>>
    <2>1. depth[j] > 0
      BY <1>2 DEF UowStep, UowProgress, UowFault, Begin, Write, Publish, HandlerWrites, HandlerNests,
                  HandlerFails, UseCaseFails, Commit, Rollback, BeginFails, CommitFails, Dispatching, In
    <2>2. res[j] = "running" /\ res \in [Jobs -> {"none", "running", "ok", "error"}]
      BY <2>1 DEF Inv, UowInv, Stack, UowTypes
    <2>3. res' = res \/ \E r \in {"ok", "error"} : res' = [res EXCEPT ![j] = r]
      BY <1>2 DEF UowStep, UowProgress, UowFault, Begin, Write, Publish, HandlerWrites, HandlerNests,
                  HandlerFails, UseCaseFails, Commit, Rollback, BeginFails, CommitFails, Return
    <2>4. res'[j] # "none" /\ \A i \in Jobs \ {j} : res'[i] = res[i]
      BY <2>2, <2>3
    <2>5. mig' = mig /\ mv' = mv
      BY <1>2 DEF migVars, moveVars
    <2> QED
      BY <1>1, <2>2, <2>4, <2>5, UowAssumption DEF OneTask, SameTask, Running, Fresh, Returned, Ended
  <1>3. CASE MigStep(j) /\ UNCHANGED <<uowVars, moveVars>>
    <2>1. /\ mig[j].pc \notin {"idle", "done"} /\ mig'[j].pc # "idle"
          /\ \A i \in Jobs \ {j} : mig'[i] = mig[i]
      <3>1. mig \in [Jobs -> MigStates]
        BY DEF Inv, MigTypeOK
      <3> QED
        BY <1>3, <3>1 DEF MigStep, MigProgress, MigFault, Conn, WithConnection, NewWithDatabaseInstance, RunOp,
                  Close, ConnFails, WithConnectionFails, NewWithDatabaseInstanceFails, RunOpFails, MigTo, MigFail, MigStates
    <2>2. res' = res /\ mv' = mv
      BY <1>3 DEF uowVars, moveVars
    <2> QED
      BY <1>1, <2>1, <2>2 DEF OneTask, SameTask, Running, Fresh, Returned, Ended
  <1>4. CASE MoveStep(j) /\ UNCHANGED <<poolVars, uowVars, migVars>>
    <2>1. /\ mv[j].pc \notin {"idle", "ok", "error"} /\ mv'[j].pc # "idle"
          /\ \A i \in Jobs \ {j} : mv'[i] = mv[i]
      <3>1. mv \in [Jobs -> MoveStates]
        BY <1>1 DEF Inv, MoveTypeOK
      <3> QED
        BY <1>4, <3>1 DEF MoveStep, MoveProgress, MoveFault, CopyObject, CopyInvisible, CopyFails, HeadObject, HeadFails,
                  GetObject, GetFails, PutObject, PutFails, DeleteObject, DeleteFails, MoveTo, MoveStates
    <2>2. res' = res /\ mig' = mig
      BY <1>4 DEF uowVars, migVars
    <2> QED
      BY <1>1, <2>1, <2>2 DEF OneTask, SameTask, Running, Fresh, Returned, Ended
  <1> QED
    BY <1>2, <1>3, <1>4 DEF Work

\* A job that is given something had nothing to do, and no other job changes.
LEMMA GiveLocal ==
  ASSUME Inv, NEW j \in Jobs, Give(j)
  PROVE  OneTask(j)' /\ \A i \in Jobs \ {j} : SameTask(i)
  <1>1. /\ Movers = Jobs /\ Fresh(j)
        /\ res \in [Jobs -> {"none", "running", "ok", "error"}]
        /\ mig \in [Jobs -> MigStates] /\ mv \in [Jobs -> MoveStates]
    BY AppAssumption DEF Inv, UowTypes, MigTypeOK, MoveTypeOK, Give
  <1>2. CASE (\E u \in UseCases : CallUseCase(j, u)) /\ UNCHANGED <<migVars, moveVars>>
    BY <1>1, <1>2 DEF CallUseCase, migVars, moveVars, Fresh, OneTask, SameTask
  <1>3. CASE WriteOutside(j) /\ UNCHANGED <<migVars, moveVars>>
    BY <1>1, <1>3 DEF WriteOutside, migVars, moveVars, Fresh, OneTask, SameTask
  <1>4. CASE (\E op \in Ops : CallMigrator(j, op)) /\ UNCHANGED <<uowVars, moveVars>>
    BY <1>1, <1>4 DEF CallMigrator, uowVars, moveVars, Fresh, OneTask, SameTask, MigStates
  <1>5. CASE /\ (\E src, dst \in Keys : CallMove(j, src, dst)) \/ (\E k \in Keys : CallDelete(j, k))
             /\ UNCHANGED <<poolVars, uowVars, migVars>>
    BY <1>1, <1>5 DEF CallMove, CallDelete, uowVars, migVars, Fresh, OneTask, SameTask, MoveStates
  <1> QED
    BY <1>2, <1>3, <1>4, <1>5 DEF Give

\* The work of the jobs does not close the pool.
LEMMA WorkLeavesPool ==
  ASSUME Inv, NEW j \in Jobs, Work(j) \/ Give(j)
  PROVE  closed' = closed
  <1>1. CASE UowStep(j)
    BY <1>1 DEF UowStep, UowProgress, UowFault, Begin, Write, Publish, HandlerWrites, HandlerNests,
                HandlerFails, UseCaseFails, Commit, Rollback, BeginFails, CommitFails, Acquire, Release, poolVars
  <1>2. CASE MigStep(j) \/ \E op \in Ops : CallMigrator(j, op)
    BY <1>2, MigPool DEF Inv, MigAction
  <1>3. CASE (\E u \in UseCases : CallUseCase(j, u)) \/ WriteOutside(j) \/ UNCHANGED poolVars
    BY <1>3 DEF CallUseCase, WriteOutside, poolVars
  <1> QED
    BY <1>1, <1>2, <1>3 DEF Work, Give

-----------------------------------------------------------------------------
(* The life of the process *)

\* Every step keeps the types of the process.
LEMMA AppTyped ==
  ASSUME Inv, Next
  PROVE  AppTypes'
  <1>1. AppTypes /\ service \in Services /\ service.hosts \in Nat
    BY AppAssumption DEF Inv, AppTypes
  <1>2. CASE UNCHANGED appVars
    BY <1>1, <1>2 DEF AppTypes, appVars, lifeVars, listenVars, reportVars, Listeners
  <1>3. CASE Connect
    BY <1>1, <1>3 DEF AppTypes, Connect, lifeVars, listenVars, reportVars, Listeners, Phases, Failures, kind
  <1>4. CASE ConnectFails
    BY <1>1, <1>4 DEF AppTypes, ConnectFails, ErrorsOf, Note, lifeVars, listenVars, reportVars, Listeners, Phases, Failures, kind
  <1>5. CASE ServerStart
    BY <1>1, <1>5 DEF AppTypes, ServerStart, lifeVars, listenVars, reportVars, Listeners, Phases, Failures, kind
  <1>6. CASE ServerStartFails
    BY <1>1, <1>6 DEF AppTypes, ServerStartFails, Note, lifeVars, listenVars, reportVars, Listeners, Phases, Failures, kind
  <1>7. CASE LateStop
    BY <1>1, <1>7 DEF AppTypes, LateStop, lifeVars, listenVars, reportVars, Listeners, Phases, Failures, kind
  <1>8. CASE Signal
    BY <1>1, <1>8 DEF AppTypes, Signal, lifeVars, listenVars, reportVars, Listeners, Phases, Failures, kind
  <1>9. CASE Rearm
    BY <1>1, <1>9 DEF AppTypes, Rearm, lifeVars, listenVars, reportVars, Listeners, Phases, Failures, kind
  <1>10. CASE CommandEnds
    <2>1. PICK e \in Outcomes(Main) : failed' = e /\ CaptureResult(e) /\ Note(e)
      BY <1>10 DEF CommandEnds
    <2>2. e \in Failures \union {"none", "cancelled"}
      BY DEF Outcomes, ErrorsOf, Failures
    <2>3. captured' \in [Failures -> Nat] /\ buffered' \in SUBSET Failures
      BY <1>1, <2>1, <2>2 DEF AppTypes, CaptureResult, Capture
    <2>4. failures' \in SUBSET Failures
      BY <1>1, <2>1 DEF AppTypes, Note
    <2>5. at' \in [Jobs -> Nat]
      BY <1>1, <1>10 DEF AppTypes, CommandEnds
    <2> QED
      BY <1>1, <1>10, <2>1, <2>2, <2>3, <2>4, <2>5 DEF AppTypes, CommandEnds, Listeners, Phases
  <1>11. CASE ShutListener
    BY <1>1, <1>11 DEF AppTypes, ShutListener, lifeVars, listenVars, reportVars, Listeners, Phases, Failures, kind
  <1>12. CASE Drained
    BY <1>1, <1>12 DEF AppTypes, Drained, lifeVars, listenVars, reportVars, Listeners, Phases, Failures, kind
  <1>13. CASE ServerStopped
    BY <1>1, <1>13 DEF AppTypes, ServerStopped, lifeVars, listenVars, reportVars, Listeners, Phases, Failures, kind
  <1>14. CASE ShutdownFails
    BY <1>1, <1>14 DEF AppTypes, ShutdownFails, Note, lifeVars, listenVars, reportVars, Listeners, Phases, Failures, kind
  <1>15. CASE ConnectorStop
    BY <1>1, <1>15 DEF AppTypes, ConnectorStop, lifeVars, listenVars, reportVars, Listeners, Phases, Failures, kind
  <1>16. CASE ConnectorStopFails
    BY <1>1, <1>16 DEF AppTypes, ConnectorStopFails, Note, lifeVars, listenVars, reportVars, Listeners, Phases, Failures, kind
  <1>17. CASE SentryClose
    BY <1>1, <1>17 DEF AppTypes, SentryClose, lifeVars, listenVars, reportVars, Listeners, Phases, Failures, kind
  <1>18. CASE Exit
    <2>1. captured' \in [Failures -> Nat] /\ buffered' \in SUBSET Failures
      <3>1. \A f \in Failures : [captured EXCEPT ![f] = @ + 1] \in [Failures -> Nat]
        BY <1>1 DEF AppTypes
      <3>2. captured \in [Failures -> Nat] /\ buffered \in SUBSET Failures
        BY <1>1 DEF AppTypes
      <3>3. "start" \in Failures /\ "stop" \in Failures
        BY DEF Failures
      <3>4. /\ \/ captured' = captured
               \/ captured' = [captured EXCEPT !["start"] = @ + 1]
               \/ captured' = [captured EXCEPT !["stop"] = @ + 1]
            /\ buffered' = {} \/ buffered' = buffered
        BY <1>18 DEF Exit
      <3> QED
        BY <3>1, <3>2, <3>3, <3>4
    <2>2. failed' \in Failures \union {"none", "cancelled"}
      BY <1>1, <1>18 DEF AppTypes, Exit, Failures
    <2> QED
      BY <1>1, <1>18, <2>1, <2>2 DEF AppTypes, Exit, listenVars, Listeners, Phases
  <1>19. CASE \E s \in Listeners : Listen(s)
    BY <1>1, <1>19 DEF AppTypes, Listen, lifeVars, reportVars, Listeners
  <1>20. CASE \E s \in Listeners : ListenFails(s)
    BY <1>1, <1>20 DEF AppTypes, ListenFails, lifeVars, reportVars, Listeners
  <1>21. CASE \E j \in Jobs : Respond(j)
    BY <1>1, <1>21 DEF AppTypes, Respond, lifeVars, reportVars, Listeners
  <1>22. CASE (\E s \in Listeners, j \in Jobs : Request(s, j)) \/ Execute
    BY <1>1, <1>22 DEF AppTypes, Request, Execute, lifeVars, reportVars, Listeners
  <1>23. CASE (\E j \in Jobs : Work(j)) \/ Register \/ ClientUploads
    BY <1>2, <1>23 DEF Work, Register, ClientUploads
  <1> QED
    BY <1>3, <1>4, <1>5, <1>6, <1>7, <1>8, <1>9, <1>10, <1>11, <1>12, <1>13, <1>14, <1>15, <1>16, <1>17, <1>18, <1>19, <1>20, <1>21, <1>22, <1>23 DEF Next, Start, Stop

\* Every step keeps what the phase says of listeners and jobs.
LEMMA LifeKept ==
  ASSUME Inv, Next
  PROVE  LifeInv'
  <1>1. /\ AppTypes /\ LifeInv /\ service.hosts \in Nat /\ service.kind \in {"server", "console"}
        /\ closed \in BOOLEAN /\ Main \in Jobs
        /\ phase \in Phases /\ next \in Nat /\ stopErr \in BOOLEAN /\ at \in [Jobs -> Nat]
        /\ srv \in [Listeners -> {"new", "starting", "listening", "failed", "shut"}]
    BY AppAssumption DEF Inv, AppTypes, UowTypes
  <1>2. Listeners \subseteq Nat /\ 0 \notin Listeners /\ \A s \in Listeners : s < service.hosts + 1
    BY <1>1 DEF Listeners
  <1>3. ASSUME UNCHANGED workVars PROVE closed' = closed /\ \A i \in Jobs : Running(i)' = Running(i)
    BY <1>3 DEF workVars, poolVars, uowVars, migVars, moveVars, Running, Fresh, Returned
  <1>4. ASSUME NEW j \in Jobs, \A i \in Jobs \ {j} : SameTask(i)
        PROVE  \A i \in Jobs \ {j} : Running(i)' = Running(i)
    BY <1>4, SameTaskKeeps
  <1>5. CASE Connect
    <2>1. UNCHANGED workVars
      BY <1>5 DEF Connect
    <2>2. service' = service /\ Listeners' = Listeners
      BY <1>5 DEF Connect, lifeVars, Listeners
    <2> QED
      BY <1>1, <1>2, <1>3, <1>5, <2>1, <2>2 DEF LifeInv, Connect, Quiet, InFlight, kind, lifeVars, listenVars
  <1>6. CASE ConnectFails
    <2>1. UNCHANGED workVars
      BY <1>6 DEF ConnectFails
    <2>2. service' = service /\ Listeners' = Listeners
      BY <1>6 DEF ConnectFails, lifeVars, Listeners
    <2> QED
      BY <1>1, <1>2, <1>3, <1>6, <2>1, <2>2 DEF LifeInv, ConnectFails, Quiet, InFlight, kind, lifeVars, listenVars
  <1>7. CASE ServerStart
    <2>1. UNCHANGED workVars
      BY <1>7 DEF ServerStart
    <2>2. service' = service /\ Listeners' = Listeners
      BY <1>7 DEF ServerStart, lifeVars, Listeners
    <2> QED
      BY <1>1, <1>2, <1>3, <1>7, <2>1, <2>2 DEF LifeInv, ServerStart, Quiet, InFlight, kind, lifeVars, listenVars
  <1>8. CASE ServerStartFails
    <2>1. UNCHANGED workVars
      BY <1>8 DEF ServerStartFails
    <2>2. service' = service /\ Listeners' = Listeners
      BY <1>8 DEF ServerStartFails, lifeVars, Listeners
    <2> QED
      BY <1>1, <1>2, <1>3, <1>8, <2>1, <2>2 DEF LifeInv, ServerStartFails, Quiet, InFlight, kind, lifeVars, listenVars
  <1>9. CASE LateStop
    <2>1. UNCHANGED workVars
      BY <1>9 DEF LateStop
    <2>2. service' = service /\ Listeners' = Listeners
      BY <1>9 DEF LateStop, lifeVars, Listeners
    <2> QED
      BY <1>1, <1>2, <1>3, <1>9, <2>1, <2>2 DEF LifeInv, LateStop, Quiet, InFlight, kind, lifeVars, listenVars
  <1>10. CASE Signal
    <2>1. UNCHANGED workVars
      BY <1>10 DEF Signal
    <2>2. service' = service /\ Listeners' = Listeners
      BY <1>10 DEF Signal, lifeVars, Listeners
    <2> QED
      BY <1>1, <1>2, <1>3, <1>10, <2>1, <2>2 DEF LifeInv, Signal, Quiet, InFlight, kind, lifeVars, listenVars
  <1>11. CASE Rearm
    <2>1. UNCHANGED workVars
      BY <1>11 DEF Rearm
    <2>2. service' = service /\ Listeners' = Listeners
      BY <1>11 DEF Rearm, lifeVars, Listeners
    <2> QED
      BY <1>1, <1>2, <1>3, <1>11, <2>1, <2>2 DEF LifeInv, Rearm, Quiet, InFlight, kind, lifeVars, listenVars
  <1>12. CASE ShutListener
    <2>1. UNCHANGED workVars
      BY <1>12 DEF ShutListener
    <2>2. service' = service /\ Listeners' = Listeners
      BY <1>12 DEF ShutListener, lifeVars, Listeners
    <2> QED
      BY <1>1, <1>2, <1>3, <1>12, <2>1, <2>2 DEF LifeInv, ShutListener, Quiet, InFlight, kind, lifeVars, listenVars
  <1>13. CASE Drained
    <2>1. UNCHANGED workVars
      BY <1>13 DEF Drained
    <2>2. service' = service /\ Listeners' = Listeners
      BY <1>13 DEF Drained, lifeVars, Listeners
    <2> QED
      BY <1>1, <1>2, <1>3, <1>13, <2>1, <2>2 DEF LifeInv, Drained, Quiet, InFlight, kind, lifeVars, listenVars
  <1>14. CASE ServerStopped
    <2>1. UNCHANGED workVars
      BY <1>14 DEF ServerStopped
    <2>2. service' = service /\ Listeners' = Listeners
      BY <1>14 DEF ServerStopped, lifeVars, Listeners
    <2> QED
      BY <1>1, <1>2, <1>3, <1>14, <2>1, <2>2 DEF LifeInv, ServerStopped, Quiet, InFlight, kind, lifeVars, listenVars
  <1>15. CASE ShutdownFails
    <2>1. UNCHANGED workVars
      BY <1>15 DEF ShutdownFails
    <2>2. service' = service /\ Listeners' = Listeners
      BY <1>15 DEF ShutdownFails, lifeVars, Listeners
    <2> QED
      BY <1>1, <1>2, <1>3, <1>15, <2>1, <2>2 DEF LifeInv, ShutdownFails, Quiet, InFlight, kind, lifeVars, listenVars
  <1>16. CASE SentryClose
    <2>1. UNCHANGED workVars
      BY <1>16 DEF SentryClose
    <2>2. service' = service /\ Listeners' = Listeners
      BY <1>16 DEF SentryClose, lifeVars, Listeners
    <2> QED
      BY <1>1, <1>2, <1>3, <1>16, <2>1, <2>2 DEF LifeInv, SentryClose, Quiet, InFlight, kind, lifeVars, listenVars
  <1>17. CASE Exit
    <2>1. UNCHANGED workVars
      BY <1>17 DEF Exit
    <2>2. service' = service /\ Listeners' = Listeners
      BY <1>17 DEF Exit, lifeVars, Listeners
    <2> QED
      BY <1>1, <1>2, <1>3, <1>17, <2>1, <2>2 DEF LifeInv, Exit, Quiet, InFlight, kind, lifeVars, listenVars
  <1>18. CASE ConnectorStop \/ ConnectorStopFails
    <2>1. \A i \in Jobs : Running(i)' = Running(i)
      BY <1>18 DEF ConnectorStop, ConnectorStopFails, uowVars, migVars, moveVars, Running, Fresh, Returned
    <2>2. service' = service /\ Listeners' = Listeners
      BY <1>18 DEF ConnectorStop, ConnectorStopFails, Listeners
    <2> QED
      BY <1>1, <1>18, <2>1, <2>2 DEF LifeInv, ConnectorStop, ConnectorStopFails, ClosePool, poolVars, Quiet, InFlight, kind, listenVars
  <1>19. CASE CommandEnds
    <2>1. UNCHANGED workVars /\ ~Running(Main)
      BY <1>19 DEF CommandEnds, Running
    <2>2. service' = service /\ Listeners' = Listeners
      BY <1>19 DEF CommandEnds, Listeners
    <2> QED
      BY <1>1, <1>2, <1>3, <1>19, <2>1, <2>2 DEF LifeInv, CommandEnds, Quiet, kind
  <1>20. CASE \E s \in Listeners : Listen(s)
    <2>1. PICK s \in Listeners : Listen(s)
      BY <1>20
    <2>2. UNCHANGED workVars /\ service' = service /\ Listeners' = Listeners
      BY <2>1 DEF Listen, lifeVars, Listeners
    <2> QED
      BY <1>1, <1>3, <2>1, <2>2 DEF LifeInv, Listen, Quiet, InFlight, kind, lifeVars
  <1>21. CASE \E s \in Listeners : ListenFails(s)
    <2>1. PICK s \in Listeners : ListenFails(s)
      BY <1>21
    <2>2. UNCHANGED workVars /\ service' = service /\ Listeners' = Listeners
      BY <2>1 DEF ListenFails, lifeVars, Listeners
    <2> QED
      BY <1>1, <1>3, <2>1, <2>2 DEF LifeInv, ListenFails, Quiet, InFlight, kind, lifeVars
  <1>22. CASE \E j \in Jobs : Respond(j)
    <2>1. PICK j \in Jobs : Respond(j)
      BY <1>22
    <2>2. UNCHANGED workVars /\ service' = service /\ Listeners' = Listeners /\ ~Running(j)
      BY <2>1 DEF Respond, lifeVars, Listeners, Running
    <2> QED
      BY <1>1, <1>2, <1>3, <2>1, <2>2 DEF LifeInv, Respond, Quiet, InFlight, kind, lifeVars
  <1>23. CASE \E s \in Listeners, j \in Jobs : Request(s, j)
    <2>1. PICK s \in Listeners, j \in Jobs : Request(s, j)
      BY <1>23
    <2>2. /\ service' = service /\ Listeners' = Listeners /\ closed' = closed
          /\ \A i \in Jobs \ {j} : Running(i)' = Running(i)
      BY <1>4, <2>1, GiveLocal, WorkLeavesPool DEF Request, lifeVars, Listeners
    <2> QED
      BY <1>1, <1>2, <2>1, <2>2 DEF LifeInv, Request, Quiet, InFlight, kind, lifeVars
  <1>24. CASE Execute
    <2>1. /\ service' = service /\ Listeners' = Listeners /\ closed' = closed
          /\ \A i \in Jobs \ {Main} : Running(i)' = Running(i)
      BY <1>1, <1>4, <1>24, GiveLocal, WorkLeavesPool DEF Execute, lifeVars, Listeners
    <2> QED
      BY <1>1, <1>2, <1>24, <2>1 DEF LifeInv, Execute, Quiet, kind, lifeVars
  <1>25. CASE \E j \in Jobs : Work(j)
    <2>1. PICK j \in Jobs : Work(j)
      BY <1>25
    <2>2. /\ UNCHANGED appVars /\ Listeners' = Listeners /\ closed' = closed /\ Running(j)
          /\ \A i \in Jobs \ {j} : Running(i)' = Running(i)
      BY <1>4, <2>1, WorkLocal, WorkLeavesPool DEF Work, appVars, lifeVars, Listeners
    <2> QED
      BY <1>1, <1>2, <2>2 DEF LifeInv, Quiet, InFlight, kind, appVars, lifeVars, listenVars
  <1>26. CASE Register \/ ClientUploads
    <2>1. /\ UNCHANGED appVars /\ Listeners' = Listeners /\ closed' = closed
          /\ \A i \in Jobs : Running(i)' = Running(i)
      BY <1>26 DEF Register, ClientUploads, Subscribe, Upload, poolVars, uowVars, migVars, moveVars, appVars, lifeVars,
                   Listeners, Running, Fresh, Returned
    <2> QED
      BY <1>1, <2>1 DEF LifeInv, Quiet, InFlight, kind, appVars, lifeVars, listenVars
  <1> QED
    BY <1>5, <1>6, <1>7, <1>8, <1>9, <1>10, <1>11, <1>12, <1>13, <1>14, <1>15, <1>16, <1>17, <1>18, <1>19, <1>20, <1>21, <1>22, <1>23, <1>24, <1>25, <1>26 DEF Next, Start, Stop

\* Every step keeps the account of what was noted, reported and kept.
LEMMA ReportKept ==
  ASSUME Inv, Next
  PROVE  ReportInv' /\ ConsoleReports'
  <1>1. /\ ReportInv /\ ConsoleReports /\ LifeInv
        /\ service.kind \in {"server", "console"} /\ phase \in Phases
        /\ captured \in [Failures -> Nat] /\ stopErr \in BOOLEAN
        /\ failed \in Failures \union {"none", "cancelled"}
    BY AppAssumption DEF Inv, AppTypes
  <1>2. CASE UNCHANGED <<service, phase, failed, stopErr, captured, buffered, failures>>
    BY <1>1, <1>2 DEF ReportInv, ConsoleReports, kind, Alive
  <1>3. CASE kind # "console"
    <2>1. service' = service
      BY DEF Next, Start, Stop, Connect, ConnectFails, ServerStart, ServerStartFails, LateStop, Signal, Rearm, CommandEnds,
             ShutListener, Drained, ServerStopped, ShutdownFails, ConnectorStop, ConnectorStopFails, SentryClose, Exit,
             Listen, ListenFails, Respond, Request, Execute, Work, Register, ClientUploads, appVars, lifeVars
    <2> QED
      BY <1>3, <2>1 DEF ReportInv, ConsoleReports, kind
  <1> SUFFICES ASSUME kind = "console" PROVE ReportInv' /\ ConsoleReports'
    BY <1>3
  <1>4. CASE Connect
    BY <1>1, <1>4 DEF ReportInv, ConsoleReports, LifeInv, Connect, kind, Alive, Over, Phases, Failures, lifeVars, reportVars
  <1>5. CASE Rearm
    BY <1>1, <1>5 DEF ReportInv, ConsoleReports, LifeInv, Rearm, kind, Alive, Over, Phases, Failures, lifeVars, reportVars
  <1>6. CASE Signal
    BY <1>1, <1>6 DEF ReportInv, ConsoleReports, LifeInv, Signal, kind, Alive, Over, Phases, Failures, lifeVars, reportVars
  <1>7. CASE ConnectFails
    BY <1>1, <1>7 DEF ReportInv, ConsoleReports, LifeInv, ConnectFails, kind, Alive, Over, Phases, Failures, lifeVars, reportVars, ErrorsOf, Note
  <1>8. CASE ConnectorStop
    BY <1>1, <1>8 DEF ReportInv, ConsoleReports, LifeInv, ConnectorStop, kind, Alive, Over, Phases, Failures, lifeVars, reportVars
  <1>9. CASE ConnectorStopFails
    BY <1>1, <1>9 DEF ReportInv, ConsoleReports, LifeInv, ConnectorStopFails, kind, Alive, Over, Phases, Failures, lifeVars, reportVars, Note
  <1>10. CASE SentryClose
    BY <1>1, <1>10 DEF ReportInv, ConsoleReports, LifeInv, SentryClose, kind, Alive, Over, Phases, Failures, lifeVars, reportVars
  <1>11. CASE Exit
    <2>1. /\ failures = ({failed} \intersect Failures) \union (IF stopErr THEN {"stop"} ELSE {})
          /\ failed # "stop"
          /\ \A f \in Failures : captured[f] = IF f = failed /\ f # "start" THEN 1 ELSE 0
          /\ failed = "start" => ~stopErr
          /\ ~stopErr => buffered = {}
      BY <1>1, <1>11 DEF Exit, ReportInv, Alive, Over
    <2>2. phase' = "exit" /\ failures' = failures /\ service' = service
      BY <1>11 DEF Exit
    <2>3. CASE failed = "start"
      <3>1. captured' = [captured EXCEPT !["start"] = @ + 1] /\ buffered' = {} /\ failed' = failed
        BY <1>11, <2>3 DEF Exit
      <3>2. \A f \in Failures : captured'[f] = IF f = "start" THEN 1 ELSE 0
        BY <1>1, <2>1, <2>3, <3>1
      <3>3. failures = {"start"}
        BY <2>1, <2>3 DEF Failures
      <3> QED
        BY <2>2, <2>3, <3>1, <3>2, <3>3 DEF ReportInv, ConsoleReports, Alive, Over
    <2>4. CASE failed # "start" /\ stopErr
      <3>1. /\ captured' = [captured EXCEPT !["stop"] = @ + 1] /\ buffered' = {}
            /\ failed' = IF failed = "none" THEN "stop" ELSE failed
        BY <1>11, <2>4 DEF Exit
      <3>2. \A f \in Failures : captured'[f] = IF f \in failures THEN 1 ELSE 0
        <4>1. \A f \in Failures : captured'[f] = IF f = "stop" THEN captured[f] + 1 ELSE captured[f]
          BY <1>1, <3>1
        <4>2. \A f \in Failures : f \in failures <=> f = failed \/ f = "stop"
          BY <2>1, <2>4
        <4> QED
          BY <2>1, <2>4, <4>1, <4>2
      <3>3. failed' # "none" /\ (failed' = "stop" => failures = {"stop"})
        BY <2>1, <2>4, <3>1 DEF Failures
      <3> QED
        BY <2>2, <3>1, <3>2, <3>3 DEF ReportInv, ConsoleReports, Alive, Over
    <2>5. CASE failed # "start" /\ ~stopErr
      <3>1. captured' = captured /\ buffered' = buffered /\ failed' = failed
        BY <1>11, <2>5 DEF Exit
      <3> QED
        BY <1>1, <2>1, <2>2, <2>5, <3>1 DEF ReportInv, ConsoleReports, Alive, Over, Failures
    <2> QED
      BY <2>3, <2>4, <2>5
  <1>12. CASE CommandEnds
    BY <1>1, <1>12 DEF ReportInv, ConsoleReports, LifeInv, CommandEnds, kind, Alive, Over, Phases, Failures, lifeVars, reportVars, Outcomes, ErrorsOf, Note, CaptureResult, Capture
  <1>13. CASE \/ ServerStart \/ ServerStartFails \/ LateStop
              \/ ShutListener \/ Drained \/ ServerStopped \/ ShutdownFails
    BY <1>1, <1>13 DEF LifeInv, ServerStart, ServerStartFails, LateStop, ShutListener, Drained, ServerStopped, ShutdownFails
  <1>14. CASE \/ Execute \/ Register \/ ClientUploads
              \/ \E s \in Listeners : Listen(s) \/ ListenFails(s) \/ \E j \in Jobs : Request(s, j)
              \/ \E j \in Jobs : Work(j) \/ Respond(j)
    BY <1>2, <1>14 DEF Listen, ListenFails, Respond, Request, Execute, Work, Register, ClientUploads, appVars, lifeVars, reportVars
  <1>15. CASE Start
    BY <1>4, <1>7, <1>13, <1>15 DEF Start
  <1>16. CASE Stop
    BY <1>8, <1>9, <1>10, <1>11, <1>13, <1>16 DEF Stop
  <1> QED
    BY <1>5, <1>6, <1>12, <1>13, <1>14, <1>15, <1>16 DEF Next

-----------------------------------------------------------------------------
(* The theorems *)

\* A job that does one thing goes on doing one thing.
LEMMA TasksKept ==
  ASSUME Inv, Next
  PROVE  \A i \in Jobs : OneTask(i)'
  <1>1. \A i \in Jobs : OneTask(i)
    BY DEF Inv
  <1>2. ASSUME UNCHANGED <<res, mig, mv>> PROVE \A i \in Jobs : OneTask(i)'
    BY <1>1, <1>2 DEF OneTask
  <1>3. ASSUME NEW j \in Jobs, Work(j) \/ Give(j) PROVE \A i \in Jobs : OneTask(i)'
    BY <1>1, <1>3, WorkLocal, GiveLocal, SameTaskKeeps
  <1>4. CASE (\E j \in Jobs : Work(j)) \/ Execute \/ \E s \in Listeners, j \in Jobs : Request(s, j)
    BY <1>3, <1>4, AppAssumption DEF Execute, Request
  <1>5. CASE Register \/ ClientUploads
    BY <1>2, <1>5 DEF Register, ClientUploads, Subscribe, Upload, uowVars, migVars, moveVars
  <1>6. CASE ConnectorStop \/ ConnectorStopFails
    BY <1>2, <1>6 DEF ConnectorStop, ConnectorStopFails, uowVars, migVars, moveVars
  <1>7. CASE UNCHANGED workVars
    BY <1>2, <1>7 DEF workVars, uowVars, migVars, moveVars
  <1>8. CASE \/ Start \/ LateStop \/ Signal \/ Rearm \/ CommandEnds
             \/ ShutListener \/ Drained \/ ServerStopped \/ ShutdownFails \/ SentryClose \/ Exit
             \/ \E s \in Listeners : Listen(s) \/ ListenFails(s)
             \/ \E j \in Jobs : Respond(j)
    BY <1>7, <1>8 DEF Start, Connect, ConnectFails, ServerStart, ServerStartFails, LateStop, Signal, Rearm, CommandEnds,
                ShutListener, Drained, ServerStopped, ShutdownFails, SentryClose, Exit, Listen, ListenFails, Respond
  <1> QED
    BY <1>4, <1>5, <1>6, <1>8 DEF Next, Stop

\* The invariant holds at first.
LEMMA InvInitial == Init => Inv
  <1> SUFFICES ASSUME Init PROVE Inv
    OBVIOUS
  <1>1. UowInit /\ MigInit /\ MoveInit /\ closed = FALSE /\ inUse = 0
    BY DEF Init
  <1>2. UowTypes /\ UowInv /\ MoveTypeOK /\ MoveInv
    BY <1>1, UowInitial, UowInitialInv, MoveInitial
  <1>3. MigTypeOK
    BY <1>1 DEF MigInit, MigTypeOK, MigStates
  <1>4. AppTypes
    BY AppAssumption DEF Init, AppTypes, Phases, Failures, Listeners
  <1>5. PoolAccounted
    <2>1. OpenUnits = {} /\ Migrating = {} /\ leaked = 0
      BY <1>1, UowAssumption DEF UowInit, MigInit, OpenUnits, Migrating, Holding, Levels
    <2> QED
      BY <1>1, <2>1, FS_EmptySet DEF PoolAccounted
  <1>6. \A j \in Jobs : OneTask(j) /\ ~Running(j)
    BY <1>1, AppAssumption DEF UowInit, MigInit, MoveInit, OneTask, Running, Fresh
  <1>7. LifeInv
    BY <1>6, AppAssumption DEF Init, LifeInv, Quiet, Listeners
  <1>8. ReportInv /\ ConsoleReports
    BY DEF Init, ReportInv, ConsoleReports, Failures
  <1> QED
    BY <1>1, <1>2, <1>3, <1>4, <1>5, <1>6, <1>7, <1>8 DEF Inv

\* Every step keeps the invariant.
LEMMA InvKept ==
  ASSUME Inv, [Next]_vars
  PROVE  Inv'
  <1>1. CASE Next
    BY <1>1, ComponentsKept, PoolKept, AppTyped, TasksKept, LifeKept, ReportKept DEF Inv
  <1>2. CASE UNCHANGED vars
    <2>1. /\ UNCHANGED <<inUse, closed>> /\ UNCHANGED uowVars /\ UNCHANGED migVars /\ UNCHANGED moveVars /\ UNCHANGED appVars
      BY <1>2 DEF vars, poolVars
    <2>2. closed' \in BOOLEAN /\ inUse' \in Nat
      BY <2>1 DEF Inv, UowTypes
    <2>3. UowTypes' /\ UowInv' /\ MoveTypeOK' /\ MoveInv'
      BY <2>1, <2>2, UowActionKeeps, MoveActionKeeps DEF Inv
    <2>4. MigTypeOK' /\ PoolAccounted'
      BY <2>1 DEF Inv, migVars, MigTypeOK, PoolAccounted, uowVars, OpenUnits, Migrating
    <2>5. (\A j \in Jobs : OneTask(j)') /\ \A j \in Jobs : Running(j)' = Running(j)
      BY <2>1 DEF Inv, uowVars, migVars, moveVars, OneTask, Running, Fresh, Returned
    <2>6. Listeners' = Listeners /\ UNCHANGED <<service, phase, signals, reset, failed, stopErr, srv, next, at, captured, buffered, failures>>
      BY <2>1 DEF appVars, lifeVars, listenVars, reportVars, Listeners
    <2>7. AppTypes'
      BY <2>6 DEF Inv, AppTypes
    <2>8. LifeInv'
      BY <2>1, <2>5, <2>6 DEF Inv, LifeInv, Quiet, InFlight, kind
    <2>9. ReportInv' /\ ConsoleReports'
      BY <2>6 DEF Inv, ReportInv, ConsoleReports, kind, Alive
    <2> QED
      BY <2>2, <2>3, <2>4, <2>5, <2>7, <2>8, <2>9 DEF Inv
  <1> QED
    BY <1>1, <1>2

\* The inductive invariant holds in every reachable state of a process.
THEOREM Invariance == Spec => []Inv
  <1>1. Init => Inv
    BY InvInitial
  <1>2. Inv /\ [Next]_vars => Inv'
    BY InvKept
  <1> QED
    BY <1>1, <1>2, PTL DEF Spec

\* The state has its types; a connection is never given back twice, so the
\* counter of the pool never falls below zero (unitOfWork.Do, Migrator.instance,
\* close).
THEOREM TypeCorrect == Spec => []TypeOK
  <1>1. Inv => TypeOK
    BY DEF Inv, AppTypes, UowTypes, TypeOK, UowTypeOK
  <1> QED
    BY <1>1, Invariance, PTL

\* Units of work are atomic, reactions of subscribers included, for any
\* subscribers, events, nesting depth and number of jobs (unitOfWork.Do,
\* Bus.Publish, Bus.PublishAll, recoverMiddleware).
THEOREM UnitsAtomic == Spec => []UnitAtomic
  <1>1. Inv => UnitAtomic
    BY UowInvImplies DEF Inv
  <1> QED
    BY <1>1, Invariance, PTL

\* The units of work of a process implement their contract, whatever runs
\* beside them: signals, migrations, moves and the stop of the process decide
\* no unit (unitOfWork.Do, uow.ORM, Bus.Publish, ConsoleApp.Run, Server.Stop).
THEOREM UnitRefinement == Spec => ImplementsContract
  <1>1. Init => Contract!Init
    BY DEF Init, UowInit, Contract!Init
  <1>2. Inv /\ [Next]_vars => [Contract!Next]_(Contract!vars)
    <2> SUFFICES ASSUME Inv, [Next]_vars
                 PROVE  Contract!Next \/ UNCHANGED Contract!vars
      OBVIOUS
    <2>1. CASE UNCHANGED uowVars
      BY <2>1 DEF uowVars, Contract!vars
    <2>2. CASE UowAction
      BY <2>2, UowActionContract DEF Inv
    <2>3. CASE Next
      BY <2>1, <2>2, <2>3, WorkParts
    <2> QED
      BY <2>1, <2>3 DEF vars
  <1> QED
    BY <1>1, <1>2, Invariance, PTL DEF Spec, ImplementsContract, Contract!Spec

\* Every connection in use is accounted for, for any pool and any jobs
\* (unitOfWork.Do, Migrator.instance, close, Fresh).
THEOREM ConnectionsAccounted == Spec => []PoolAccounted
  <1>1. Inv => PoolAccounted
    BY DEF Inv
  <1> QED
    BY <1>1, Invariance, PTL

\* A Move that is alone on its keys never loses the object when its
\* destination is vacant, and otherwise only behind an object that HeadObject
\* takes for the copy (S3.Move, copyObjectByStreaming).
THEOREM MovesKeepContent == Spec => []MoveKeepsContent
  <1>1. Inv => MoveKeepsContent
    BY MoveInvImplies DEF Inv
  <1> QED
    BY <1>1, Invariance, PTL

\* The pool is closed only behind the last request or command, for any number
\* of listeners and jobs (Server.Stop, ConsoleApp.Run, Connector.Stop).
THEOREM ClosedAfterDrain == Spec => []DrainedBeforeClose
  <1>1. Inv => DrainedBeforeClose
    BY DEF Inv, LifeInv, Quiet, DrainedBeforeClose
  <1> QED
    BY <1>1, Invariance, PTL

\* ConsoleApp.Run reports each failure once and returns an error for it,
\* whatever the order of signals, results and failing hooks (ConsoleApp.Run).
THEOREM FailuresReported == Spec => []ConsoleReports
  <1>1. Inv => ConsoleReports
    BY DEF Inv
  <1> QED
    BY <1>1, Invariance, PTL

\* When whatever runs waits for a connection, each job holds one for every
\* call of Do but the one that waits, and no migration command holds any.
LEMMA BlockedHold ==
  ASSUME Inv, \A j \in Jobs : Running(j) => Waiting(j)
  PROVE  OpenUnits \subseteq Jobs \X (1..(MaxDepth - 1)) /\ Migrating = {}
  <1>1. ASSUME NEW j \in Jobs, NEW d \in Levels, d <= depth[j], frame[j][d].pc # "begin"
        PROVE  d \in 1..(MaxDepth - 1)
    <2>1. depth[j] \in 1..MaxDepth /\ d \in Nat /\ MaxDepth \in Nat
      BY <1>1, UowAssumption DEF Inv, UowTypes, Levels
    <2>2. res[j] = "running" /\ OneTask(j)
      BY <2>1 DEF Inv, UowInv, Stack
    <2>3. Running(j) /\ mig[j].pc # "conn"
      BY <2>2 DEF OneTask, Running, Fresh, Returned, Ended
    <2>4. frame[j][depth[j]].pc = "begin"
      BY <2>3 DEF Waiting, In, Top
    <2> QED
      BY <1>1, <2>1, <2>4 DEF Levels
  <1>2. ASSUME NEW j \in Jobs, mig[j].pc \in Holding PROVE FALSE
    <2>1. OneTask(j) /\ Stack(j) /\ depth[j] \in 0..MaxDepth /\ MaxDepth \in Nat
      BY UowAssumption DEF Inv, UowInv, UowTypes
    <2>2. res[j] = "none" /\ mv[j].pc = "idle" /\ depth[j] = 0
      BY <1>2, <2>1 DEF OneTask, Stack, Holding
    <2>3. Running(j) /\ ~Waiting(j)
      BY <1>2, <2>2 DEF Holding, Running, Fresh, Returned, Ended, Waiting, In
    <2> QED
      BY <2>3
  <1> QED
    BY <1>1, <1>2 DEF OpenUnits, Migrating

\* No set of jobs can block each other on the pool while it has room, for any
\* pool, any number of jobs and any depth of nested calls of Do: at most
\* MaxDepth - 1 connections for each job and the leaked ones are held while all
\* wait (unitOfWork.Do, Migrator.instance, Migrator.Fresh).
THEOREM PoolNeverBlocks == Spec => []NobodyBlocked
  <1>1. ASSUME Inv PROVE NobodyBlocked
    <2> SUFFICES ASSUME Roomy, \A j \in Jobs : Running(j) => Waiting(j)
                 PROVE  inUse < MaxOpen
      BY DEF NobodyBlocked
    <2> DEFINE Held == Jobs \X (1..(MaxDepth - 1))
    <2>1. OpenUnits \subseteq Held /\ Migrating = {}
      BY <1>1, BlockedHold
    <2>2. /\ IsFiniteSet(Jobs) /\ MaxDepth \in Nat \ {0} /\ MaxOpen \in Nat /\ leaked \in Nat
          /\ Cardinality(Jobs) \in Nat
      BY <1>1, AppAssumption, UowAssumption, PoolAssumption, FS_CardinalityType DEF Inv, MigTypeOK
    <2>3. IsFiniteSet(1..(MaxDepth - 1)) /\ Cardinality(1..(MaxDepth - 1)) = MaxDepth - 1
      <3>1. /\ 1 \in Int /\ MaxDepth - 1 \in Int
            /\ 1 > MaxDepth - 1 => MaxDepth - 1 = 0
        BY <2>2
      <3> QED
        BY <2>2, <3>1, FS_Interval
    <2>4. IsFiniteSet(Held) /\ Cardinality(Held) = Cardinality(Jobs) * (MaxDepth - 1)
      BY <2>2, <2>3, FS_Product
    <2>5. Cardinality(OpenUnits) <= Cardinality(Held)
      BY <2>1, <2>4, FS_Subset
    <2>6. Cardinality(Migrating) = 0
      BY <2>1, FS_EmptySet
    <2>7. inUse = Cardinality(OpenUnits) + leaked /\ Cardinality(OpenUnits) \in Nat
      BY <1>1, <2>2, <2>6, FiniteUsers DEF Inv, PoolAccounted
    <2>8. Cardinality(Held) \in Nat /\ leaked + Cardinality(Held) < MaxOpen
      BY <2>4, FS_CardinalityType DEF Roomy
    <2> HIDE DEF Held
    <2> QED
      BY <2>2, <2>5, <2>7, <2>8
  <1> QED
    BY <1>1, Invariance, PTL

=============================================================================
