----------------------------- MODULE AppProcess -----------------------------
(***************************************************************************)
(* One process of a service, from start to exit (concrete/app,             *)
(* concrete/echo/server.go, concrete/persistence/connector), composed with *)
(* what runs inside it: units of work, migrations and object moves.        *)
(*                                                                         *)
(* A server process takes requests on several listeners; a console process *)
(* (ConsoleApp.Run) runs one command.  Both are started and stopped by fx, *)
(* which is external: it calls the start hooks in order and, at the end or *)
(* after a failed start, the stop hooks of what was started in reverse,    *)
(* collecting their errors until the context of Stop ends.  The hooks are  *)
(* those of Sentry (Close), Connector and, in a server, Server.            *)
(***************************************************************************)
EXTENDS UnitOfWork, Migrator, ObjectMove, FiniteSets

CONSTANTS
    Main,                 \* the job a console process runs
    Services              \* the processes to look at: kind, work and bounds of each

ASSUME AppAssumption ==
    /\ IsFiniteSet(Jobs)
    /\ Main \in Jobs
    /\ Movers = Jobs
    /\ \A c \in Services :
           /\ c.kind \in {"server", "console"}
           /\ c.hosts \in Nat
           /\ c.programs \in [Jobs -> SUBSET (UseCases \union {"write", "migrator", "storage"})]
           /\ c.late \subseteq Late
           /\ c.uploads \subseteq Uploads
           /\ c.signals \in Nat

Phases == {"connect", "serve", "run", "shutdown", "closepool", "flush", "stopped", "exit", "killed"}
Failures == {"start", "command", "panic", "stop"}
Over == {"exit", "killed"}

VARIABLES
    service,              \* kind: server or console; hosts: number of its listeners;
                          \* programs[j]: the kinds of work j may be given;
                          \* late, uploads, signals: what may happen from outside (bounds)
    phase,                \* what the main goroutine does
    signals,              \* signals received
    reset,                \* signal.Reset has restored the default action
    srv,                  \* srv[s]: listener s
    next,                 \* the listener that Server.Stop shuts down next
    at,                   \* at[j]: the listener whose request j is, 0 for none; Main runs at 1
    failed,               \* the error that Run returns, "none", or "cancelled" for context.Canceled
    stopErr,              \* a stop hook failed, or the context of Stop ended
    \* Sentry
    captured,             \* captured[f]: times failure f was reported
    buffered,             \* reports not sent yet
    \* history
    failures              \* what went wrong in this process, cancellation apart

lifeVars == <<service, phase, signals, reset, failed, stopErr>>
listenVars == <<srv, next, at>>
reportVars == <<captured, buffered, failures>>
appVars == <<lifeVars, listenVars, reportVars>>
vars == <<poolVars, uowVars, migVars, moveVars, appVars>>

Listeners == 1..service.hosts   \* ServerConfig.Hosts
kind == service.kind

\* The types of the state, components included.
TypeOK ==
    /\ UowTypeOK
    /\ MigTypeOK
    /\ MoveTypeOK
    /\ service \in Services
    /\ phase \in Phases
    /\ signals \in Nat
    /\ reset \in BOOLEAN
    /\ srv \in [Listeners -> {"new", "starting", "listening", "failed", "shut"}]
    /\ next \in Nat
    /\ at \in [Jobs -> Nat]
    /\ failed \in Failures \union {"none", "cancelled"}
    /\ stopErr \in BOOLEAN
    /\ captured \in [Failures -> Nat]
    /\ buffered \in SUBSET Failures
    /\ failures \in SUBSET Failures

\* New has returned the connector, whose pool is open and unused.
Init ==
    /\ inUse = 0
    /\ closed = FALSE
    /\ UowInit
    /\ MigInit
    /\ MoveInit
    /\ service \in Services
    /\ pending = service.late
    /\ uploads = service.uploads
    /\ phase = "connect"
    /\ signals = 0
    /\ reset = FALSE
    /\ srv = [s \in Listeners |-> "new"]
    /\ next = 1
    /\ at = [j \in Jobs |-> 0]
    /\ failed = "none"
    /\ stopErr = FALSE
    /\ captured = [f \in Failures |-> 0]
    /\ buffered = {}
    /\ failures = {}

-----------------------------------------------------------------------------
(* Work *)

Fresh(j) == res[j] = "none" /\ mig[j].pc = "idle" /\ mv[j].pc = "idle"

\* Job j is given something to do.
Give(j) ==
    /\ Fresh(j)
    /\ \/ /\ \E u \in UseCases \intersect service.programs[j] : CallUseCase(j, u)
          /\ UNCHANGED <<migVars, moveVars>>
       \/ /\ "write" \in service.programs[j]
          /\ WriteOutside(j)
          /\ UNCHANGED <<migVars, moveVars>>
       \/ /\ "migrator" \in service.programs[j]
          /\ \E op \in Ops : CallMigrator(j, op)
          /\ UNCHANGED <<uowVars, moveVars>>
       \/ /\ "storage" \in service.programs[j]
          /\ \/ \E src, dst \in Keys : CallMove(j, src, dst)
             \/ \E k \in Keys : CallDelete(j, k)
          /\ UNCHANGED <<poolVars, uowVars, migVars>>

Failing(j) == res[j] = "error" \/ mig[j].err \/ mv[j].pc = "error"
Returned(j) == res[j] \in {"ok", "error"} \/ mig[j].pc = "done" \/ mv[j].pc \in Ended
Running(j) == ~Fresh(j) /\ ~Returned(j)

Alive == phase \notin Over

\* A step of the work that j was given.
Work(j) ==
    /\ Alive
    /\ \/ UowStep(j) /\ UNCHANGED <<migVars, moveVars>>
       \/ MigStep(j) /\ UNCHANGED <<uowVars, moveVars>>
       \/ MoveStep(j) /\ UNCHANGED <<poolVars, uowVars, migVars>>
    /\ UNCHANGED appVars

\* Another part of the service registers a subscriber.
Register ==
    /\ Alive
    /\ \E e \in Events, h \in Handlers : Subscribe(e, h)
    /\ UNCHANGED <<migVars, moveVars, appVars>>

\* A client uploads an object, whether the process lives or not.
ClientUploads ==
    /\ \E k \in Keys, c \in Uploads : Upload(k, c)
    /\ UNCHANGED <<poolVars, uowVars, migVars, appVars>>

workVars == <<poolVars, uowVars, migVars, moveVars>>

-----------------------------------------------------------------------------
(* Reporting *)

\* captureConsoleError, captureConsolePanic
Capture(f) ==
    /\ captured' = [captured EXCEPT ![f] = @ + 1]
    /\ buffered' = buffered \union {f}

\* Something goes wrong, unless e is "none" or a cancellation.
Note(e) == failures' = failures \union ({e} \intersect Failures)

\* What failure f may look like: once a signal has cancelled the context of a
\* console process, it may be context.Canceled.
ErrorsOf(f) == {f} \union (IF kind = "console" /\ signals > 0 THEN {"cancelled"} ELSE {})

-----------------------------------------------------------------------------
(* Start *)

\* Connector.Start: the ping succeeds, or is left out in a test that uses the pool already.
Connect ==
    /\ phase = "connect"
    /\ phase' = IF kind = "server" THEN "serve" ELSE "run"
    /\ UNCHANGED <<workVars, service, signals, reset, failed, stopErr, listenVars, reportVars>>

\* Connector.Start gives up after its timeout, or the start context ends; fx
\* calls the stop hooks of what was started in front of it, unless it ended.
ConnectFails ==
    /\ phase = "connect"
    /\ phase' \in {"flush", "stopped"}
    /\ \E e \in ErrorsOf("start") : failed' = e /\ Note(e)
    /\ UNCHANGED <<workVars, service, signals, reset, stopErr, listenVars, captured, buffered>>

\* Server.Start: one goroutine for each listener.
ServerStart ==
    /\ phase = "serve"
    /\ srv' = [s \in Listeners |-> "starting"]
    /\ phase' = "run"
    /\ UNCHANGED <<workVars, service, signals, reset, failed, stopErr, next, at, reportVars>>

\* Server.Start: the start context has ended already.
ServerStartFails ==
    /\ phase = "serve"
    /\ phase' = "closepool"
    /\ failed' = "start"
    /\ Note("start")
    /\ UNCHANGED <<workVars, service, signals, reset, stopErr, listenVars, captured, buffered>>

\* ListenAndServe, which returns at once when Shutdown came first.
Listen(s) ==
    /\ Alive
    /\ srv[s] = "starting"
    /\ srv' = [srv EXCEPT ![s] = "listening"]
    /\ UNCHANGED <<workVars, lifeVars, next, at, reportVars>>

\* The address cannot be used: the error is logged and the process goes on.
ListenFails(s) ==
    /\ Alive
    /\ srv[s] = "starting"
    /\ srv' = [srv EXCEPT ![s] = "failed"]
    /\ UNCHANGED <<workVars, lifeVars, next, at, reportVars>>

-----------------------------------------------------------------------------
(* Run *)

\* A request arrives at listener s.
Request(s, j) ==
    /\ Alive
    /\ srv[s] = "listening"
    /\ Give(j)
    /\ at' = [at EXCEPT ![j] = s]
    /\ UNCHANGED <<lifeVars, srv, next, reportVars>>

Respond(j) ==
    /\ Alive
    /\ kind = "server"
    /\ at[j] # 0
    /\ Returned(j)
    /\ at' = [at EXCEPT ![j] = 0]
    /\ UNCHANGED <<workVars, lifeVars, srv, next, reportVars>>

\* The goroutine of ConsoleApp.Run starts the command.
Execute ==
    /\ kind = "console"
    /\ phase = "run"
    /\ Give(Main)
    /\ at' = [at EXCEPT ![Main] = 1]
    /\ UNCHANGED <<lifeVars, srv, next, reportVars>>

\* A signal ends fx.App.Run of a server; in a console process it cancels the
\* context, or ends the process once signal.Reset has been called.
Signal ==
    /\ Alive
    /\ signals < service.signals
    /\ signals' = signals + 1
    /\ phase' = IF reset THEN "killed"
                ELSE IF kind = "server" /\ phase = "run" THEN "shutdown"
                ELSE phase
    /\ UNCHANGED <<workVars, service, reset, failed, stopErr, listenVars, reportVars>>

\* A signal that came while fx was still starting stops the server after the start.
LateStop ==
    /\ kind = "server"
    /\ phase = "run"
    /\ signals > 0
    /\ phase' = "shutdown"
    /\ UNCHANGED <<workVars, service, signals, reset, failed, stopErr, listenVars, reportVars>>

\* Run sees the cancelled context before the result and gives the next signal its default action.
Rearm ==
    /\ kind = "console"
    /\ phase = "run"
    /\ signals > 0
    /\ ~reset
    /\ reset' = TRUE
    /\ UNCHANGED <<workVars, service, phase, signals, failed, stopErr, listenVars, reportVars>>

\* The outcomes of the command: nil or an error from Execute, or a panic.
Outcomes(j) == {"panic"} \union (IF Failing(j) THEN ErrorsOf("command") ELSE {"none"})

\* Variant: a panic is reported when it is recovered and again by Run.
CaptureTwice(e) ==
    /\ captured' = [f \in Failures |-> captured[f] + (IF f # e THEN 0 ELSE IF e = "panic" THEN 2 ELSE 1)]
    /\ buffered' = buffered \union ({e} \intersect Failures)

\* What is reported of a command that ended with e: consoleResult.captured
\* says that the deferred recover has done it.
CaptureResult(e) ==
    IF e \in {"none", "cancelled"} THEN UNCHANGED <<captured, buffered>> ELSE Capture(e)

\* Run receives the result of the command; app.Stop begins.
CommandEnds ==
    /\ kind = "console"
    /\ phase = "run"
    /\ Returned(Main)
    /\ phase' = "closepool"
    /\ at' = [at EXCEPT ![Main] = 0]
    /\ \E e \in Outcomes(Main) :
           /\ failed' = e
           /\ CaptureResult(e)
           /\ Note(e)
    /\ UNCHANGED <<workVars, service, signals, reset, stopErr, srv, next>>

-----------------------------------------------------------------------------
(* Stop *)

InFlight(s) == {j \in Jobs : at[j] = s}

\* Variant: Shutdown waits for a listener that has not opened.
ShutOpenListener ==
    /\ phase = "shutdown"
    /\ next \in Listeners
    /\ srv[next] = "listening"
    /\ srv' = [srv EXCEPT ![next] = "shut"]
    /\ UNCHANGED <<workVars, lifeVars, next, at, reportVars>>

\* Server.Stop: Shutdown closes the listener ...
ShutListener ==
    /\ phase = "shutdown"
    /\ next \in Listeners
    /\ srv[next] # "shut"
    /\ srv' = [srv EXCEPT ![next] = "shut"]
    /\ UNCHANGED <<workVars, lifeVars, next, at, reportVars>>

\* Variant: http.Server.Close in the place of Shutdown, which does not wait.
NotDrained ==
    /\ phase = "shutdown"
    /\ next \in Listeners
    /\ srv[next] = "shut"
    /\ next' = next + 1
    /\ UNCHANGED <<workVars, lifeVars, srv, at, reportVars>>

\* ... and waits for its requests.
Drained ==
    /\ phase = "shutdown"
    /\ next \in Listeners
    /\ srv[next] = "shut"
    /\ InFlight(next) = {}
    /\ next' = next + 1
    /\ UNCHANGED <<workVars, lifeVars, srv, at, reportVars>>

ServerStopped ==
    /\ phase = "shutdown"
    /\ next = service.hosts + 1
    /\ phase' = "closepool"
    /\ UNCHANGED <<workVars, service, signals, reset, failed, stopErr, listenVars, reportVars>>

\* Shutdown returns an error and Stop with it: the listeners behind stay
\* open.  fx goes on to the next hook unless the context has ended.
ShutdownFails ==
    /\ phase = "shutdown"
    /\ next \in Listeners
    /\ srv[next] = "shut"
    /\ stopErr' = TRUE
    /\ phase' \in {"closepool", "stopped"}
    /\ Note("stop")
    /\ UNCHANGED <<workVars, service, signals, reset, failed, listenVars, captured, buffered>>

\* Connector.Stop
ConnectorStop ==
    /\ phase = "closepool"
    /\ ClosePool
    /\ phase' = "flush"
    /\ UNCHANGED <<uowVars, migVars, moveVars, service, signals, reset, failed, stopErr, listenVars, reportVars>>

\* db.Close fails, or the context of Stop has ended and the hooks that are left are skipped.
ConnectorStopFails ==
    /\ phase = "closepool"
    /\ stopErr' = TRUE
    /\ Note("stop")
    /\ \/ ClosePool /\ phase' = "flush"
       \/ UNCHANGED poolVars /\ phase' = "stopped"
    /\ UNCHANGED <<uowVars, migVars, moveVars, service, signals, reset, failed, listenVars, captured, buffered>>

\* sentry.Close
SentryClose ==
    /\ phase = "flush"
    /\ buffered' = {}
    /\ phase' = "stopped"
    /\ UNCHANGED <<workVars, service, signals, reset, failed, stopErr, listenVars, captured, failures>>

\* fx has stopped what was started.  Run reports a start that failed, or a
\* stop that failed, flushes, and returns: the error of the command comes
\* before that of the stop.
Exit ==
    /\ phase = "stopped"
    /\ phase' = "exit"
    /\ \/ /\ kind = "console" /\ failed = "start"
          /\ captured' = [captured EXCEPT !["start"] = @ + 1]
          /\ buffered' = {}
          /\ UNCHANGED failed
       \/ /\ kind = "console" /\ failed # "start" /\ stopErr
          /\ captured' = [captured EXCEPT !["stop"] = @ + 1]
          /\ buffered' = {}
          /\ failed' = IF failed = "none" THEN "stop" ELSE failed
       \/ /\ kind = "server" \/ (failed # "start" /\ ~stopErr)
          /\ UNCHANGED <<captured, buffered, failed>>
    /\ UNCHANGED <<workVars, service, signals, reset, stopErr, listenVars, failures>>

-----------------------------------------------------------------------------

Start == Connect \/ ConnectFails \/ ServerStart \/ ServerStartFails
Stop ==
    \/ ShutListener \/ Drained \/ ServerStopped \/ ShutdownFails
    \/ ConnectorStop \/ ConnectorStopFails \/ SentryClose \/ Exit

Next ==
    \/ Start \/ Stop \/ LateStop \/ Signal \/ Rearm \/ Execute \/ CommandEnds
    \/ Register \/ ClientUploads
    \/ \E s \in Listeners : Listen(s) \/ ListenFails(s) \/ \E j \in Jobs : Request(s, j)
    \/ \E j \in Jobs : Work(j) \/ Respond(j)

Spec == Init /\ [][Next]_vars

\* What a goroutine does when nothing fails.  It waits for a connection until
\* it gets one or the pool is closed; requests to the object store return.
Proceed(j) ==
    /\ Alive
    /\ \/ /\ UowProgress(j) \/ (closed /\ BeginFails(j))
          /\ UNCHANGED <<migVars, moveVars>>
       \/ /\ MigProgress(j) \/ (closed /\ ConnFails(j))
          /\ UNCHANGED <<uowVars, moveVars>>
       \/ /\ MoveStep(j)
          /\ UNCHANGED <<poolVars, uowVars, migVars>>
    /\ UNCHANGED appVars

\* What the main goroutine does when no timeout cuts a Stop short.
MainProceeds ==
    \/ Start \/ LateStop \/ Execute \/ CommandEnds
    \/ ShutListener \/ Drained \/ ServerStopped \/ ConnectorStop \/ SentryClose \/ Exit

FairSpec ==
    /\ Spec
    /\ WF_vars(MainProceeds)
    /\ \A j \in Jobs : WF_vars(Proceed(j)) /\ WF_vars(Respond(j))

-----------------------------------------------------------------------------
(* Properties *)

\* Every connection in use belongs to an open transaction or to a migration
\* command that will give it back, except one for each time that the
\* migration files could not be read (unitOfWork.Do, Migrator.instance,
\* close, Fresh).
PoolAccounted == inUse = Cardinality(OpenUnits) + Cardinality(Migrating) + leaked

\* Unless Server.Stop failed, the pool is closed only when no listener takes
\* requests and no request, and no command, is being served: Shutdown comes
\* first, and a listener that has not opened yet never opens (Server.Stop,
\* Server.Start, ConsoleApp.Run, Connector.Stop).
DrainedBeforeClose ==
    closed /\ ~stopErr =>
        /\ \A s \in Listeners : srv[s] \in {"new", "shut"}
        /\ \A j \in Jobs : at[j] = 0 /\ ~Running(j)

\* When ConsoleApp.Run returns, everything that went wrong has been reported
\* once and sent, and Run's error tells of it: the start, then the command,
\* then the stop (ConsoleApp.Run, captureConsoleError, captureConsolePanic,
\* flushConsoleSentry, sentry.Close).
ConsoleReports ==
    kind = "console" /\ phase = "exit" =>
        /\ \A f \in Failures : captured[f] = IF f \in failures THEN 1 ELSE 0
        /\ buffered = {}
        /\ failures # {} => failed # "none"
        /\ failed = "stop" => failures = {"stop"}

\* The pool has room: even when every job holds a connection at each level but
\* the last, one is left.
Roomy == leaked + Cardinality(Jobs) * (MaxDepth - 1) < MaxOpen

\* j waits for a connection: in a call of Do, or in front of a migration command.
Waiting(j) == In(j, "begin") \/ mig[j].pc = "conn"

\* While the pool has room, the jobs cannot block each other: when whatever
\* runs waits for a connection, also calls of Do made inside a transaction
\* that keeps its own, one is free (unitOfWork.Do, Migrator.instance,
\* Migrator.Fresh).
NobodyBlocked == Roomy /\ (\A j \in Jobs : Running(j) => Waiting(j)) => inUse < MaxOpen

\* While the pool has room, no unit of work, nested ones included, no
\* migration and no move waits for ever: jobs that hold a connection and wait
\* for another do not block each other (unitOfWork.Do, Migrator.instance,
\* Migrator.Fresh, S3.Move).
CommandsReturn ==
    \A j \in Jobs : Running(j) ~> (Returned(j) \/ ~Alive \/ ~Roomy)

\* A console process ends, and a server ends after a signal, without the
\* timeout of Stop: Shutdown waits for requests that all return, and the
\* command is waited for after a signal too (ConsoleApp.Run, Server.Stop).
ProcessEnds ==
    (signals > 0 \/ kind = "console") ~> (~Alive \/ ~Roomy)
=============================================================================
