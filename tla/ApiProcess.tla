----------------------------- MODULE ApiProcess -----------------------------
(***************************************************************************)
(* The api command: internal/app/api composes the supervisor of            *)
(* pkg/lifecycle with its two components, the ops server of pkg/ops and    *)
(* the rpc server of pkg/connectrpc, one database pool their handlers      *)
(* share, and the two flags that tell balancers to go away.                *)
(*                                                                         *)
(* ServeReturns of Supervisor becomes what the two Serve functions do: a   *)
(* listener goroutine, the select between its failure and the context, and *)
(* the drain that http.Server.Shutdown makes, bounded by a timer of its    *)
(* own.  A handler is one request; it may take any time, or for ever.      *)
(*                                                                         *)
(* net/http, database/sql and the telemetry exporter are external: a       *)
(* Shutdown returns when no request of the server is left or its context   *)
(* ends, whichever it sees first, and it ends no request; a pool that is   *)
(* being closed refuses new queries, and whether closing it waits for the  *)
(* connections that are out, as the comment on DB.Close says, is left open *)
(***************************************************************************)
EXTENDS Supervisor

CONSTANTS
    Handler       \* the requests of a run

\* Faulty Registered: the servers change places.
RegisteredRpcFirst == <<"rpc", "ops">>

Registered == <<"ops", "rpc">>

Server == {"ops", "rpc"}
IndexOf(s) == CHOOSE i \in Component : Registered[i] = s
Serving(s) == go[IndexOf(s)] = "serving"

ASSUME TwoServers == N = 2 /\ Hooks = 1

VARIABLES
    app,          \* where New or Run of the App is
    ready,        \* App.ready
    health,       \* the status grpchealth reports: every service, and ""
    port,         \* port[s]: the listener of the server
    errCh,        \* errCh[s]: what its listener goroutine has sent
    drain,        \* drain[s]: the timer of its shutdownCtx
    handler,      \* handler[h]: where request h is
    at,           \* at[h]: the server that serves it
    pool,         \* the database pool
    exporter,     \* the telemetry pipeline
    cut           \* history: servers whose Serve did not wait for its requests

supervisor == vars
servers == <<port, errCh, drain>>
requests == <<handler, at>>
flags == <<ready, health>>
process == <<app, pool, exporter>>
apiVars == <<supervisor, servers, requests, flags, process, cut>>

AppInit ==
    /\ Init
    /\ app = "new"
    /\ ready = FALSE
    /\ health = TRUE
    /\ port = [s \in Server |-> "unbound"]
    /\ errCh = [s \in Server |-> <<>>]
    /\ drain = [s \in Server |-> "off"]
    /\ handler = [h \in Handler |-> "idle"]
    /\ at = [h \in Handler |-> Nil]
    /\ pool = "none"
    /\ exporter = "none"
    /\ cut = {}

Up == app \in {"running", "closed"}

-----------------------------------------------------------------------------
(* New *)

SetupTelemetry ==
    /\ app = "new"
    /\ exporter = "none"
    /\ \/ exporter' = "running" /\ UNCHANGED app
       \/ app' = "failed" /\ UNCHANGED exporter
    /\ UNCHANGED <<supervisor, servers, requests, flags, pool, cut>>

\* database.Open: no pool, or one it closes itself when the ping fails.
OpenDatabase ==
    /\ app = "new"
    /\ exporter = "running" /\ pool = "none"
    /\ \/ pool' = "open" /\ UNCHANGED app
       \/ pool' \in {"none", "closed"} /\ app' = "failed"
    /\ UNCHANGED <<supervisor, servers, requests, flags, exporter, cut>>

\* connectrpc.New can refuse its configuration; the deferred function closes the pool.
BuildServers ==
    /\ app = "new"
    /\ pool = "open"
    /\ \/ app' = "built" /\ UNCHANGED pool
       \/ app' = "failed" /\ pool' = "closed"
    /\ UNCHANGED <<supervisor, servers, requests, flags, exporter, cut>>

\* App.Run up to the supervisor's.
BeginRun ==
    /\ app = "built"
    /\ app' = "running"
    /\ ready' = TRUE
    /\ UNCHANGED <<supervisor, servers, requests, health, pool, exporter, cut>>

-----------------------------------------------------------------------------
(* The supervisor, with the application's hook *)

\* The first of the hook's two stores.
FlipReady ==
    /\ pc = "hooks" /\ ran < Hooks
    /\ ready
    /\ ready' = FALSE
    /\ UNCHANGED <<supervisor, servers, requests, health, process, cut>>

\* Faulty FinishHook: only the HTTP probe learns of the shutdown.
ForgetHealth ==
    /\ ~ ready
    /\ RunHook
    /\ UNCHANGED <<servers, requests, flags, process, cut>>

\* rpcServer.SetServing(false), and the hook returns.
FinishHook ==
    /\ ~ ready
    /\ RunHook
    /\ health' = FALSE
    /\ UNCHANGED <<servers, requests, ready, process, cut>>

\* Every other step of Run.
SuperviseRun ==
    /\ Up
    /\ Start \/ BeginShutdown \/ BeginStop \/ Cancel \/ Collect \/ TimeOut
    /\ UNCHANGED <<servers, requests, flags, process, cut>>

SuperviseRoutines ==
    /\ Up
    /\ \E i \in Component : Goroutine(i)
    /\ UNCHANGED <<servers, requests, flags, process, cut>>

DeadlinePasses ==
    /\ Up
    /\ DeadlineFires
    /\ UNCHANGED <<servers, requests, flags, process, cut>>

\* A termination signal, from the moment Run listens for it.
Terminate ==
    /\ app = "running"
    /\ Signal
    /\ UNCHANGED <<servers, requests, flags, process, cut>>

-----------------------------------------------------------------------------
(* Serve of either server *)

Live(s) == {h \in Handler : at[h] = s /\ handler[h] \in {"running", "querying"}}

\* Serve of s returns err, and its component's goroutine reports it.
Returns(s, err) ==
    /\ ServeReturns(IndexOf(s))
    /\ result'[IndexOf(s)] = err
    /\ UNCHANGED <<servers, requests, flags, process>>

\* The listener goroutine binds, or fails to.
Listen(s) ==
    /\ Up /\ Serving(s)
    /\ port[s] = "unbound" /\ drain[s] = "off" /\ errCh[s] = <<>>
    /\ \/ port' = [port EXCEPT ![s] = "open"] /\ UNCHANGED errCh
       \/ errCh' = [errCh EXCEPT ![s] = <<"error">>] /\ UNCHANGED port
    /\ UNCHANGED <<supervisor, drain, requests, flags, process, cut>>

\* The listener stops accepting for a reason of its own.
AcceptFails(s) ==
    /\ Up /\ Serving(s)
    /\ port[s] = "open"
    /\ port' = [port EXCEPT ![s] = "closed"]
    /\ errCh' = [errCh EXCEPT ![s] = <<"error">>]
    /\ UNCHANGED <<supervisor, drain, requests, flags, process, cut>>

\* The select takes errCh: Serve returns without a Shutdown, whatever still runs.
ExitEarly(s) ==
    /\ Up /\ Serving(s)
    /\ drain[s] = "off" /\ errCh[s] # <<>>
    /\ Returns(s, Head(errCh[s]))
    /\ cut' = cut \cup {s}

\* The select takes ctx.Done: Shutdown closes the listener and the drain begins.
BeginDrain(s) ==
    /\ Up /\ Serving(s)
    /\ cancelled[IndexOf(s)] /\ drain[s] = "off"
    /\ drain' = [drain EXCEPT ![s] = "armed"]
    /\ port' = [port EXCEPT ![s] = "closed"]
    /\ UNCHANGED <<supervisor, errCh, requests, flags, process, cut>>

\* Faulty ListenerStops: a listener that failed reports again when it is shut down.
ListenerReportsTwice(s) ==
    /\ Up /\ drain[s] # "off" /\ Len(errCh[s]) < 2
    /\ errCh' = [errCh EXCEPT ![s] = Append(errCh[s], Nil)]
    /\ UNCHANGED <<supervisor, port, drain, requests, flags, process, cut>>

\* ErrServerClosed: the listener goroutine sends nil.
ListenerStops(s) ==
    /\ Up /\ drain[s] # "off" /\ errCh[s] = <<>>
    /\ errCh' = [errCh EXCEPT ![s] = <<Nil>>]
    /\ UNCHANGED <<supervisor, port, drain, requests, flags, process, cut>>

DrainTimeOut(s) ==
    /\ Up /\ drain[s] = "armed"
    /\ drain' = [drain EXCEPT ![s] = "fired"]
    /\ UNCHANGED <<supervisor, port, errCh, requests, flags, process, cut>>

\* Faulty Drained: Shutdown is not waited for.
DrainedAtOnce(s) ==
    /\ Up /\ Serving(s)
    /\ drain[s] # "off" /\ errCh[s] # <<>>
    /\ Returns(s, Head(errCh[s]))
    /\ UNCHANGED cut

\* Shutdown found no request left.
Drained(s) ==
    /\ Up /\ Serving(s)
    /\ drain[s] # "off" /\ errCh[s] # <<>>
    /\ Live(s) = {}
    /\ Returns(s, Head(errCh[s]))
    /\ UNCHANGED cut

\* Faulty DrainAbandoned: Serve returns what the listener goroutine sent, and no more.
DrainAbandonedQuietly(s) ==
    /\ Up /\ Serving(s)
    /\ drain[s] = "fired" /\ errCh[s] # <<>>
    /\ Returns(s, Head(errCh[s]))
    /\ cut' = cut \cup {s}

\* Shutdown gave up: its error is returned and the requests run on.
DrainAbandoned(s) ==
    /\ Up /\ Serving(s)
    /\ drain[s] = "fired" /\ errCh[s] # <<>>
    /\ Returns(s, "error")
    /\ cut' = cut \cup {s}

-----------------------------------------------------------------------------
(* Requests *)

AcceptRequest(h, s) ==
    /\ Up /\ port[s] = "open"
    /\ handler[h] = "idle"
    /\ handler' = [handler EXCEPT ![h] = "running"]
    /\ at' = [at EXCEPT ![h] = s]
    /\ UNCHANGED <<supervisor, servers, flags, process, cut>>

\* A handler needs the database: a statement of the rpc handlers, or the ping of
\* /readyz, which the drain check before it answers for once ready is off.
Query(h) ==
    /\ Up /\ handler[h] = "running"
    /\ at[h] = "ops" => ready
    /\ handler' = [handler EXCEPT ![h] = IF pool = "open" THEN "querying" ELSE "refused"]
    /\ UNCHANGED <<supervisor, servers, at, flags, process, cut>>

\* The statement is answered, or the deadline of its context ends it: every rpc call has
\* one, and so has a ping.
QueryReturns(h) ==
    /\ Up /\ handler[h] = "querying"
    /\ handler' = [handler EXCEPT ![h] = "running"]
    /\ UNCHANGED <<supervisor, servers, at, flags, process, cut>>

Answer(h) ==
    /\ Up /\ handler[h] = "running"
    /\ handler' = [handler EXCEPT ![h] = "answered"]
    /\ UNCHANGED <<supervisor, servers, at, flags, process, cut>>

-----------------------------------------------------------------------------
(* App.Run after the supervisor *)

\* Faulty CloseDatabase: an error of the supervisor's Run is returned at once.
CloseUnlessFailed ==
    /\ app = "running"
    /\ pc = "returned" /\ pool = "open"
    /\ \/ named = {} /\ pool' = "closed" /\ app' = "closed"
       \/ named # {} /\ app' = "exited" /\ UNCHANGED pool
    /\ UNCHANGED <<supervisor, servers, requests, flags, exporter, cut>>

\* From here on the pool refuses queries.  Close returns at once, or waits.
CloseDatabase ==
    /\ app = "running"
    /\ pc = "returned" /\ pool = "open"
    /\ \/ pool' = "closed" /\ app' = "closed"
       \/ pool' = "closing" /\ UNCHANGED app
    /\ UNCHANGED <<supervisor, servers, requests, flags, exporter, cut>>

\* The connections that were out are back.
CloseReturns ==
    /\ pool = "closing"
    /\ \A h \in Handler : handler[h] # "querying"
    /\ pool' = "closed"
    /\ app' = "closed"
    /\ UNCHANGED <<supervisor, servers, requests, flags, exporter, cut>>

\* Telemetry.Shutdown, bounded by telemetryFlushTimeout, and the process ends.
Flush ==
    /\ app = "closed"
    /\ exporter' = "stopped"
    /\ app' = "exited"
    /\ UNCHANGED <<supervisor, servers, requests, flags, pool, cut>>

Build == SetupTelemetry \/ OpenDatabase \/ BuildServers \/ BeginRun

Finish == CloseDatabase \/ CloseReturns \/ Flush

Listener(s) == Listen(s) \/ AcceptFails(s) \/ ListenerStops(s)

Serve(s) ==
    \/ ExitEarly(s) \/ BeginDrain(s) \/ DrainTimeOut(s) \/ Drained(s)
    \/ DrainAbandoned(s)

Request(h) ==
    \/ Query(h) \/ QueryReturns(h) \/ Answer(h)
    \/ \E s \in Server : AcceptRequest(h, s)

AppNext ==
    \/ Build
    \/ SuperviseRun \/ FlipReady \/ FinishHook
    \/ SuperviseRoutines \/ DeadlinePasses \/ Terminate
    \/ \E s \in Server : Listener(s) \/ Serve(s)
    \/ \E h \in Handler : Request(h)
    \/ Finish

\* The goroutines that are not waiting run, and the timers fire, the deadlines of the
\* statements among them (timeoutInterceptor, DB.Ping).  No request is assumed to end.
AppFairness ==
    /\ WF_apiVars(Build)
    /\ WF_apiVars(SuperviseRun \/ FlipReady \/ FinishHook)
    /\ WF_apiVars(SuperviseRoutines)
    /\ WF_apiVars(DeadlinePasses)
    /\ \A s \in Server : WF_apiVars(Serve(s)) /\ WF_apiVars(ListenerStops(s))
    /\ \A h \in Handler : WF_apiVars(QueryReturns(h))
    /\ WF_apiVars(Finish)

AppSpec == AppInit /\ [][AppNext]_apiVars /\ AppFairness

-----------------------------------------------------------------------------
(* Properties *)

\* The types of the state the application adds to the supervisor's.
AppTypeOK ==
    /\ TypeOK
    /\ app \in {"new", "built", "failed", "running", "closed", "exited"}
    /\ ready \in BOOLEAN /\ health \in BOOLEAN
    /\ port \in [Server -> {"unbound", "open", "closed"}]
    /\ errCh \in [Server -> {<<>>} \cup {<<err>> : err \in Error}]
    /\ drain \in [Server -> {"off", "armed", "fired"}]
    /\ handler \in [Handler -> {"idle", "running", "querying", "refused", "answered"}]
    /\ at \in [Handler -> Server \cup {Nil}]
    /\ pool \in {"none", "open", "closing", "closed"}
    /\ exporter \in {"none", "running", "stopped"}
    /\ cut \in SUBSET Server

\* The probe port is not asked to close while the rpc server still drains, unless Run
\* has given up on the drain.
ProbesOutliveTheDrain ==
    drain["ops"] # "off" => ~ Serving("rpc") \/ pc = "returned"

\* Before a shutdown closes a port, both the readiness probe and the gRPC health
\* service say that this instance leaves.
LeavesServiceFirst ==
    \A s \in Server : drain[s] # "off" => ~ ready /\ ~ health

\* A request that was accepted has the pool until it is answered, unless its server
\* stopped without waiting for it or Run timed out.
NoRequestIsCutShort ==
    \A h \in Handler :
        \/ handler[h] = "refused"
        \/ pool \in {"closing", "closed"} /\ handler[h] \in {"running", "querying"}
        => at[h] \in cut \/ named # {}

\* Nobody is cut short in silence: when the pool is closed under a request, or was refused
\* to it, Run has an error to return: of a listener that failed by itself, of a drain
\* that ran into its timer, or of the supervisor's timeout.
CutsAreReported ==
    pool \in {"closing", "closed"} /\ errs = {} /\ named = {} =>
        \A h \in Handler : handler[h] \in {"idle", "answered"}

\* Once New failed, a signal came, or a server stopped, the process ends with its pool
\* released, although its requests may run for ever and closing the pool may wait for
\* their statements: no way out forgets it, and what it waits for has a deadline.
ProcessExits ==
    (app = "failed" \/ ctxDone \/ \E s \in Server : go[IndexOf(s)] = "ended")
        ~> (app \in {"failed", "exited"} /\ pool \in {"none", "closed"})
=============================================================================
