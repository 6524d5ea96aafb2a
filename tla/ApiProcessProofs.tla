-------------------------- MODULE ApiProcessProofs --------------------------
(***************************************************************************)
(* For any number of requests: the application keeps what its supervisor   *)
(* promises, says that it leaves before it closes a port, closes the probe *)
(* port last, and keeps the pool open for the requests it accepted.        *)
(*                                                                         *)
(* The first step is that every step of the application is one of the      *)
(* supervisor's or none (AppImplementsSupervisor), so that everything      *)
(* proved of the supervisor holds here.  The rest of the invariant ties    *)
(* the application's state to the supervisor's: where the command is       *)
(* (Stages), what the hook has told (Told), what a drain has closed        *)
(* (Drains), what a server that has returned leaves behind (Settled), and  *)
(* what it says of that (Reported).                                        *)
(***************************************************************************)
EXTENDS ApiProcess, SupervisorProofs

InHand(h) == handler[h] \in {"running", "querying"}

\* How far the command has come, beside the supervisor's run.
Stages ==
    /\ ~ Up /\ app # "exited" =>
          /\ pc = "start" /\ ran = 0
          /\ \A h \in Handler : handler[h] = "idle"
    /\ app = "built" => pool = "open"
    /\ app = "running" => pool \in {"open", "closing"}
    /\ pool = "closing" => app = "running" /\ pc = "returned"
    /\ app \in {"closed", "exited"} => pool = "closed" /\ pc = "returned"

\* The hook has told both kinds of probe by the time it is done.
Told == ran > 0 => ~ ready /\ ~ health

\* A server drains when its context is cancelled, and it is deaf from then on.
Drains ==
    \A s \in Server : drain[s] # "off" => cancelled[IndexOf(s)] /\ port[s] = "closed"

\* A server that has returned has no request left, unless it did not wait.
Settled ==
    \A s \in Server :
        go[IndexOf(s)] \notin {"none", "serving"} /\ s \notin cut =>
            /\ port[s] = "closed"
            /\ \A h \in Handler : at[h] = s => ~ InHand(h)

Requests ==
    \A h \in Handler :
        /\ InHand(h) => at[h] \in Server
        /\ handler[h] = "refused" => at[h] \in cut \/ named # {}

\* A listener that reports while its server does not drain has failed, and a server that
\* did not wait has returned an error.
Reported ==
    /\ \A s \in Server : drain[s] = "off" /\ errCh[s] # <<>> => errCh[s] = <<"error">>
    /\ \A s \in cut : /\ result[IndexOf(s)] = "error"
                      /\ go[IndexOf(s)] \notin {"none", "serving"}

AppInv ==
    /\ AppTypeOK
    /\ Inv
    /\ Stages
    /\ Told
    /\ Drains
    /\ Settled
    /\ Reported
    /\ Requests

-----------------------------------------------------------------------------
(* The refinement *)

LEMMA IndexOfServer ==
    /\ IndexOf("ops") = 1 /\ IndexOf("rpc") = 2
    /\ Component = {1, 2}
    /\ \A s \in Server : IndexOf(s) \in Component
    /\ \A s, t \in Server : IndexOf(s) = IndexOf(t) => s = t
<1>1. Component = {1, 2}
  BY TwoServers DEF Component
<1>2. Registered[1] = "ops" /\ Registered[2] = "rpc" /\ "ops" # "rpc"
  BY DEF Registered
<1>3. IndexOf("ops") = 1
  BY <1>1, <1>2 DEF IndexOf
<1>4. IndexOf("rpc") = 2
  BY <1>1, <1>2 DEF IndexOf
<1> QED BY <1>1, <1>3, <1>4 DEF Server

\* The steps of a part of the application that the supervisor does not see.
Unseen ==
    \/ Build \/ FlipReady \/ Finish
    \/ \E s \in Server : Listener(s) \/ BeginDrain(s) \/ DrainTimeOut(s)
    \/ \E h \in Handler : Request(h)

LEMMA UnseenLeavesSupervisor == Unseen => UNCHANGED vars
BY DEF Unseen, Build, SetupTelemetry, OpenDatabase, BuildServers, BeginRun, FlipReady, Finish,
       CloseDatabase, CloseReturns, Flush, Listener, Listen, AcceptFails, ListenerStops, BeginDrain,
       DrainTimeOut, Request, Query, QueryReturns, Answer, AcceptRequest, supervisor

\* A server's Serve returns.
Ends(s) == ExitEarly(s) \/ Drained(s) \/ DrainAbandoned(s)

LEMMA EndsIsServeReturns ==
    ASSUME NEW s \in Server, Ends(s) PROVE ServeReturns(IndexOf(s))
BY DEF Ends, ExitEarly, Drained, DrainAbandoned, Returns

LEMMA StepImplements == [AppNext]_apiVars => [Next]_vars
<1> SUFFICES ASSUME AppNext PROVE Next \/ UNCHANGED vars
  BY DEF apiVars, supervisor
<1>1. CASE Unseen
  BY <1>1, UnseenLeavesSupervisor
<1>2. CASE SuperviseRun \/ FinishHook
  BY <1>2 DEF SuperviseRun, FinishHook, Next, Run
<1>3. CASE SuperviseRoutines \/ DeadlinePasses \/ Terminate
  BY <1>3 DEF SuperviseRoutines, DeadlinePasses, Terminate, Next
<1>4. ASSUME NEW s \in Server, Ends(s) PROVE Next
  BY <1>4, EndsIsServeReturns, IndexOfServer DEF Next
<1> QED BY <1>1, <1>2, <1>3, <1>4 DEF AppNext, Unseen, Serve, Ends, Listener

\* What the supervisor never takes back.
LEMMA SupervisorGrows ==
    ASSUME Inv, [Next]_vars
    PROVE  /\ \A i \in Component : cancelled[i] => cancelled'[i]
           /\ pc = "returned" => pc' = "returned"
           /\ named # {} => named' # {}
<1> USE DEF Inv, TypeOK
<1>1. CASE Start \/ BeginShutdown \/ RunHook \/ BeginStop
  BY <1>1 DEF Start, BeginShutdown, RunHook, BeginStop
<1>2. CASE Cancel
  BY <1>2 DEF Cancel
<1>3. CASE Collect \/ TimeOut
  BY <1>3 DEF Collect, TimeOut, Return, Progress
<1>4. CASE Signal \/ DeadlineFires \/ UNCHANGED vars
  BY <1>4 DEF Signal, DeadlineFires, run, vars
<1>5. ASSUME NEW i \in Component, ServeReturns(i) \/ Goroutine(i)
      PROVE  UNCHANGED run
  BY <1>5 DEF ServeReturns, Goroutine, Report, Announce
<1> QED BY <1>1, <1>2, <1>3, <1>4, <1>5 DEF Next, Run, run

-----------------------------------------------------------------------------
(* The invariant *)

LEMMA AppInitInv == AppInit => AppInv
<1> SUFFICES ASSUME AppInit PROVE AppInv
  OBVIOUS
<1>1. Inv
  BY InitInv DEF AppInit
<1>2. AppTypeOK
  BY <1>1 DEF AppInit, AppTypeOK, Inv
<1>3. Stages /\ Told
  BY DEF AppInit, Init, Stages, Told, Up
<1>4. Drains /\ Requests /\ Reported
  BY DEF AppInit, Drains, Requests, Reported, InHand
<1>5. Settled
  BY IndexOfServer DEF AppInit, Init, Settled
<1> QED BY <1>1, <1>2, <1>3, <1>4, <1>5 DEF AppInv

\* The supervisor's part of a step.
LEMMA SupervisorKept ==
    ASSUME AppInv, [AppNext]_apiVars
    PROVE  /\ Inv' /\ TypeOK'
           /\ \A i \in Component : cancelled[i] => cancelled'[i]
           /\ pc = "returned" => pc' = "returned"
           /\ named # {} => named' # {}
<1>1. [Next]_vars /\ Inv
  BY StepImplements DEF AppInv
<1>2. Inv'
  BY <1>1, NextInv
<1> QED BY <1>1, <1>2, SupervisorGrows DEF Inv

\* New, and Run up to the supervisor's.
LEMMA BuildKeeps ==
    ASSUME AppInv, Build PROVE AppInv'
<1>1. /\ UNCHANGED <<vars, port, errCh, drain, handler, at, health, cut>>
      /\ app \in {"new", "built"}
  BY DEF Build, SetupTelemetry, OpenDatabase, BuildServers, BeginRun, supervisor, servers,
         requests, flags
<1>2. Inv'
  BY <1>1, NextInv DEF AppInv
<1>3. AppTypeOK'
  BY <1>1, <1>2 DEF AppInv, AppTypeOK, Inv, Build, SetupTelemetry, OpenDatabase, BuildServers,
                    BeginRun, flags
<1>4. Stages'
  BY <1>1 DEF AppInv, Stages, Up, Build, SetupTelemetry, OpenDatabase, BuildServers, BeginRun,
              vars
<1>5. Told'
  BY <1>1 DEF AppInv, AppTypeOK, Inv, TypeOK, Stages, Told, Up, Build, SetupTelemetry,
              OpenDatabase, BuildServers, BeginRun, vars, flags
<1>6. Drains' /\ Settled' /\ Reported' /\ Requests'
  BY <1>1 DEF AppInv, Drains, Settled, Reported, Requests, InHand, vars
<1> QED BY <1>2, <1>3, <1>4, <1>5, <1>6 DEF AppInv

\* The hook tells one kind of probe after the other.
LEMMA HookKeeps ==
    ASSUME AppInv, FlipReady \/ FinishHook PROVE AppInv'
<1>1. /\ UNCHANGED <<port, errCh, drain, handler, at, app, pool, exporter, cut>>
      /\ pc = "hooks"
  BY DEF FlipReady, FinishHook, RunHook, servers, requests, process
<1>2. UNCHANGED <<pc, cancelled, go, result, named>>
  BY DEF FlipReady, FinishHook, RunHook, supervisor, vars, routines
<1>3. Inv'
  BY SupervisorKept DEF AppNext
<1>4. AppTypeOK'
  BY <1>1, <1>3 DEF AppInv, AppTypeOK, Inv, FlipReady, FinishHook
<1>5. Stages'
  BY <1>1, <1>2 DEF AppInv, Stages, Up
<1>6. Told'
  BY TwoServers DEF AppInv, Inv, TypeOK, Told, FlipReady, FinishHook, RunHook, supervisor, vars
<1>7. Drains' /\ Settled' /\ Reported' /\ Requests'
  BY <1>1, <1>2 DEF AppInv, Drains, Settled, Reported, Requests, InHand
<1> QED BY <1>3, <1>4, <1>5, <1>6, <1>7 DEF AppInv

\* The supervisor's other steps end no Serve.
LEMMA SupervisorStepKeeps ==
    ASSUME AppInv, SuperviseRun \/ SuperviseRoutines \/ DeadlinePasses \/ Terminate
    PROVE  AppInv'
<1>1. /\ UNCHANGED <<port, errCh, drain, handler, at, ready, health, app, pool, exporter, cut>>
      /\ Up
  BY DEF SuperviseRun, SuperviseRoutines, DeadlinePasses, Terminate, servers, requests, flags,
         process, Up
<1>2. /\ Inv' /\ \A i \in Component : cancelled[i] => cancelled'[i]
      /\ pc = "returned" => pc' = "returned"
      /\ named # {} => named' # {}
  BY SupervisorKept DEF AppNext
<1>3. ran' = ran /\ result' = result
  BY DEF SuperviseRun, SuperviseRoutines, DeadlinePasses, Terminate, Start, BeginShutdown,
         BeginStop, Cancel, Collect, TimeOut, Goroutine, Report, Announce, Signal,
         DeadlineFires, run, routines
<1>4. \A i \in Component : go'[i] \notin {"none", "serving"} <=> go[i] \notin {"none", "serving"}
  <2>1. CASE Start
    BY <2>1, TwoServers DEF AppInv, Inv, TypeOK, Progress, Component, Start
  <2>2. ASSUME NEW i \in Component, Goroutine(i)
        PROVE  go[i] \in {"reporting", "announcing"} /\ go'[i] \in {"announcing", "ended"}
               /\ \A j \in Component : j # i => go'[j] = go[j]
    BY <2>2 DEF AppInv, Inv, TypeOK, Goroutine, Report, Announce
  <2>3. CASE ~ Start /\ ~ SuperviseRoutines
    <3>1. go' = go
      BY <2>3 DEF SuperviseRun, DeadlinePasses, Terminate, BeginShutdown, BeginStop, Cancel,
             Collect, TimeOut, Signal, DeadlineFires, routines
    <3> QED BY <3>1
  <2> QED BY <2>1, <2>2, <2>3 DEF SuperviseRoutines
<1>5. AppTypeOK'
  BY <1>1, <1>2 DEF AppInv, AppTypeOK, Inv
<1>6. Stages' /\ Told'
  BY <1>1, <1>2, <1>3 DEF AppInv, Stages, Told, Up
<1>7. Drains'
  BY <1>1, <1>2, IndexOfServer DEF AppInv, Drains
<1>8. Settled'
  BY <1>1, <1>4, IndexOfServer DEF AppInv, Settled, InHand
<1>9. Requests'
  BY <1>1, <1>2 DEF AppInv, Requests, InHand
<1>10. Reported'
  BY <1>1, <1>3, <1>4, IndexOfServer DEF AppInv, AppTypeOK, Reported
<1> QED BY <1>2, <1>5, <1>6, <1>7, <1>8, <1>9, <1>10 DEF AppInv

\* A listener and its drain, while Serve goes on.
LEMMA ListenerKeeps ==
    ASSUME AppInv, NEW s \in Server, Listener(s) \/ BeginDrain(s) \/ DrainTimeOut(s)
    PROVE  AppInv'
<1>1. /\ UNCHANGED <<vars, handler, at, ready, health, app, pool, exporter, cut>>
      /\ Up
  BY DEF Listener, Listen, AcceptFails, ListenerStops, BeginDrain, DrainTimeOut, supervisor,
         requests, flags, process, Up
<1>2. Inv'
  BY <1>1, NextInv DEF AppInv
<1>3. AppTypeOK'
  <2>1. <<"error">> \in {<<err>> : err \in Error} /\ <<Nil>> \in {<<err>> : err \in Error}
    BY DEF Error
  <2>2. port' \in [Server -> {"unbound", "open", "closed"}]
    BY DEF AppInv, AppTypeOK, Listener, Listen, AcceptFails, ListenerStops, BeginDrain,
           DrainTimeOut
  <2>3. errCh' \in [Server -> {<<>>} \cup {<<err>> : err \in Error}]
    BY <2>1 DEF AppInv, AppTypeOK, Listener, Listen, AcceptFails, ListenerStops, BeginDrain,
                DrainTimeOut
  <2>4. drain' \in [Server -> {"off", "armed", "fired"}]
    BY DEF AppInv, AppTypeOK, Listener, Listen, AcceptFails, ListenerStops, BeginDrain,
           DrainTimeOut
  <2> QED BY <1>1, <1>2, <2>2, <2>3, <2>4 DEF AppInv, AppTypeOK, Inv
<1>4. Stages' /\ Told' /\ Requests'
  BY <1>1 DEF AppInv, Stages, Told, Requests, InHand, Up, vars
<1>5. Drains'
  <2>1. CASE Listener(s)
    BY <1>1, <2>1 DEF AppInv, AppTypeOK, Drains, Listener, Listen, AcceptFails, ListenerStops,
                      vars
  <2>2. CASE BeginDrain(s) \/ DrainTimeOut(s)
    BY <1>1, <2>2 DEF AppInv, AppTypeOK, Drains, BeginDrain, DrainTimeOut, vars
  <2> QED BY <2>1, <2>2
<1>6. Settled'
  BY <1>1, IndexOfServer
     DEF AppInv, AppTypeOK, Settled, Serving, Listener, Listen, AcceptFails, ListenerStops,
         BeginDrain, DrainTimeOut, vars, InHand
<1>7. Reported'
  BY <1>1 DEF AppInv, AppTypeOK, Reported, Listener, Listen, AcceptFails, ListenerStops,
              BeginDrain, DrainTimeOut, vars
<1> QED BY <1>2, <1>3, <1>4, <1>5, <1>6, <1>7 DEF AppInv

\* Serve returns: after the drain, or counted among those that did not wait.
LEMMA EndsKeeps ==
    ASSUME AppInv, NEW s \in Server, Ends(s)
    PROVE  AppInv'
<1>1. /\ UNCHANGED <<port, errCh, drain, handler, at, ready, health, app, pool, exporter>>
      /\ cut' = cut \cup {s} \/ (cut' = cut /\ Drained(s))
      /\ ServeReturns(IndexOf(s)) /\ Up
  BY EndsIsServeReturns
     DEF Ends, ExitEarly, Drained, DrainAbandoned, Returns, servers, requests, flags, process, Up
<1>2. /\ UNCHANGED <<pc, ran, cancelled, named>>
      /\ go' = [go EXCEPT ![IndexOf(s)] = "reporting"]
  BY <1>1 DEF ServeReturns, run
<1>3. Next /\ Inv'
  BY <1>1, IndexOfServer, NextInv DEF AppInv, Next
<1>4. AppTypeOK'
  BY <1>1, <1>3 DEF AppInv, AppTypeOK, Inv
<1>5. Stages' /\ Told' /\ Drains'
  BY <1>1, <1>2 DEF AppInv, Stages, Told, Drains, Up
<1>6. Requests'
  BY <1>1, <1>2 DEF AppInv, Requests, InHand
<1>7. \A t \in Server : t # s => go'[IndexOf(t)] = go[IndexOf(t)]
  BY <1>2, IndexOfServer DEF AppInv, Inv, TypeOK
<1>8. s \notin cut' => port[s] = "closed" /\ \A h \in Handler : at[h] = s => ~ InHand(h)
  <2>1. Drained(s) => drain[s] # "off" /\ Live(s) = {}
    BY DEF Drained
  <2> QED BY <1>1, <2>1 DEF AppInv, Drains, Live, InHand
<1>9. Settled'
  BY <1>1, <1>2, <1>7, <1>8 DEF AppInv, Settled, InHand
<1>10. s \notin cut /\ (s \in cut' => result'[IndexOf(s)] = "error")
  <2>1. s \notin cut
    BY <1>1 DEF AppInv, Reported, ServeReturns
  <2>2. CASE ExitEarly(s)
    <3>1. errCh[s] = <<"error">>
      BY <2>2 DEF AppInv, Reported, ExitEarly
    <3> QED BY <2>1, <2>2, <3>1 DEF ExitEarly, Returns
  <2>3. CASE Drained(s)
    BY <2>1, <2>3 DEF Drained
  <2>4. CASE DrainAbandoned(s)
    BY <2>1, <2>4 DEF DrainAbandoned, Returns
  <2> QED BY <2>1, <2>2, <2>3, <2>4 DEF Ends
<1>11. \A t \in Server : t # s => result'[IndexOf(t)] = result[IndexOf(t)]
  BY <1>1, IndexOfServer DEF AppInv, Inv, TypeOK, ServeReturns
<1>12. go'[IndexOf(s)] = "reporting"
  BY <1>2, IndexOfServer DEF AppInv, Inv, TypeOK
<1>13. Reported'
  BY <1>1, <1>7, <1>10, <1>11, <1>12 DEF AppInv, AppTypeOK, Reported
<1> QED BY <1>3, <1>4, <1>5, <1>6, <1>9, <1>13 DEF AppInv

\* A pool that is closed, or a server that has returned, while Run has seen it all.
LEMMA PoolClosesLast ==
    ASSUME AppInv, pc = "returned", named = {}, NEW h \in Handler, InHand(h)
    PROVE  at[h] \in cut
<1>1. stopped = Component
  BY DEF AppInv, Inv, Progress
<1>2. at[h] \in Server /\ IndexOf(at[h]) \in Component
  BY IndexOfServer DEF AppInv, Requests
<1>3. go[IndexOf(at[h])] \notin {"none", "serving"}
  BY <1>1, <1>2 DEF AppInv, Inv, Delivery, Returned
<1> QED BY <1>2, <1>3 DEF AppInv, Settled

LEMMA RequestKeeps ==
    ASSUME AppInv, NEW h \in Handler, Request(h)
    PROVE  AppInv'
<1>1. /\ UNCHANGED <<vars, port, errCh, drain, ready, health, app, pool, exporter, cut>>
      /\ Up
  BY DEF Request, Query, QueryReturns, Answer, AcceptRequest, supervisor, servers, flags,
         process, Up
<1>2. Inv'
  BY <1>1, NextInv DEF AppInv
<1>3. AppTypeOK'
  BY <1>1, <1>2 DEF AppInv, AppTypeOK, Inv, Request, Query, QueryReturns, Answer, AcceptRequest
<1>4. Stages' /\ Told' /\ Drains' /\ Reported'
  BY <1>1 DEF AppInv, Stages, Told, Drains, Reported, Up, vars
<1>5. \/ /\ at' = at
         /\ InHand(h)
         /\ \A k \in Handler : InHand(k)' => InHand(k)
         /\ \A k \in Handler : handler'[k] = "refused" =>
                handler[k] = "refused" \/ (k = h /\ pool # "open")
      \/ /\ \E s \in Server : at' = [at EXCEPT ![h] = s] /\ port[s] = "open"
         /\ handler' = [handler EXCEPT ![h] = "running"]
  <2>1. CASE Query(h)
    BY <2>1 DEF AppInv, AppTypeOK, Query, InHand
  <2>2. CASE QueryReturns(h) \/ Answer(h)
    BY <2>2 DEF AppInv, AppTypeOK, QueryReturns, Answer, InHand
  <2>3. ASSUME NEW s \in Server, AcceptRequest(h, s)
        PROVE  /\ at' = [at EXCEPT ![h] = s] /\ port[s] = "open"
               /\ handler' = [handler EXCEPT ![h] = "running"]
    BY <2>3 DEF AcceptRequest
  <2> QED BY <2>1, <2>2, <2>3 DEF Request
<1>6. Settled'
  BY <1>1, <1>5 DEF AppInv, AppTypeOK, Settled, InHand, vars
<1>7. Requests'
  <2>1. pool # "open" => pc = "returned"
    BY <1>1 DEF AppInv, Stages, Up
  <2>2. InHand(h) /\ pool # "open" => at[h] \in cut \/ named # {}
    BY <2>1, PoolClosesLast
  <2> QED BY <1>1, <1>5, <2>2 DEF AppInv, AppTypeOK, Requests, InHand, vars
<1> QED BY <1>2, <1>3, <1>4, <1>6, <1>7 DEF AppInv

LEMMA FinishKeeps ==
    ASSUME AppInv, Finish PROVE AppInv'
<1>1. /\ UNCHANGED <<vars, port, errCh, drain, handler, at, ready, health, cut>>
      /\ app \in {"running", "closed"} /\ app' \in {"running", "closed", "exited"}
  BY DEF AppInv, Stages, Finish, CloseDatabase, CloseReturns, Flush, supervisor, servers, requests, flags
<1>2. Inv'
  BY <1>1, NextInv DEF AppInv
<1>3. AppTypeOK'
  BY <1>1, <1>2 DEF AppInv, AppTypeOK, Inv, Finish, CloseDatabase, CloseReturns, Flush
<1>4. Stages'
  BY <1>1 DEF AppInv, Stages, Up, Finish, CloseDatabase, CloseReturns, Flush, vars
<1>5. Told' /\ Drains' /\ Settled' /\ Reported' /\ Requests'
  BY <1>1 DEF AppInv, Told, Drains, Settled, Reported, Requests, InHand, vars
<1> QED BY <1>2, <1>3, <1>4, <1>5 DEF AppInv

LEMMA AppNextInv == AppInv /\ [AppNext]_apiVars => AppInv'
<1> SUFFICES ASSUME AppInv, [AppNext]_apiVars PROVE AppInv'
  OBVIOUS
<1>1. CASE UNCHANGED apiVars
  <2>1. UNCHANGED <<vars, port, errCh, drain, handler, at, ready, health, app, pool, exporter, cut>>
    BY <1>1 DEF apiVars, supervisor, servers, requests, flags, process
  <2>2. Inv'
    BY <2>1, NextInv DEF AppInv
  <2>3. AppTypeOK'
    BY <2>1, <2>2 DEF AppInv, AppTypeOK, Inv
  <2> QED BY <2>1, <2>2, <2>3
          DEF AppInv, Stages, Told, Drains, Settled, Reported, Requests, InHand, Up, vars
<1>2. CASE AppNext
  <2>1. CASE \E s \in Server : Listener(s) \/ Serve(s)
    BY <2>1, ListenerKeeps, EndsKeeps DEF Serve, Ends
  <2>2. CASE \E h \in Handler : Request(h)
    BY <2>2, RequestKeeps
  <2> QED BY <1>2, <2>1, <2>2, BuildKeeps, HookKeeps, SupervisorStepKeeps, FinishKeeps DEF AppNext
<1> QED BY <1>1, <1>2

\* The inductive invariant holds in every reachable state.
THEOREM AppInvariance == AppSpec => []AppInv
BY AppInitInv, AppNextInv, PTL DEF AppSpec

-----------------------------------------------------------------------------

\* Whatever the servers and their requests do, the application is a supervisor's run of
\* two components and one hook: each step is one of Supervisor.Run's or none.
THEOREM AppImplementsSupervisor == AppSpec => Init /\ [][Next]_vars
<1>1. AppInit => Init
  BY DEF AppInit
<1> QED BY <1>1, StepImplements, PTL DEF AppSpec

\* So what Run keeps for any components it keeps for these: the servers stop in reverse
\* order, after the hook, and no error of theirs is lost.
THEOREM AppKeepsSupervisorPromises ==
    AppSpec => [](StopsInReverseOrder /\ HooksRunFirst /\ NoErrorIsLost)
<1>1. AppInv => StopsInReverseOrder /\ HooksRunFirst /\ NoErrorIsLost
  BY InvMeans DEF AppInv
<1> QED BY <1>1, AppInvariance, PTL

\* The state of the application keeps its types; a listener reports at most once.
THEOREM AppTypeCorrect == AppSpec => []AppTypeOK
<1>1. AppInv => AppTypeOK
  BY DEF AppInv
<1> QED BY <1>1, AppInvariance, PTL

\* App.Run registers the ops server first, so that readiness can be asked while the rpc
\* server drains.
THEOREM ProbesOutlive == AppSpec => []ProbesOutliveTheDrain
<1>1. AppInv => ProbesOutliveTheDrain
  <2> SUFFICES ASSUME AppInv, drain["ops"] # "off", pc # "returned"
               PROVE  ~ Serving("rpc")
    BY DEF ProbesOutliveTheDrain
  <2>1. cancelled[1]
    BY IndexOfServer DEF AppInv, Drains, Server
  <2>2. go[2] \in {"announcing", "ended"}
    BY <2>1, InvMeans, IndexOfServer DEF AppInv, StopsInReverseOrder
  <2> QED BY <2>2, IndexOfServer DEF Serving
<1> QED BY <1>1, AppInvariance, PTL

\* The hook tells both probes before any server is asked to stop.
THEOREM LeavesFirst == AppSpec => []LeavesServiceFirst
<1>1. AppInv => LeavesServiceFirst
  <2> SUFFICES ASSUME AppInv, NEW s \in Server, drain[s] # "off"
               PROVE  ~ ready /\ ~ health
    BY DEF LeavesServiceFirst
  <2>1. cancelled[IndexOf(s)] /\ IndexOf(s) \in Component
    BY IndexOfServer DEF AppInv, Drains
  <2>2. ran = 1
    BY <2>1, InvMeans, TwoServers DEF AppInv, HooksRunFirst
  <2> QED BY <2>2 DEF AppInv, Told
<1> QED BY <1>1, AppInvariance, PTL

\* Closing the database comes after the supervisor has returned, and it returns, but for
\* a timeout it reports, only when both servers have.
THEOREM RequestsKeepThePool == AppSpec => []NoRequestIsCutShort
<1>1. AppInv => NoRequestIsCutShort
  <2> SUFFICES ASSUME AppInv, NEW h \in Handler,
                      handler[h] = "refused" \/ (pool \in {"closing", "closed"} /\ InHand(h))
               PROVE  at[h] \in cut \/ named # {}
    BY DEF NoRequestIsCutShort, InHand
  <2>1. CASE handler[h] = "refused"
    BY <2>1 DEF AppInv, Requests
  <2>2. CASE pool \in {"closing", "closed"} /\ InHand(h)
    <3>1. pc = "returned"
      BY <2>2 DEF AppInv, AppTypeOK, Stages, Up, InHand
    <3> QED BY <2>2, <3>1, PoolClosesLast
  <2> QED BY <2>1, <2>2
<1> QED BY <1>1, AppInvariance, PTL

\* An error reaches Run from every server that did not wait for its requests, and Run
\* keeps every error: a request without its pool is never behind a nil.
THEOREM CutsAreTold == AppSpec => []CutsAreReported
<1>1. AppInv => CutsAreReported
  <2> SUFFICES ASSUME AppInv, pool \in {"closing", "closed"}, errs = {}, named = {},
                      NEW h \in Handler
               PROVE  handler[h] \in {"idle", "answered"}
    BY DEF CutsAreReported
  <2>1. CASE ~ Up /\ app # "exited"
    BY <2>1 DEF AppInv, Stages
  <2>2. CASE Up \/ app = "exited"
    <3>1. pc = "returned"
      BY <2>2 DEF AppInv, AppTypeOK, Stages, Up
    <3>2. \A i \in Component : result[i] = Nil
      BY <3>1 DEF AppInv, Inv, Progress, Delivery
    <3>3. cut = {}
      BY <3>2, NilAssumption, IndexOfServer DEF AppInv, AppTypeOK, Reported
    <3>4. ~ InHand(h) /\ handler[h] # "refused"
      BY <3>1, <3>3, PoolClosesLast DEF AppInv, Requests
    <3> QED BY <3>4 DEF AppInv, AppTypeOK, InHand
  <2> QED BY <2>1, <2>2
<1> QED BY <1>1, AppInvariance, PTL
=============================================================================
