----------------------------- MODULE Supervisor -----------------------------
(***************************************************************************)
(* pkg/lifecycle: Supervisor.Run and stop.  Components 1..N are started in *)
(* registration order, each on a goroutine of its own; Run then waits for  *)
(* a signal or for a component to exit, runs the BeforeShutdown hooks and  *)
(* stops the components in reverse order, all under one timer.             *)
(*                                                                         *)
(* The actors are Run's goroutine, one goroutine per component and the     *)
(* environment: a signal, the timer, and the components themselves, which  *)
(* may return from Serve at any time, with an error or without, or ignore  *)
(* the cancellation of their context for ever.                             *)
(*                                                                         *)
(* Run over no component answers ErrNoComponents before any of this, and   *)
(* is left out.                                                            *)
(***************************************************************************)
EXTENDS Integers, Sequences

CONSTANTS
    N,            \* components registered
    Hooks,        \* BeforeShutdown hooks registered
    Nil           \* Go's nil error

ASSUME ComponentsAssumption == N \in Nat \ {0}
ASSUME HooksAssumption == Hooks \in Nat
ASSUME NilAssumption == Nil # "error"

Component == 1 .. N
Error == {Nil, "error"}

VARIABLES
    pc,           \* where Run is
    cur,          \* the component Run starts or stops; 0 when none is left
    ran,          \* hooks that have returned
    ctxDone,      \* the context Run waits on is done
    deadline,     \* the shutdown timer
    cancelled,    \* cancelled[i]: the context of component i is cancelled
    go,           \* go[i]: where the goroutine of component i is
    result,       \* result[i]: what Serve of component i returned
    done,         \* done[i]: the buffered channel of task i
    exited,       \* the buffered channel of the components that exited
    errs,         \* the components whose error stop has collected
    named,        \* the components the timeout error names; none without one
    stopped       \* history: the components stop has collected

run == <<pc, cur, ran, deadline, cancelled, errs, named, stopped>>
routines == <<go, result, done, exited>>
vars == <<pc, cur, ran, ctxDone, deadline, cancelled, go, result, done, exited,
          errs, named, stopped>>

Init ==
    /\ pc = "start"
    /\ cur = 1
    /\ ran = 0
    /\ ctxDone = FALSE
    /\ deadline = "off"
    /\ cancelled = [i \in Component |-> FALSE]
    /\ go = [i \in Component |-> "none"]
    /\ result = [i \in Component |-> Nil]
    /\ done = [i \in Component |-> <<>>]
    /\ exited = <<>>
    /\ errs = {}
    /\ named = {}
    /\ stopped = {}

-----------------------------------------------------------------------------
(* Run, up to the shutdown *)

\* One turn of the loop that starts the components.
Start ==
    /\ pc = "start"
    /\ go' = [go EXCEPT ![cur] = "serving"]
    /\ IF cur < N THEN cur' = cur + 1 /\ UNCHANGED pc
       ELSE cur' = 0 /\ pc' = "wait"
    /\ UNCHANGED <<ran, ctxDone, deadline, cancelled, result, done, exited, errs,
                   named, stopped>>

\* Faulty BeginShutdown: the timer is armed only once the hooks have run.
BeginUntimed ==
    /\ pc = "wait"
    /\ \/ ctxDone /\ UNCHANGED exited
       \/ exited # <<>> /\ exited' = Tail(exited)
    /\ pc' = "hooks"
    /\ UNCHANGED <<cur, ran, ctxDone, deadline, cancelled, go, result, done, errs,
                   named, stopped>>

\* Either case of the first select, and the arming of the timer.
BeginShutdown ==
    /\ pc = "wait"
    /\ \/ ctxDone /\ UNCHANGED exited
       \/ exited # <<>> /\ exited' = Tail(exited)
    /\ deadline' = "armed"
    /\ pc' = "hooks"
    /\ UNCHANGED <<cur, ran, ctxDone, cancelled, go, result, done, errs, named,
                   stopped>>

RunHook ==
    /\ pc = "hooks"
    /\ ran < Hooks
    /\ ran' = ran + 1
    /\ UNCHANGED <<pc, cur, ctxDone, deadline, cancelled, routines, errs, named,
                   stopped>>

\* Faulty BeginStop: the hooks do not gate it.
StopBeforeHooks ==
    /\ pc = "hooks"
    /\ pc' = "cancel"
    /\ cur' = N
    /\ UNCHANGED <<ran, ctxDone, deadline, cancelled, routines, errs, named, stopped>>

\* Faulty BeginStop: the loop starts one past the last component.
StopPastTheEnd ==
    /\ pc = "hooks"
    /\ ran = Hooks
    /\ pc' = "cancel"
    /\ cur' = N + 1
    /\ UNCHANGED <<ran, ctxDone, deadline, cancelled, routines, errs, named, stopped>>

\* The hooks are done: stop starts from the component registered last.
BeginStop ==
    /\ pc = "hooks"
    /\ ran = Hooks
    /\ pc' = "cancel"
    /\ cur' = N
    /\ UNCHANGED <<ran, ctxDone, deadline, cancelled, routines, errs, named, stopped>>

-----------------------------------------------------------------------------
(* stop *)

\* Faulty Cancel: the context of every component goes at once.
CancelAll ==
    /\ pc = "cancel"
    /\ cancelled' = [i \in Component |-> TRUE]
    /\ pc' = "collect"
    /\ UNCHANGED <<cur, ran, ctxDone, deadline, routines, errs, named, stopped>>

Cancel ==
    /\ pc = "cancel"
    /\ cancelled' = [cancelled EXCEPT ![cur] = TRUE]
    /\ pc' = "collect"
    /\ UNCHANGED <<cur, ran, ctxDone, deadline, routines, errs, named, stopped>>

\* Run returns: its deferred function releases every context.
Return ==
    /\ pc' = "returned"
    /\ cancelled' = [i \in Component |-> TRUE]

\* Faulty Collect: the last error wins.
KeepLastError ==
    /\ pc = "collect"
    /\ done[cur] # <<>>
    /\ done' = [done EXCEPT ![cur] = Tail(done[cur])]
    /\ errs' = IF Head(done[cur]) = Nil THEN errs ELSE {cur}
    /\ stopped' = stopped \cup {cur}
    /\ IF cur > 1
       THEN pc' = "cancel" /\ cur' = cur - 1 /\ UNCHANGED cancelled
       ELSE Return /\ UNCHANGED cur
    /\ UNCHANGED <<ran, ctxDone, deadline, go, result, exited, named>>

\* stop receives what Serve of the component returned.
Collect ==
    /\ pc = "collect"
    /\ done[cur] # <<>>
    /\ done' = [done EXCEPT ![cur] = Tail(done[cur])]
    /\ errs' = IF Head(done[cur]) = Nil THEN errs ELSE errs \cup {cur}
    /\ stopped' = stopped \cup {cur}
    /\ IF cur > 1
       THEN pc' = "cancel" /\ cur' = cur - 1 /\ UNCHANGED cancelled
       ELSE Return /\ UNCHANGED cur
    /\ UNCHANGED <<ran, ctxDone, deadline, go, result, exited, named>>

\* The timer wins the select, which it may do even when done has a value too.
TimeOut ==
    /\ pc = "collect"
    /\ deadline = "fired"
    /\ named' = 1 .. cur
    /\ Return
    /\ UNCHANGED <<cur, ran, ctxDone, deadline, routines, errs, stopped>>

-----------------------------------------------------------------------------
(* The goroutines of the components *)

\* Serve returns: asked to or not.
ServeReturns(i) ==
    /\ go[i] = "serving"
    /\ go' = [go EXCEPT ![i] = "reporting"]
    /\ \E err \in Error : result' = [result EXCEPT ![i] = err]
    /\ UNCHANGED <<run, ctxDone, done, exited>>

\* Faulty Report: done is not buffered, so the goroutine waits for stop.
ReportUnbuffered(i) ==
    /\ go[i] = "reporting"
    /\ pc = "collect" /\ cur = i
    /\ done' = [done EXCEPT ![i] = Append(done[i], result[i])]
    /\ go' = [go EXCEPT ![i] = "announcing"]
    /\ UNCHANGED <<run, ctxDone, result, exited>>

\* t.done <- c.Serve(componentCtx), into a buffer of one.
Report(i) ==
    /\ go[i] = "reporting"
    /\ Len(done[i]) < 1
    /\ done' = [done EXCEPT ![i] = Append(done[i], result[i])]
    /\ go' = [go EXCEPT ![i] = "announcing"]
    /\ UNCHANGED <<run, ctxDone, result, exited>>

\* exited <- i, into a buffer of one place for each component.
Announce(i) ==
    /\ go[i] = "announcing"
    /\ Len(exited) < N
    /\ exited' = Append(exited, i)
    /\ go' = [go EXCEPT ![i] = "ended"]
    /\ UNCHANGED <<run, ctxDone, result, done>>

-----------------------------------------------------------------------------
(* The environment *)

\* A termination signal, or the cancellation of the caller's context.
Signal ==
    /\ ~ ctxDone
    /\ ctxDone' = TRUE
    /\ UNCHANGED <<run, routines>>

DeadlineFires ==
    /\ deadline = "armed"
    /\ deadline' = "fired"
    /\ UNCHANGED <<pc, cur, ran, ctxDone, cancelled, routines, errs, named, stopped>>

Run ==
    \/ Start \/ BeginShutdown \/ RunHook \/ BeginStop
    \/ Cancel \/ Collect \/ TimeOut

Goroutine(i) == Report(i) \/ Announce(i)

Next ==
    \/ Run
    \/ \E i \in Component : ServeReturns(i) \/ Goroutine(i)
    \/ Signal
    \/ DeadlineFires

\* Goroutines that can run do run, the hooks return, and the timer fires.  Nothing is
\* assumed of the components.
Fairness ==
    /\ WF_vars(Run)
    /\ \A i \in Component : WF_vars(Goroutine(i))
    /\ WF_vars(DeadlineFires)

Spec == Init /\ [][Next]_vars /\ Fairness

-----------------------------------------------------------------------------
(* Properties *)

\* The types of the state; neither channel ever holds more than its buffer.
TypeOK ==
    /\ pc \in {"start", "wait", "hooks", "cancel", "collect", "returned"}
    /\ cur \in 0 .. N
    /\ ran \in 0 .. Hooks
    /\ ctxDone \in BOOLEAN
    /\ deadline \in {"off", "armed", "fired"}
    /\ cancelled \in [Component -> BOOLEAN]
    /\ go \in [Component -> {"none", "serving", "reporting", "announcing", "ended"}]
    /\ result \in [Component -> Error]
    /\ done \in [Component -> {<<>>} \cup {<<err>> : err \in Error}]
    /\ exited \in Seq(Component) /\ Len(exited) <= N
    /\ errs \in SUBSET Component
    /\ named \in SUBSET Component
    /\ stopped \in SUBSET Component

\* While the shutdown runs, a component is asked to stop only when every component
\* registered after it has returned from Serve.
StopsInReverseOrder ==
    pc # "returned" =>
        \A i, j \in Component :
            i < j /\ cancelled[i] => go[j] \in {"announcing", "ended"}

\* No component is asked to stop, by any way out of Run, before every hook has run
\* and the timer that bounds the shutdown, hooks included, was started.
HooksRunFirst ==
    /\ (\E i \in Component : cancelled[i]) => ran = Hooks
    /\ ran > 0 => deadline # "off"

\* Run reports the error of every component it saw stop, and a Run that returns
\* without a timeout has seen them all stop.
NoErrorIsLost ==
    pc = "returned" =>
        /\ errs = {i \in stopped : result[i] # Nil}
        /\ named = {} => stopped = Component
        /\ named # {} => named = Component \ stopped

\* Once a signal came or a component exited, Run returns, even when the components
\* ignore their contexts.
ShutdownCompletes ==
    (ctxDone \/ \E i \in Component : go[i] # "none" /\ go[i] # "serving")
        ~> pc = "returned"

\* A component that returns from Serve leaves no goroutine behind, not even when Run
\* gave up on it before.
NoGoroutineLeaks ==
    \A i \in Component : go[i] = "reporting" ~> go[i] = "ended"
=============================================================================
