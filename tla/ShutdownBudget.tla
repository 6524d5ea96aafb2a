--------------------------- MODULE ShutdownBudget ---------------------------
(***************************************************************************)
(* How long a shutdown takes.  ApiProcess leaves every duration open; here *)
(* time passes, in the unit of the constants, and the timeouts that four   *)
(* packages and the orchestrator set for themselves meet: the read and the *)
(* request timeout of pkg/connectrpc, the drains of its server and of the  *)
(* ops server, the connect timeout that bounds a readiness ping, the       *)
(* supervisor's backstop, the flush of the telemetry and the grace period  *)
(* after which the process is killed.                                      *)
(*                                                                         *)
(* Code takes no time: time passes only while everything that is due is    *)
(* done, so that a reaction to a timer or to the end of a request falls in *)
(* the instant of its cause.  What falls in one instant happens in any     *)
(* order.  A handler is taken to heed its context.                         *)
(***************************************************************************)
EXTENDS Integers

CONSTANTS
    Request, Probe,
    Configurations,   \* the configurations a process may be started with
    Default,          \* what withDefaults of the packages puts for an unset timeout
    FlushTimeout      \* telemetryFlushTimeout

\* The timeouts that have a default, and those that do not: the read timeout, the
\* longest deadline that clients ask for, terminationGracePeriodSeconds.
Defaulted == {"request", "server", "ops", "lifecycle", "connect"}
Setting == Defaulted \cup {"read", "client", "grace"}

ASSUME BudgetAssumption ==
    /\ Configurations \subseteq [Setting -> Int]
    /\ Default \in [Defaulted -> Nat \ {0}]
    /\ FlushTimeout \in Nat \ {0}
    /\ Request \cap Probe = {}

Customer == Request \cup Probe

VARIABLES
    config,       \* the configuration of this process
    phase,        \* phase[c]: what the request or the probe is doing
    left,         \* left[c]: how long it may still do it
    proc,         \* where the shutdown is
    drain,        \* what is left of the timer of the drain in progress
    backstop,     \* what is left of the supervisor's timer
    flush,        \* what is left of the flush
    grace,        \* what is left until the orchestrator kills the process
    cut,          \* history: who gave up before what it waited for had ended
    pulled        \* history: the pool was closed under somebody

timers == <<drain, backstop, flush, grace>>
vars == <<config, phase, left, proc, timers, cut, pulled>>

\* Faulty Effective: only zero is unset.
EffectiveUnlessZero(s) == IF config[s] = 0 THEN Default[s] ELSE config[s]

\* withDefaults: zero and less is unset.
Effective(s) == IF config[s] <= 0 THEN Default[s] ELSE config[s]

RequestTimeout == Effective("request")
ServerTimeout == Effective("server")
OpsTimeout == Effective("ops")
LifecycleTimeout == Effective("lifecycle")
ConnectTimeout == Effective("connect")

\* Zero and less is off, and stays off.
ReadTimeout == IF config["read"] > 0 THEN config["read"] ELSE 0
ClientDeadline == config["client"]
GracePeriod == IF config["grace"] > 0 THEN config["grace"] ELSE 0

Init ==
    /\ config \in Configurations
    /\ phase = [c \in Customer |-> "idle"]
    /\ left = [c \in Customer |-> 0]
    /\ proc = "serving"
    /\ drain = 0 /\ backstop = 0 /\ flush = 0 /\ grace = 0
    /\ cut = {}
    /\ pulled = FALSE

Up == proc \notin {"exited", "killed"}
Stopping == Up /\ proc # "serving"

LiveRequests == {r \in Request : phase[r] # "idle"}
LivePings == {p \in Probe : phase[p] # "idle"}

-----------------------------------------------------------------------------
(* Requests and probes *)

Start(c, p, t) ==
    /\ phase' = [phase EXCEPT ![c] = p]
    /\ left' = [left EXCEPT ![c] = t]
    /\ UNCHANGED <<config, proc, timers, cut, pulled>>

\* The rpc listener is open until the drain begins.
Accept(r) ==
    /\ proc = "serving"
    /\ phase[r] = "idle"
    /\ Start(r, "reading", ReadTimeout)

\* Faulty Decode: a handler with no deadline of the client's has none.
DecodeUnbounded(r) ==
    /\ Up /\ phase[r] = "reading"
    /\ \E t \in 1 .. ServerTimeout + 1 : Start(r, "handling", t)

\* The clock of the handler starts when the message is read; a deadline the client
\* sent is the one that counts, also a longer one.
Decode(r) ==
    /\ Up /\ phase[r] = "reading"
    /\ \E t \in {RequestTimeout} \cup 1 .. ClientDeadline : Start(r, "handling", t)

\* A /readyz that passes the drain check pings the pool.
BeginPing(p) ==
    /\ proc = "serving"
    /\ phase[p] = "idle"
    /\ Start(p, "pinging", ConnectTimeout)

\* Answered, or ended by its timeout.
End(c) ==
    /\ Up /\ phase[c] # "idle"
    /\ Start(c, "idle", 0)

-----------------------------------------------------------------------------
(* The shutdown *)

\* SIGTERM: the supervisor arms its timer, the hook turns the probes away, and the rpc
\* server, registered last, begins its drain.
Terminate ==
    /\ proc = "serving"
    /\ proc' = "rpc_drains"
    /\ drain' = ServerTimeout
    /\ backstop' = LifecycleTimeout
    /\ grace' = GracePeriod
    /\ UNCHANGED <<config, phase, left, flush, cut, pulled>>

\* Serve of one server has returned and the next is cancelled.
DrainOps ==
    /\ proc' = "ops_drains"
    /\ drain' = OpsTimeout
    /\ UNCHANGED <<config, phase, left, backstop, flush, grace, pulled>>

RpcDrained ==
    /\ proc = "rpc_drains" /\ LiveRequests = {}
    /\ DrainOps
    /\ UNCHANGED cut

RpcGivesUp ==
    /\ proc = "rpc_drains" /\ drain = 0
    /\ DrainOps
    /\ cut' = cut \cup {"rpc"}

Stopped ==
    /\ proc' = "stopped"
    /\ UNCHANGED <<config, phase, left, timers, pulled>>

OpsDrained ==
    /\ proc = "ops_drains" /\ LivePings = {}
    /\ Stopped
    /\ UNCHANGED cut

OpsGivesUp ==
    /\ proc = "ops_drains" /\ drain = 0
    /\ Stopped
    /\ cut' = cut \cup {"ops"}

\* The supervisor's timer: Run returns while a server still drains.
BackstopFires ==
    /\ proc \in {"rpc_drains", "ops_drains"} /\ backstop = 0
    /\ Stopped
    /\ cut' = cut \cup {"lifecycle"}

\* App.Run goes on: the pool is closed and the flush begins.
CloseDatabase ==
    /\ proc = "stopped"
    /\ proc' = "flushing"
    /\ pulled' = (LiveRequests \cup LivePings # {})
    /\ flush' = FlushTimeout
    /\ UNCHANGED <<config, phase, left, drain, backstop, grace, cut>>

\* The collector took everything, or the flush timed out.
Exit ==
    /\ proc = "flushing"
    /\ proc' = "exited"
    /\ UNCHANGED <<config, phase, left, timers, cut, pulled>>

Kill ==
    /\ Stopping /\ grace = 0
    /\ proc' = "killed"
    /\ UNCHANGED <<config, phase, left, timers, cut, pulled>>

-----------------------------------------------------------------------------
(* Time *)

\* Who has a deadline: a body that is read without a read timeout has none.
Timed(c) == phase[c] \in {"handling", "pinging"} \/ (phase[c] = "reading" /\ ReadTimeout > 0)

Quiet ==
    /\ \A c \in Customer : Timed(c) => left[c] > 0
    /\ Stopping => grace > 0
    /\ proc \in {"rpc_drains", "ops_drains"} => drain > 0 /\ backstop > 0
    /\ proc = "rpc_drains" => LiveRequests # {}
    /\ proc = "ops_drains" => LivePings # {}
    /\ proc # "stopped"
    /\ proc = "flushing" => flush > 0

Less(t) == IF t > 0 THEN t - 1 ELSE t

Tick ==
    /\ Up /\ Quiet
    /\ left' = [c \in Customer |-> IF Timed(c) THEN left[c] - 1 ELSE left[c]]
    /\ drain' = Less(drain)
    /\ backstop' = Less(backstop)
    /\ flush' = Less(flush)
    /\ grace' = Less(grace)
    /\ UNCHANGED <<config, phase, proc, cut, pulled>>

Serving ==
    \/ \E r \in Request : Accept(r) \/ Decode(r)
    \/ \E p \in Probe : BeginPing(p)
    \/ \E c \in Customer : End(c)

Shutdown ==
    \/ Terminate \/ RpcDrained \/ RpcGivesUp \/ OpsDrained \/ OpsGivesUp
    \/ BackstopFires \/ CloseDatabase \/ Exit \/ Kill

Next == Serving \/ Shutdown \/ Tick

Spec == Init /\ [][Next]_vars

-----------------------------------------------------------------------------
(* Properties *)

\* The types of the state: no timer runs below zero.
TypeOK ==
    /\ config \in Configurations
    /\ phase \in [Customer -> {"idle", "reading", "handling", "pinging"}]
    /\ \A r \in Request : phase[r] # "pinging"
    /\ \A p \in Probe : phase[p] \in {"idle", "pinging"}
    /\ left \in [Customer -> Nat]
    /\ proc \in {"serving", "rpc_drains", "ops_drains", "stopped", "flushing", "exited", "killed"}
    /\ drain \in Nat /\ backstop \in Nat /\ flush \in Nat /\ grace \in Nat
    /\ cut \in SUBSET {"rpc", "ops", "lifecycle"}
    /\ pulled \in BOOLEAN

\* The chain that Config.ShutdownTimeout asks for, link by link.  It says `<=` where
\* a tie may go either way, which only `<` rules out; it says nothing of a read
\* timeout that is off, of clients that ask for more time than a request gets, of
\* what a readiness ping takes, and of the flush that comes after the supervisor.
RequestsFit ==
    /\ ReadTimeout > 0 /\ ReadTimeout + RequestTimeout < ServerTimeout
    /\ ClientDeadline <= RequestTimeout
PingsFit == ConnectTimeout < OpsTimeout
DrainsFit == ServerTimeout + OpsTimeout < LifecycleTimeout
GraceFits == LifecycleTimeout + FlushTimeout < GracePeriod

\* Whoever gives up does so because of its own link: a server's drain, the supervisor's
\* backstop and the orchestrator each cut something off only when the link that is
\* theirs is broken, whatever the others are, and nobody has the pool closed on it
\* unless somebody gave up.  So under a whole chain a SIGTERM in any traffic ends
\* cleanly.
OnlyABrokenLinkCuts ==
    /\ "rpc" \in cut => ~ RequestsFit
    /\ "ops" \in cut => ~ PingsFit
    /\ "lifecycle" \in cut => ~ DrainsFit
    /\ proc = "killed" => ~ GraceFits
    /\ pulled => cut # {}
=============================================================================
