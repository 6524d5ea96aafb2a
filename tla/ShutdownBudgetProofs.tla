------------------------ MODULE ShutdownBudgetProofs ------------------------
(***************************************************************************)
(* For any requests, probes and configurations: whoever gives up during a  *)
(* shutdown does so because of its own link of the chain of timeouts.      *)
(*                                                                         *)
(* Each link has an invariant of its own (RpcLink, OpsLink, BackstopLink,  *)
(* GraceLink), which relates the timer that the link guards to what it     *)
(* waits for: the two run down together, so what was true when the timer   *)
(* was armed stays true until it fires.  No link rests on another.         *)
(***************************************************************************)
EXTENDS ShutdownBudget, TLAPS

Draining == proc \in {"rpc_drains", "ops_drains"}

\* A request has at most what is left of the drain once the drain's slack is taken
\* off, also one that is still being read and has its handler to come.
RpcBound ==
    /\ \A r \in Request :
          /\ phase[r] = "reading" => left[r] <= ReadTimeout
          /\ phase[r] = "handling" => left[r] <= RequestTimeout
    /\ proc = "rpc_drains" =>
          /\ \A r \in Request :
                /\ phase[r] = "reading" => left[r] + ServerTimeout <= ReadTimeout + drain
                /\ phase[r] = "handling" =>
                      left[r] + ServerTimeout <= ReadTimeout + RequestTimeout + drain
          /\ ServerTimeout <= ReadTimeout + RequestTimeout + drain
    /\ "rpc" \notin cut

RpcLink == RequestsFit => RpcBound

\* The same of a ping and the drain of the ops server.
OpsBound ==
    /\ \A p \in Probe : phase[p] = "pinging" => left[p] <= ConnectTimeout
    /\ proc = "ops_drains" =>
          /\ \A p \in Probe :
                phase[p] = "pinging" => left[p] + OpsTimeout <= ConnectTimeout + drain
          /\ OpsTimeout <= ConnectTimeout + drain
    /\ "ops" \notin cut

OpsLink == PingsFit => OpsBound

\* The supervisor's timer stays ahead of the drain in progress.
BackstopBound ==
    /\ proc = "rpc_drains" => backstop + ServerTimeout = drain + LifecycleTimeout
    /\ proc = "ops_drains" => backstop > drain
    /\ "lifecycle" \notin cut

BackstopLink == DrainsFit => BackstopBound

\* The orchestrator's timer stays ahead of the supervisor's, and then of the flush.
GraceBound ==
    /\ Draining => grace + LifecycleTimeout = backstop + GracePeriod
    /\ proc = "stopped" => grace + LifecycleTimeout >= GracePeriod
    /\ proc = "flushing" => grace + LifecycleTimeout + FlushTimeout >= flush + GracePeriod
    /\ proc # "killed"

GraceLink == GraceFits => GraceBound

\* As long as nobody has given up, whoever was waited for has ended.
Waited ==
    /\ cut = {} =>
          /\ proc = "ops_drains" => LiveRequests = {}
          /\ proc = "stopped" => LiveRequests = {} /\ LivePings = {}
    /\ pulled => cut # {}

-----------------------------------------------------------------------------
(* The timeouts *)

\* What the configuration gives is a number of units, and a default is at least one.
LEMMA TimeoutTypes ==
    ASSUME config \in Configurations
    PROVE  /\ RequestTimeout \in Nat \ {0} /\ ServerTimeout \in Nat \ {0}
           /\ OpsTimeout \in Nat \ {0} /\ LifecycleTimeout \in Nat \ {0}
           /\ ConnectTimeout \in Nat \ {0} /\ ReadTimeout \in Nat
           /\ GracePeriod \in Nat /\ ClientDeadline \in Int
<1>1. config \in [Setting -> Int]
  BY BudgetAssumption
<1>2. ASSUME NEW s \in Defaulted PROVE Effective(s) \in Nat \ {0}
  <2>1. config[s] \in Int /\ Default[s] \in Nat \ {0}
    BY <1>1, BudgetAssumption DEF Setting
  <2> QED BY <2>1 DEF Effective
<1>3. /\ RequestTimeout \in Nat \ {0} /\ ServerTimeout \in Nat \ {0}
      /\ OpsTimeout \in Nat \ {0} /\ LifecycleTimeout \in Nat \ {0}
      /\ ConnectTimeout \in Nat \ {0}
  BY <1>2 DEF Defaulted, RequestTimeout, ServerTimeout, OpsTimeout, LifecycleTimeout, ConnectTimeout
<1>4. config["read"] \in Int /\ config["grace"] \in Int /\ config["client"] \in Int
  BY <1>1 DEF Setting
<1>5. ReadTimeout \in Nat /\ GracePeriod \in Nat /\ ClientDeadline \in Int
  BY <1>4 DEF ReadTimeout, GracePeriod, ClientDeadline
<1> QED BY <1>3, <1>5

\* The timeouts of a process do not change.
LEMMA TimeoutsFixed ==
    ASSUME UNCHANGED config
    PROVE  /\ RequestTimeout' = RequestTimeout /\ ServerTimeout' = ServerTimeout
           /\ OpsTimeout' = OpsTimeout /\ LifecycleTimeout' = LifecycleTimeout
           /\ ConnectTimeout' = ConnectTimeout /\ ReadTimeout' = ReadTimeout
           /\ GracePeriod' = GracePeriod /\ ClientDeadline' = ClientDeadline
           /\ RequestsFit' = RequestsFit /\ PingsFit' = PingsFit
           /\ DrainsFit' = DrainsFit /\ GraceFits' = GraceFits
BY DEF RequestTimeout, ServerTimeout, OpsTimeout, LifecycleTimeout, ConnectTimeout, ReadTimeout,
       GracePeriod, ClientDeadline, Effective, RequestsFit, PingsFit, DrainsFit, GraceFits

\* Every step leaves the configuration alone.
LEMMA ConfigFixed ==
    ASSUME [Next]_vars
    PROVE  UNCHANGED config
BY DEF Next, Serving, Shutdown, vars, Accept, Decode, BeginPing, End, Start, Terminate, RpcDrained,
       RpcGivesUp, DrainOps, OpsDrained, OpsGivesUp, BackstopFires, Stopped, CloseDatabase, Exit,
       Kill, Tick

-----------------------------------------------------------------------------
(* Types *)

\* What Start changes.
LEMMA StartStep ==
    ASSUME TypeOK, NEW c \in Customer, NEW p, NEW t, Start(c, p, t)
    PROVE  /\ phase'[c] = p /\ left'[c] = t
           /\ \A d \in Customer : d # c => phase'[d] = phase[d] /\ left'[d] = left[d]
           /\ UNCHANGED <<config, proc, drain, backstop, flush, grace, cut, pulled>>
BY DEF TypeOK, Start, timers

\* The phases a request or a probe may be started in.
LEMMA StartTypes ==
    ASSUME TypeOK, NEW c \in Customer, NEW p, NEW t \in Nat, Start(c, p, t),
           c \in Request => p \in {"idle", "reading", "handling"},
           c \in Probe => p \in {"idle", "pinging"}
    PROVE  TypeOK'
<1>1. /\ phase' \in [Customer -> {"idle", "reading", "handling", "pinging"}]
      /\ left' \in [Customer -> Nat]
  BY DEF TypeOK, Start, Customer
<1>2. \A r \in Request : phase'[r] # "pinging"
  BY BudgetAssumption DEF TypeOK, Start, Customer
<1>3. \A q \in Probe : phase'[q] \in {"idle", "pinging"}
  BY BudgetAssumption DEF TypeOK, Start, Customer
<1> QED BY <1>1, <1>2, <1>3 DEF TypeOK, Start, timers

LEMMA ServingTypes ==
    ASSUME TypeOK, Serving
    PROVE  TypeOK'
<1> USE DEF Customer
<1>0. RequestTimeout \in Nat /\ ReadTimeout \in Nat /\ ConnectTimeout \in Nat /\ ClientDeadline \in Int
  BY TimeoutTypes DEF TypeOK
<1>1. CASE \E r \in Request : Accept(r)
  BY <1>0, <1>1, StartTypes, BudgetAssumption DEF Accept
<1>2. CASE \E r \in Request : Decode(r)
  <2>1. PICK r \in Request : Decode(r)
    BY <1>2
  <2>2. PICK t \in {RequestTimeout} \cup 1 .. ClientDeadline : Start(r, "handling", t)
    BY <2>1 DEF Decode
  <2>3. t \in Nat
    BY <1>0, <2>2
  <2> QED BY <2>2, <2>3, StartTypes, BudgetAssumption
<1>3. CASE \E p \in Probe : BeginPing(p)
  BY <1>0, <1>3, StartTypes, BudgetAssumption DEF BeginPing
<1>4. CASE \E c \in Customer : End(c)
  BY <1>4, StartTypes DEF End
<1> QED BY <1>1, <1>2, <1>3, <1>4 DEF Serving

LEMMA ShutdownTypes ==
    ASSUME TypeOK, Shutdown
    PROVE  TypeOK'
<1>0. ServerTimeout \in Nat /\ OpsTimeout \in Nat /\ LifecycleTimeout \in Nat /\ GracePeriod \in Nat
  BY TimeoutTypes DEF TypeOK
<1>1. CASE Terminate
  BY <1>0, <1>1 DEF Terminate, TypeOK
<1>2. CASE RpcDrained \/ RpcGivesUp
  BY <1>0, <1>2 DEF RpcDrained, RpcGivesUp, DrainOps, TypeOK
<1>3. CASE OpsDrained \/ OpsGivesUp \/ BackstopFires
  BY <1>3 DEF OpsDrained, OpsGivesUp, BackstopFires, Stopped, timers, TypeOK
<1>4. CASE CloseDatabase
  BY <1>4, BudgetAssumption DEF CloseDatabase, TypeOK
<1>5. CASE Exit \/ Kill
  BY <1>5 DEF Exit, Kill, timers, TypeOK
<1> QED BY <1>1, <1>2, <1>3, <1>4, <1>5 DEF Shutdown

LEMMA LessType ==
    ASSUME NEW t \in Nat
    PROVE  Less(t) \in Nat
BY DEF Less

LEMMA TickTypes ==
    ASSUME TypeOK, Tick
    PROVE  TypeOK'
<1>1. left' \in [Customer -> Nat]
  <2>1. ASSUME NEW c \in Customer PROVE (IF Timed(c) THEN left[c] - 1 ELSE left[c]) \in Nat
    <3>1. left[c] \in Nat /\ (Timed(c) => left[c] > 0)
      BY DEF Tick, Quiet, TypeOK
    <3> QED BY <3>1
  <2> QED BY <2>1 DEF Tick
<1>2. drain' \in Nat /\ backstop' \in Nat /\ flush' \in Nat /\ grace' \in Nat
  BY LessType DEF Tick, TypeOK
<1> QED BY <1>1, <1>2 DEF Tick, TypeOK

LEMMA InitTypes == Init => TypeOK
<1> SUFFICES ASSUME Init PROVE TypeOK
  OBVIOUS
<1>1. /\ phase \in [Customer -> {"idle", "reading", "handling", "pinging"}]
      /\ left \in [Customer -> Nat]
  BY DEF Init
<1>2. /\ \A r \in Request : phase[r] # "pinging"
      /\ \A p \in Probe : phase[p] \in {"idle", "pinging"}
  BY DEF Init, Customer
<1>3. config \in Configurations /\ cut \in SUBSET {"rpc", "ops", "lifecycle"} /\ pulled \in BOOLEAN
  BY DEF Init
<1>4. proc = "serving" /\ drain = 0 /\ backstop = 0 /\ flush = 0 /\ grace = 0
  BY DEF Init
<1> QED BY <1>1, <1>2, <1>3, <1>4 DEF TypeOK

LEMMA NextTypes == TypeOK /\ [Next]_vars => TypeOK'
<1>1. TypeOK /\ Next => TypeOK'
  BY ServingTypes, ShutdownTypes, TickTypes DEF Next
<1>2. TypeOK /\ UNCHANGED vars => TypeOK'
  BY DEF TypeOK, vars, timers
<1> QED BY <1>1, <1>2

\* The state has its types, and no timer runs below zero: what is due is done before
\* time goes on, and a timeout that is set below one has been replaced.
THEOREM TypesHold == Spec => []TypeOK
BY InitTypes, NextTypes, PTL DEF Spec

-----------------------------------------------------------------------------
(* The links *)

LEMMA RpcLinkStep ==
    ASSUME TypeOK, RpcLink, Next
    PROVE  RpcLink'
<1>1. UNCHANGED config
  BY ConfigFixed
<1> SUFFICES ASSUME RequestsFit, RpcBound PROVE RpcBound'
  BY <1>1, TimeoutsFixed, Zenon DEF RpcLink
<1>2. /\ ReadTimeout' = ReadTimeout /\ RequestTimeout' = RequestTimeout
      /\ ServerTimeout' = ServerTimeout
      /\ ReadTimeout \in Nat /\ RequestTimeout \in Nat /\ ServerTimeout \in Nat
      /\ ReadTimeout > 0 /\ ReadTimeout + RequestTimeout < ServerTimeout
  BY <1>1, TimeoutsFixed, TimeoutTypes DEF TypeOK, RequestsFit
<1>3. CASE \E r \in Request : Accept(r)
  BY <1>2, <1>3, BudgetAssumption DEF RpcBound, TypeOK, Accept, Start, Customer
<1>4. CASE \E r \in Request : Decode(r)
  <2>1. PICK r \in Request : Decode(r)
    BY <1>4
  <2>2. PICK t \in {RequestTimeout} \cup 1 .. ClientDeadline : Start(r, "handling", t)
    BY <2>1 DEF Decode
  <2>3. t \in Nat /\ t <= RequestTimeout
    BY <1>1, <1>2, TimeoutTypes DEF TypeOK, RequestsFit
  <2>4. phase[r] = "reading"
    BY <2>1 DEF Decode
  <2>5. /\ phase'[r] = "handling" /\ left'[r] = t
        /\ \A d \in Request : d # r => phase'[d] = phase[d] /\ left'[d] = left[d]
        /\ proc' = proc /\ drain' = drain /\ cut' = cut
    BY <2>2, StartStep DEF Customer
  <2>6. proc = "rpc_drains" => ServerTimeout <= ReadTimeout + drain - left[r]
    BY <1>2, <2>4 DEF RpcBound, TypeOK, Customer
  <2>7. drain \in Nat /\ left[r] \in Nat
    BY DEF TypeOK, Customer
  <2> QED BY <1>2, <2>3, <2>5, <2>6, <2>7 DEF RpcBound
<1>5. CASE \/ \E p \in Probe : BeginPing(p)
          \/ \E c \in Customer : End(c)
  <2>1. PICK c \in Customer, p \in {"pinging", "idle"}, t \in Nat : Start(c, p, t)
    BY <1>5, TimeoutTypes DEF BeginPing, End, Customer, TypeOK
  <2> QED BY <1>2, <2>1, StartStep DEF RpcBound, Customer
<1>6. CASE Terminate
  BY <1>2, <1>6 DEF RpcBound, TypeOK, Terminate, Customer
<1>7. CASE RpcGivesUp
  <2>1. FALSE
    BY <1>2, <1>7 DEF RpcBound, TypeOK, RpcGivesUp
  <2> QED BY <2>1
<1>8. CASE RpcDrained \/ OpsDrained \/ OpsGivesUp \/ BackstopFires \/ CloseDatabase \/ Exit \/ Kill
  BY <1>2, <1>8 DEF RpcBound, RpcDrained, DrainOps, OpsDrained, OpsGivesUp, BackstopFires, Stopped,
                    CloseDatabase, Exit, Kill
<1>9. CASE Tick
  <2>1. \A r \in Request : phase[r] \in {"reading", "handling"} => left[r] > 0 /\ left'[r] = left[r] - 1
    BY <1>2, <1>9 DEF Tick, Quiet, Timed, Customer
  <2>2. proc = "rpc_drains" => \E r \in Request : phase[r] \in {"reading", "handling"}
    BY <1>9 DEF Tick, Quiet, LiveRequests, TypeOK, Customer
  <2>3. proc = "rpc_drains" => drain' = drain - 1
    BY <1>9 DEF Tick, Quiet, Less
  <2>4. drain \in Nat /\ \A r \in Request : left[r] \in Nat
    BY DEF TypeOK, Customer
  <2>5. phase' = phase /\ proc' = proc /\ cut' = cut
    BY <1>9 DEF Tick
  <2> QED BY <1>2, <2>1, <2>2, <2>3, <2>4, <2>5 DEF RpcBound
<1> QED BY <1>3, <1>4, <1>5, <1>6, <1>7, <1>8, <1>9 DEF Next, Serving, Shutdown

LEMMA OpsLinkStep ==
    ASSUME TypeOK, OpsLink, Next
    PROVE  OpsLink'
<1>1. UNCHANGED config
  BY ConfigFixed
<1> SUFFICES ASSUME PingsFit, OpsBound PROVE OpsBound'
  BY <1>1, TimeoutsFixed, Zenon DEF OpsLink
<1>2. /\ ConnectTimeout' = ConnectTimeout /\ OpsTimeout' = OpsTimeout
      /\ ConnectTimeout \in Nat /\ OpsTimeout \in Nat
      /\ ConnectTimeout < OpsTimeout
  BY <1>1, TimeoutsFixed, TimeoutTypes DEF TypeOK, PingsFit
<1>3. CASE \/ \E r \in Request : Accept(r) \/ Decode(r)
          \/ \E c \in Customer : End(c)
  <2>1. PICK c \in Customer, p \in {"reading", "handling", "idle"} : \E t : Start(c, p, t)
    BY <1>3 DEF Accept, Decode, End, Customer
  <2>2. PICK t : Start(c, p, t)
    BY <2>1
  <2> QED BY <1>2, <2>2, StartStep DEF OpsBound, Customer
<1>4. CASE \E p \in Probe : BeginPing(p)
  BY <1>2, <1>4, BudgetAssumption DEF OpsBound, TypeOK, BeginPing, Start, Customer
<1>5. CASE RpcDrained \/ RpcGivesUp
  BY <1>2, <1>5 DEF OpsBound, TypeOK, RpcDrained, RpcGivesUp, DrainOps, Customer
<1>6. CASE OpsGivesUp
  <2>1. FALSE
    BY <1>2, <1>6 DEF OpsBound, TypeOK, OpsGivesUp
  <2> QED BY <2>1
<1>7. CASE Terminate \/ OpsDrained \/ BackstopFires \/ CloseDatabase \/ Exit \/ Kill
  BY <1>2, <1>7 DEF OpsBound, Terminate, OpsDrained, BackstopFires, Stopped, CloseDatabase, Exit, Kill
<1>8. CASE Tick
  <2>1. \A p \in Probe : phase[p] = "pinging" => left[p] > 0 /\ left'[p] = left[p] - 1
    BY <1>8 DEF Tick, Quiet, Timed, Customer
  <2>2. proc = "ops_drains" => \E p \in Probe : phase[p] = "pinging"
    BY <1>8 DEF Tick, Quiet, LivePings, TypeOK, Customer
  <2>3. proc = "ops_drains" => drain' = drain - 1
    BY <1>8 DEF Tick, Quiet, Less
  <2>4. drain \in Nat /\ \A p \in Probe : left[p] \in Nat
    BY DEF TypeOK, Customer
  <2>5. phase' = phase /\ proc' = proc /\ cut' = cut
    BY <1>8 DEF Tick
  <2> QED BY <1>2, <2>1, <2>2, <2>3, <2>4, <2>5 DEF OpsBound
<1> QED BY <1>3, <1>4, <1>5, <1>6, <1>7, <1>8 DEF Next, Serving, Shutdown
LEMMA BackstopLinkStep ==
    ASSUME TypeOK, BackstopLink, Next
    PROVE  BackstopLink'
<1>1. UNCHANGED config
  BY ConfigFixed
<1> SUFFICES ASSUME DrainsFit, BackstopBound PROVE BackstopBound'
  BY <1>1, TimeoutsFixed, Zenon DEF BackstopLink
<1>2. /\ ServerTimeout' = ServerTimeout /\ LifecycleTimeout' = LifecycleTimeout
      /\ ServerTimeout \in Nat \ {0} /\ OpsTimeout \in Nat \ {0} /\ LifecycleTimeout \in Nat \ {0}
      /\ ServerTimeout + OpsTimeout < LifecycleTimeout
      /\ drain \in Nat /\ backstop \in Nat
  BY <1>1, TimeoutsFixed, TimeoutTypes DEF TypeOK, DrainsFit
<1>3. CASE Serving
  BY <1>2, <1>3 DEF BackstopBound, Serving, Accept, Decode, BeginPing, End, Start, timers
<1>4. CASE Terminate
  BY <1>2, <1>4 DEF BackstopBound, Terminate
<1>5. CASE RpcDrained \/ RpcGivesUp
  BY <1>2, <1>5 DEF BackstopBound, RpcDrained, RpcGivesUp, DrainOps
<1>6. CASE BackstopFires
  <2>1. FALSE
    BY <1>2, <1>6 DEF BackstopBound, BackstopFires
  <2> QED BY <2>1
<1>7. CASE OpsDrained \/ OpsGivesUp \/ CloseDatabase \/ Exit \/ Kill
  BY <1>2, <1>7 DEF BackstopBound, OpsDrained, OpsGivesUp, Stopped, CloseDatabase, Exit, Kill
<1>8. CASE Tick
  BY <1>2, <1>8 DEF BackstopBound, Tick, Quiet, Less
<1> QED BY <1>3, <1>4, <1>5, <1>6, <1>7, <1>8 DEF Next, Shutdown

LEMMA GraceLinkStep ==
    ASSUME TypeOK, GraceLink, Next
    PROVE  GraceLink'
<1>1. UNCHANGED config
  BY ConfigFixed
<1> SUFFICES ASSUME GraceFits, GraceBound PROVE GraceBound'
  BY <1>1, TimeoutsFixed, Zenon DEF GraceLink
<1>2. /\ LifecycleTimeout' = LifecycleTimeout /\ GracePeriod' = GracePeriod
      /\ LifecycleTimeout \in Nat /\ GracePeriod \in Nat /\ FlushTimeout \in Nat
      /\ LifecycleTimeout + FlushTimeout < GracePeriod
      /\ backstop \in Nat /\ grace \in Nat /\ flush \in Nat
  BY <1>1, TimeoutsFixed, TimeoutTypes, BudgetAssumption DEF TypeOK, GraceFits
<1>3. CASE Serving
  BY <1>2, <1>3 DEF GraceBound, Draining, Serving, Accept, Decode, BeginPing, End, Start, timers
<1>4. CASE Terminate
  BY <1>2, <1>4 DEF GraceBound, Draining, Terminate
<1>5. CASE RpcDrained \/ RpcGivesUp
  BY <1>2, <1>5 DEF GraceBound, Draining, RpcDrained, RpcGivesUp, DrainOps
<1>6. CASE OpsDrained \/ OpsGivesUp \/ BackstopFires
  BY <1>2, <1>6 DEF GraceBound, Draining, OpsDrained, OpsGivesUp, BackstopFires, Stopped, timers
<1>7. CASE CloseDatabase
  BY <1>2, <1>7 DEF GraceBound, Draining, CloseDatabase
<1>8. CASE Exit
  BY <1>8 DEF GraceBound, Draining, Exit
<1>9. CASE Kill
  <2>1. FALSE
    BY <1>2, <1>9 DEF GraceBound, Draining, Kill, Stopping, Up, TypeOK
  <2> QED BY <2>1
<1>10. CASE Tick
  BY <1>2, <1>10 DEF GraceBound, Draining, Tick, Quiet, Stopping, Up, Less
<1> QED BY <1>3, <1>4, <1>5, <1>6, <1>7, <1>8, <1>9, <1>10 DEF Next, Shutdown

LEMMA WaitedStep ==
    ASSUME TypeOK, Waited, Next
    PROVE  Waited'
<1>1. CASE \/ \E r \in Request : Accept(r)
          \/ \E p \in Probe : BeginPing(p)
  BY <1>1 DEF Waited, Accept, BeginPing, Start
<1>2. CASE \E r \in Request : Decode(r)
  <2>1. PICK r \in Request : phase[r] = "reading" /\ \E t : Start(r, "handling", t)
    BY <1>2 DEF Decode
  <2>2. LiveRequests # {}
    BY <2>1 DEF LiveRequests
  <2>3. proc' = proc /\ cut' = cut /\ pulled' = pulled
    BY <2>1 DEF Start
  <2> QED BY <2>2, <2>3 DEF Waited
<1>3. CASE \E c \in Customer : End(c)
  <2>1. PICK c \in Customer : Start(c, "idle", 0)
    BY <1>3 DEF End
  <2>2. LiveRequests' \subseteq LiveRequests /\ LivePings' \subseteq LivePings
    BY <2>1, StartStep DEF LiveRequests, LivePings, Customer
  <2>3. proc' = proc /\ cut' = cut /\ pulled' = pulled
    BY <2>1 DEF Start
  <2> QED BY <2>2, <2>3 DEF Waited
<1>4. CASE \/ Terminate \/ RpcDrained \/ RpcGivesUp \/ OpsDrained \/ OpsGivesUp \/ BackstopFires
          \/ CloseDatabase \/ Exit \/ Kill \/ Tick
  <2>1. LiveRequests' = LiveRequests /\ LivePings' = LivePings
    BY <1>4 DEF LiveRequests, LivePings, Terminate, RpcDrained, RpcGivesUp, DrainOps, OpsDrained,
                OpsGivesUp, BackstopFires, Stopped, CloseDatabase, Exit, Kill, Tick
  <2>2. CASE RpcDrained \/ RpcGivesUp
    BY <2>1, <2>2 DEF Waited, RpcDrained, RpcGivesUp, DrainOps
  <2>3. CASE OpsDrained \/ OpsGivesUp \/ BackstopFires
    BY <2>1, <2>3 DEF Waited, OpsDrained, OpsGivesUp, BackstopFires, Stopped
  <2>4. CASE CloseDatabase
    <3>1. cut = {} => LiveRequests \cup LivePings = {}
      BY <2>4 DEF Waited, CloseDatabase
    <3> QED BY <2>4, <3>1 DEF Waited, CloseDatabase
  <2>5. CASE Terminate \/ Exit \/ Kill \/ Tick
    BY <2>1, <2>5 DEF Waited, Terminate, Exit, Kill, Tick
  <2> QED BY <1>4, <2>2, <2>3, <2>4, <2>5
<1> QED BY <1>1, <1>2, <1>3, <1>4 DEF Next, Serving, Shutdown

-----------------------------------------------------------------------------
(* The theorem *)

Inv == TypeOK /\ RpcLink /\ OpsLink /\ BackstopLink /\ GraceLink /\ Waited

LEMMA InitLinks == Init => RpcLink /\ OpsLink /\ BackstopLink /\ GraceLink /\ Waited
<1> SUFFICES ASSUME Init PROVE RpcBound /\ OpsBound /\ BackstopBound /\ GraceBound /\ Waited
  BY Zenon DEF RpcLink, OpsLink, BackstopLink, GraceLink
<1>1. \A c \in Customer : phase[c] = "idle"
  BY DEF Init
<1>2. proc = "serving" /\ cut = {} /\ ~ pulled
  BY DEF Init
<1> QED BY <1>1, <1>2 DEF RpcBound, OpsBound, BackstopBound, GraceBound, Draining, Waited, Customer

\* A server's drain, the supervisor's backstop and the orchestrator each cut something
\* off only when their own link of the chain of timeouts is broken, and the pool is
\* closed under somebody only after somebody gave up: for any number of requests and
\* probes, and any configuration.
THEOREM ChainHolds == Spec => []OnlyABrokenLinkCuts
<1>1. Inv /\ [Next]_vars => Inv'
  <2>2. Inv /\ Next => RpcLink' /\ OpsLink' /\ BackstopLink' /\ GraceLink' /\ Waited'
    BY RpcLinkStep, OpsLinkStep, BackstopLinkStep, GraceLinkStep, WaitedStep DEF Inv
  <2>3. Inv /\ UNCHANGED vars => RpcLink' /\ OpsLink' /\ BackstopLink' /\ GraceLink' /\ Waited'
    <3> SUFFICES ASSUME Inv, UNCHANGED vars
                 PROVE  RpcLink' /\ OpsLink' /\ BackstopLink' /\ GraceLink' /\ Waited'
      OBVIOUS
    <3>1. UNCHANGED <<config, phase, left, proc, drain, backstop, flush, grace, cut, pulled>>
      BY DEF vars, timers
    <3>2. /\ RpcBound' = RpcBound /\ OpsBound' = OpsBound
          /\ BackstopBound' = BackstopBound /\ GraceBound' = GraceBound
      BY <3>1, TimeoutsFixed DEF RpcBound, OpsBound, BackstopBound, GraceBound, Draining
    <3>3. Waited' = Waited
      BY <3>1 DEF Waited, LiveRequests, LivePings
    <3>4. /\ RequestsFit' = RequestsFit /\ PingsFit' = PingsFit
          /\ DrainsFit' = DrainsFit /\ GraceFits' = GraceFits
      BY <3>1, TimeoutsFixed
    <3> QED BY <3>2, <3>3, <3>4, Zenon
               DEF Inv, RpcLink, OpsLink, BackstopLink, GraceLink
  <2> QED BY <2>2, <2>3, NextTypes, Zenon DEF Inv
<1>2. Init => Inv
  BY InitTypes, InitLinks DEF Inv
<1>3. Inv => OnlyABrokenLinkCuts
  <2>1. RpcBound => "rpc" \notin cut
    BY Zenon DEF RpcBound
  <2>2. OpsBound => "ops" \notin cut
    BY Zenon DEF OpsBound
  <2>3. BackstopBound => "lifecycle" \notin cut
    BY Zenon DEF BackstopBound
  <2>4. GraceBound => proc # "killed"
    BY Zenon DEF GraceBound
  <2> QED BY <2>1, <2>2, <2>3, <2>4, Zenon
             DEF Inv, RpcLink, OpsLink, BackstopLink, GraceLink, Waited, OnlyABrokenLinkCuts
<1> QED BY <1>1, <1>2, <1>3, PTL DEF Spec
=============================================================================
