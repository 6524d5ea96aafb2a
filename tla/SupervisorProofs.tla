-------------------------- MODULE SupervisorProofs --------------------------
(***************************************************************************)
(* For any number of components and of hooks: the order of the shutdown,   *)
(* the hooks' place in it, and the errors Run answers with.                *)
(*                                                                         *)
(* The three properties speak of the contexts, the goroutines and the      *)
(* collected errors; what ties these together, and is inductive, is how    *)
(* far stop has come (Progress) and what a done channel may hold           *)
(* (Delivery).                                                             *)
(***************************************************************************)
EXTENDS Supervisor, TLAPS

After(i) == {j \in Component : j > i}

Returned(i) == go[i] \in {"announcing", "ended"}

\* How far Run has come decides which contexts are cancelled and which components
\* have been collected.
Progress ==
    /\ pc \in {"start", "wait", "hooks"} =>
          /\ stopped = {} /\ named = {}
          /\ \A i \in Component : ~ cancelled[i]
    /\ pc \in {"cancel", "collect"} => stopped = After(cur) /\ named = {}
    /\ pc = "cancel" => \A i \in Component : cancelled[i] => i > cur
    /\ pc = "collect" => \A i \in Component : cancelled[i] => i >= cur
    /\ pc = "returned" =>
          /\ named = {} => stopped = Component
          /\ named # {} => named = Component \ stopped
    /\ pc \in {"start", "cancel", "collect"} => cur \in Component
    /\ pc = "start" => \A i \in Component : i >= cur => go[i] = "none"
    /\ pc \in {"cancel", "collect", "returned"} => ran = Hooks
    /\ pc \in {"start", "wait"} => ran = 0
    /\ pc \notin {"start", "wait"} => deadline # "off"

\* A done channel holds what Serve returned, and stop takes it from nowhere else.
Delivery ==
    /\ \A i \in Component :
          /\ done[i] # <<>> => done[i] = <<result[i]>> /\ Returned(i)
          /\ i \in stopped => Returned(i)
    /\ errs = {i \in stopped : result[i] # Nil}

Inv == TypeOK /\ Progress /\ Delivery

-----------------------------------------------------------------------------

LEMMA InitInv == Init => Inv
<1> SUFFICES ASSUME Init PROVE Inv
  OBVIOUS
<1>1. TypeOK
  <2>1. cur \in 0 .. N /\ ran \in 0 .. Hooks /\ exited \in Seq(Component) /\ Len(exited) <= N
    BY ComponentsAssumption, HooksAssumption DEF Init
  <2>2. /\ cancelled \in [Component -> BOOLEAN] /\ result \in [Component -> Error]
        /\ done \in [Component -> {<<>>} \cup {<<err>> : err \in Error}]
    BY DEF Init, Error
  <2> QED BY <2>1, <2>2 DEF Init, TypeOK
<1>2. Progress
  BY ComponentsAssumption DEF Init, Progress, Component
<1>3. Delivery
  BY DEF Init, Delivery
<1> QED BY <1>1, <1>2, <1>3 DEF Inv

\* Starting the components leaves the shutdown's state alone.
LEMMA StartInv ==
    ASSUME Inv, Start
    PROVE  Inv'
<1>1. TypeOK'
  BY ComponentsAssumption DEF Start, Inv, TypeOK, Progress, Component
<1>2. Progress'
  BY ComponentsAssumption DEF Start, Inv, TypeOK, Progress, Component
<1>3. Delivery'
  <2>1. cur \in Component /\ ~ Returned(cur) /\ stopped = {}
    BY ComponentsAssumption DEF Start, Inv, Progress, Returned, Component
  <2> QED BY <2>1 DEF Start, Inv, TypeOK, Delivery, Returned
<1> QED BY <1>1, <1>2, <1>3 DEF Inv

LEMMA BeginShutdownInv ==
    ASSUME Inv, BeginShutdown
    PROVE  Inv'
<1> DEFINE C == Component
<1> HIDE DEF C
<1>1. exited' \in Seq(Component) /\ Len(exited') <= N
  <2>1. exited \in Seq(C) /\ Len(exited) <= N
    BY DEF Inv, TypeOK, C
  <2>2. exited # <<>> => Tail(exited) \in Seq(C) /\ Len(Tail(exited)) = Len(exited) - 1
    BY <2>1
  <2>3. Len(exited) \in Nat /\ N \in Nat
    BY <2>1, ComponentsAssumption
  <2>4. exited' = exited \/ (exited # <<>> /\ exited' = Tail(exited))
    BY DEF BeginShutdown
  <2> QED BY <2>1, <2>2, <2>3, <2>4 DEF C
<1>2. TypeOK'
  BY <1>1 DEF BeginShutdown, Inv, TypeOK
<1>3. Progress'
  BY DEF BeginShutdown, Inv, Progress
<1>4. Delivery'
  BY DEF BeginShutdown, Inv, Delivery, Returned
<1> QED BY <1>2, <1>3, <1>4 DEF Inv

LEMMA HooksInv ==
    ASSUME Inv, RunHook \/ BeginStop
    PROVE  Inv'
<1>1. TypeOK'
  BY ComponentsAssumption, HooksAssumption
     DEF RunHook, BeginStop, routines, Inv, TypeOK
<1>2. Progress'
  <2>1. CASE RunHook
    BY <2>1 DEF RunHook, routines, Inv, Progress
  <2>2. CASE BeginStop
    <3>1. After(N) = {} /\ N \in Component
      BY ComponentsAssumption DEF After, Component
    <3> QED BY <2>2, <3>1 DEF BeginStop, routines, Inv, Progress
  <2> QED BY <2>1, <2>2
<1>3. Delivery'
  BY DEF RunHook, BeginStop, routines, Inv, Delivery, Returned
<1> QED BY <1>1, <1>2, <1>3 DEF Inv

LEMMA CancelInv ==
    ASSUME Inv, Cancel
    PROVE  Inv'
<1>1. TypeOK'
  BY DEF Cancel, routines, Inv, TypeOK
<1>2. Progress'
  BY ComponentsAssumption DEF Cancel, Inv, TypeOK, Progress, Component, After
<1>3. Delivery'
  BY DEF Cancel, routines, Inv, Delivery, Returned
<1> QED BY <1>1, <1>2, <1>3 DEF Inv

\* The component collected joins the ones after it, which have all stopped.
LEMMA CollectInv ==
    ASSUME Inv, Collect
    PROVE  Inv'
<1> USE ComponentsAssumption
<1>1. /\ cur \in Component /\ stopped = After(cur)
      /\ done[cur] = <<result[cur]>> /\ Returned(cur)
  BY DEF Collect, Inv, Progress, Delivery
<1>2. Head(done[cur]) = result[cur] /\ Tail(done[cur]) = <<>>
  BY <1>1
<1>3. stopped' = {cur} \cup After(cur)
  BY <1>1 DEF Collect
<1>4. TypeOK'
  <2>1. done' \in [Component -> {<<>>} \cup {<<err>> : err \in Error}]
    BY <1>1, <1>2 DEF Collect, Inv, TypeOK
  <2>2. cancelled' \in [Component -> BOOLEAN]
    BY DEF Collect, Return, Inv, TypeOK
  <2>4. cur' \in 0 .. N
    BY <1>1 DEF Collect, Component
  <2>3. errs' \in SUBSET Component /\ stopped' \in SUBSET Component
    BY <1>1 DEF Collect, Inv, TypeOK
  <2> QED BY <2>1, <2>2, <2>3, <2>4 DEF Collect, Return, Inv, TypeOK
<1>5. Progress'
  <2>1. CASE cur > 1
    <3>1. {cur} \cup After(cur) = After(cur - 1)
      BY <1>1, <2>1 DEF After, Component
    <3> QED BY <1>1, <1>3, <2>1, <3>1 DEF Collect, Inv, Progress, Component, After
  <2>2. CASE ~ cur > 1
    <3>1. {cur} \cup After(cur) = Component
      BY <1>1, <2>2 DEF After, Component
    <3> QED BY <1>1, <1>3, <2>2, <3>1 DEF Collect, Return, Inv, Progress
  <2> QED BY <2>1, <2>2
<1>6. Delivery'
  <2>1. ASSUME NEW i \in Component
        PROVE  /\ done'[i] # <<>> => done'[i] = <<result'[i]>> /\ Returned(i)'
               /\ i \in stopped' => Returned(i)'
    BY <1>1, <1>2, <2>1 DEF Collect, Inv, TypeOK, Delivery, Returned
  <2>2. errs' = {i \in stopped' : result'[i] # Nil}
    BY <1>1, <1>2 DEF Collect, Inv, Delivery
  <2> QED BY <2>1, <2>2 DEF Delivery
<1> QED BY <1>4, <1>5, <1>6 DEF Inv

\* The components the timeout names are the ones stop has not collected.
LEMMA TimeOutInv ==
    ASSUME Inv, TimeOut
    PROVE  Inv'
<1> USE ComponentsAssumption
<1>1. cur \in Component /\ stopped = After(cur)
  BY DEF TimeOut, Inv, Progress
<1>2. 1 .. cur = Component \ stopped /\ 1 .. cur # {}
  BY <1>1 DEF After, Component
<1>3. TypeOK'
  BY <1>1, <1>2 DEF TimeOut, Return, routines, Inv, TypeOK, Component
<1>4. Progress'
  BY <1>1, <1>2 DEF TimeOut, Return, Inv, Progress
<1>5. Delivery'
  BY DEF TimeOut, routines, Inv, Delivery, Returned
<1> QED BY <1>3, <1>4, <1>5 DEF Inv

\* The goroutine of a component fills its own done channel, once.
LEMMA RoutineInv ==
    ASSUME Inv, NEW i \in Component, ServeReturns(i) \/ Goroutine(i)
    PROVE  Inv'
<1>1. CASE ServeReturns(i)
  <2>1. TypeOK'
    BY <1>1 DEF ServeReturns, run, Inv, TypeOK
  <2>2. Progress'
    BY <1>1 DEF ServeReturns, run, Inv, Progress
  <2>3. i \notin stopped /\ done[i] = <<>>
    BY <1>1 DEF ServeReturns, Inv, Delivery, Returned
  <2>4. Delivery'
    BY <1>1, <2>3 DEF ServeReturns, run, Inv, TypeOK, Delivery, Returned
  <2> QED BY <2>1, <2>2, <2>4 DEF Inv
<1>2. CASE Report(i)
  <2>1. done[i] = <<>> /\ result[i] \in Error
    BY <1>2 DEF Report, Inv, TypeOK, Delivery, Returned
  <2>2. Append(done[i], result[i]) = <<result[i]>>
    BY <2>1
  <2>3. TypeOK'
    BY <1>2, <2>1, <2>2 DEF Report, run, Inv, TypeOK
  <2>4. Progress'
    BY <1>2 DEF Report, run, Inv, Progress
  <2>5. Delivery'
    BY <1>2, <2>1, <2>2 DEF Report, run, Inv, TypeOK, Delivery, Returned
  <2> QED BY <2>3, <2>4, <2>5 DEF Inv
<1>3. CASE Announce(i)
  <2>1. exited' \in Seq(Component) /\ Len(exited') <= N
    BY <1>3, ComponentsAssumption DEF Announce, Inv, TypeOK
  <2>2. TypeOK'
    BY <1>3, <2>1 DEF Announce, run, Inv, TypeOK
  <2>3. Progress'
    BY <1>3 DEF Announce, run, Inv, Progress
  <2>4. Delivery'
    BY <1>3 DEF Announce, run, Inv, TypeOK, Delivery, Returned
  <2> QED BY <2>2, <2>3, <2>4 DEF Inv
<1> QED BY <1>1, <1>2, <1>3 DEF Goroutine

LEMMA EnvironmentInv ==
    ASSUME Inv, Signal \/ DeadlineFires
    PROVE  Inv'
<1>1. TypeOK'
  BY DEF Signal, DeadlineFires, run, routines, Inv, TypeOK
<1>2. Progress'
  BY DEF Signal, DeadlineFires, run, routines, Inv, Progress
<1>3. Delivery'
  BY DEF Signal, DeadlineFires, run, routines, Inv, Delivery, Returned
<1> QED BY <1>1, <1>2, <1>3 DEF Inv

LEMMA StutterInv ==
    ASSUME Inv, UNCHANGED vars
    PROVE  Inv'
BY DEF vars, Inv, TypeOK, Progress, Delivery, Returned

LEMMA NextInv == Inv /\ [Next]_vars => Inv'
<1> SUFFICES ASSUME Inv, [Next]_vars PROVE Inv'
  OBVIOUS
<1> QED BY StartInv, BeginShutdownInv, HooksInv, CancelInv, CollectInv, TimeOutInv,
           RoutineInv, EnvironmentInv, StutterInv DEF Next, Run

THEOREM Invariance == Spec => []Inv
BY InitInv, NextInv, PTL DEF Spec

-----------------------------------------------------------------------------

\* What the invariant says of the order, the hooks and the errors.
LEMMA InvMeans == Inv => StopsInReverseOrder /\ HooksRunFirst /\ NoErrorIsLost
<1> SUFFICES ASSUME Inv PROVE StopsInReverseOrder /\ HooksRunFirst /\ NoErrorIsLost
  OBVIOUS
<1>1. StopsInReverseOrder
  <2> SUFFICES ASSUME pc # "returned",
                      NEW i \in Component, NEW j \in Component, i < j, cancelled[i]
               PROVE  Returned(j)
    BY DEF StopsInReverseOrder, Returned
  <2>1. pc \in {"cancel", "collect"} /\ cur \in Component /\ j > cur
    BY DEF Inv, TypeOK, Progress, Component
  <2> QED BY <2>1 DEF Inv, Progress, Delivery, After
<1>2. HooksRunFirst
  BY HooksAssumption DEF Inv, TypeOK, Progress, HooksRunFirst
<1>3. NoErrorIsLost
  BY DEF Inv, Progress, Delivery, NoErrorIsLost
<1> QED BY <1>1, <1>2, <1>3

\* The state of Run and its channels keeps its types: no channel outgrows its buffer.
THEOREM TypeCorrect == Spec => []TypeOK
<1>1. Inv => TypeOK
  BY DEF Inv
<1> QED BY Invariance, <1>1, PTL

\* However many components there are, and however they exit, one is asked to stop only
\* after all the ones registered later have.
THEOREM ReverseOrder == Spec => []StopsInReverseOrder
BY Invariance, InvMeans, PTL

\* Every hook runs, under the timer, before any component is asked to stop.
THEOREM HooksFirst == Spec => []HooksRunFirst
BY Invariance, InvMeans, PTL

\* Run's answer holds the error of every component it collected, and accounts for every
\* component: collected or named in the timeout.
THEOREM ErrorsKept == Spec => []NoErrorIsLost
BY Invariance, InvMeans, PTL
=============================================================================
