----------------------- MODULE RequestPipelineProofs -----------------------
(***************************************************************************)
(* For any number of requests, probes and connections and any methods: the *)
(* lines a request leaves, the faults they tell, and the connections it    *)
(* holds.                                                                  *)
(*                                                                         *)
(* The invariant speaks of one customer at a time, but for the count of    *)
(* the pool: what a request has told by the time it is where it is         *)
(* (Accounts, Tells), what it has left to do (Works), and where customers  *)
(* hold a connection (Holds).                                              *)
(***************************************************************************)
EXTENDS RequestPipeline, FiniteSetTheorems, TLAPS

\* Where a connection is held.
Holding == {"executing", "between", "closing", "committing"}

\* The lines of a request are written when its handler has returned, or at the end.
Accounts(r) ==
    /\ phase[r] \notin {"leaving", "ended"} =>
          answer[r] = Nil /\ lines[r] = <<>> /\ ~ accounted[r]
    /\ phase[r] = "leaving" =>
          IF answer[r] = Nil THEN lines[r] = <<>>
          ELSE accounted[r] /\ lines[r] = <<answer[r]>>
    /\ phase[r] = "ended" =>
          lines[r] = CASE answer[r] # Nil -> <<answer[r]>>
                       [] answer[r] = Nil /\ accounted[r] -> <<>>
                       [] OTHER -> <<"rejected">>

\* A transaction that is about to end has met its fault, if it ends with one, and
\* nothing else; only a write can have been refused.
Closing(r) ==
    /\ err[r] \in {Nil, "missing"} \cup Gone => errorLines[r] = {} /\ met[r] = {}
    /\ err[r] \in Gone => err[r] = ctx[r]
    /\ err[r] \notin {Nil, "missing"} \cup Gone => OurFault(r) /\ "late" \notin met[r]
    /\ err[r] = "refused" => Current(r) = "write"

ToldApart(r) ==
    /\ "late" \notin met[r] =>
          /\ OurFault(r) <=> errorLines[r] # {}
          /\ answer[r] = "Internal" => OurFault(r)
          /\ OurFault(r) => answer[r] \in {"Internal", "FailedPrecondition"}
    /\ "late" \in met[r] => Over(r)
    /\ answer[r] = "Internal" => errorLines[r] \cap {"rpc_panic", "request_failed"} # {}
    /\ answer[r] = "Canceled" => ctx[r] = "canceled"
    /\ answer[r] = "DeadlineExceeded" => ctx[r] = "expired"

Tells(r) ==
    /\ phase[r] \notin {"closing", "leaving", "ended"} => errorLines[r] = {} /\ met[r] = {}
    /\ phase[r] = "closing" => Closing(r)
    /\ phase[r] = "committing" => err[r] \in {Nil, "missing"}
    /\ phase[r] \in {"leaving", "ended"} => ToldApart(r)

\* A request that waits for the pool or the database has a unit of work in hand.
Works(r) ==
    /\ phase[r] \in {"idle", "reading", "handling", "waiting"} => step[r] = 0
    /\ phase[r] \in {"waiting"} \cup Holding => work[r] # <<>>
    /\ phase[r] \in {"executing", "between"} => step[r] < Statements(Current(r))

RequestInv(r) == Accounts(r) /\ Tells(r) /\ Works(r)

Holds == \A c \in Customer : held[c] <=> phase[c] \in Holding

Holders == {c \in Customer : held[c]}

Counted == inUse = Cardinality(Holders)

Inv ==
    /\ TypeOK
    /\ \A r \in Request : RequestInv(r)
    /\ Holds
    /\ Counted

-----------------------------------------------------------------------------
(* The pool *)

LEMMA CustomersAreFinite == IsFiniteSet(Customer)
BY FS_Union, PipelineAssumption DEF Customer

LEMMA HoldersAreFinite == IsFiniteSet(Holders)
BY CustomersAreFinite, FS_Subset DEF Holders

\* What a step of customer c does to the pool, and where it does it.
PoolStep(c) ==
    \/ UNCHANGED pool /\ (phase'[c] \in Holding <=> phase[c] \in Holding)
    \/ TakeConn(c) /\ phase[c] \notin Holding /\ phase'[c] \in Holding
    \/ GiveBack(c) /\ phase[c] \in Holding /\ phase'[c] \notin Holding

LEMMA PoolKept ==
    ASSUME TypeOK, Holds, Counted, NEW c \in Customer, PoolStep(c),
           \A k \in Customer \ {c} : phase'[k] = phase[k]
    PROVE  /\ Holds' /\ Counted'
           /\ held' \in [Customer -> BOOLEAN] /\ inUse' \in 0 .. MaxOpenConns
<1> USE DEF TypeOK
<1>1. CASE UNCHANGED pool /\ (phase'[c] \in Holding <=> phase[c] \in Holding)
  BY <1>1 DEF pool, Holds, Counted, Holders
<1>2. CASE TakeConn(c) /\ phase[c] \notin Holding /\ phase'[c] \in Holding
  <2>1. Holders' = Holders \cup {c} /\ c \notin Holders
    BY <1>2 DEF TakeConn, Holders, Holds
  <2>2. Cardinality(Holders') = Cardinality(Holders) + 1
    BY <2>1, HoldersAreFinite, FS_AddElement
  <2>3. held' \in [Customer -> BOOLEAN] /\ inUse' \in 0 .. MaxOpenConns
    BY <1>2, PipelineAssumption DEF TakeConn
  <2> QED BY <1>2, <2>2, <2>3 DEF TakeConn, Holds, Counted
<1>3. CASE GiveBack(c) /\ phase[c] \in Holding /\ phase'[c] \notin Holding
  <2>1. Holders' = Holders \ {c} /\ c \in Holders
    BY <1>3 DEF GiveBack, Holders, Holds
  <2>2. Cardinality(Holders') = Cardinality(Holders) - 1
    BY <2>1, HoldersAreFinite, FS_RemoveElement
  <2>3. Cardinality(Holders') \in Nat
    BY <2>1, HoldersAreFinite, FS_RemoveElement, FS_CardinalityType
  <2>4. inUse' = Cardinality(Holders')
    BY <1>3, <2>2 DEF GiveBack, Counted
  <2>5. held' \in [Customer -> BOOLEAN] /\ inUse' \in 0 .. MaxOpenConns
    BY <1>3, <2>3, <2>4, PipelineAssumption DEF GiveBack
  <2> QED BY <1>3, <2>4, <2>5 DEF GiveBack, Holds, Counted
<1> QED BY <1>1, <1>2, <1>3 DEF PoolStep

-----------------------------------------------------------------------------
(* One customer's step *)

\* Every other customer is left alone.
Alone(c) ==
    /\ \A k \in Customer \ {c} : phase'[k] = phase[k] /\ ctx'[k] = ctx[k] /\ answer'[k] = answer[k]
    /\ \A k \in Request \ {c} :
          /\ work'[k] = work[k] /\ step'[k] = step[k] /\ err'[k] = err[k]
          /\ accounted'[k] = accounted[k] /\ lines'[k] = lines[k]
          /\ errorLines'[k] = errorLines[k] /\ met'[k] = met[k]

\* The types of all but the pool.
TypesKept ==
    held' \in [Customer -> BOOLEAN] /\ inUse' \in 0 .. MaxOpenConns => TypeOK'

LEMMA StepKeepsInv ==
    ASSUME Inv, NEW c \in Customer, Alone(c), TypesKept, PoolStep(c),
           c \in Request => RequestInv(c)'
    PROVE  Inv'
<1>1. Holds' /\ Counted' /\ TypeOK'
  BY PoolKept DEF Inv, Alone, TypesKept
<1>2. \A r \in Request : RequestInv(r)'
  BY DEF Inv, Alone, RequestInv, Accounts, Tells, Closing, ToldApart, OurFault, Over, Works, Current,
         Customer
<1> QED BY <1>1, <1>2 DEF Inv

LEMMA CodeForType ==
    ASSUME NEW e \in Error \cup {Nil}
    PROVE  /\ CodeFor(e) \in Code
           /\ LinesOf(e) \in SUBSET ErrorLine
           /\ CodeFor(e) = "Internal" <=> e \in {"database", "panic", "lost"}
           /\ CodeFor(e) = "Internal" => LinesOf(e) \cap {"rpc_panic", "request_failed"} # {}
           /\ CodeFor(e) # "Internal" => LinesOf(e) = {}
           /\ CodeFor(e) = "FailedPrecondition" <=> e = "refused"
           /\ CodeFor(e) = "Canceled" <=> e = "canceled"
           /\ CodeFor(e) = "DeadlineExceeded" <=> e = "expired"
<1> USE NilAssumption
<1>1. CASE e = Nil
  BY <1>1 DEF CodeFor, LinesOf, Code, Error, Gone, ErrorLine
<1>2. CASE e \in {"invalid", "missing", "refused"}
  BY <1>2 DEF CodeFor, LinesOf, Code, Error, Gone, ErrorLine
<1>3. CASE e \in {"canceled", "expired"}
  BY <1>3 DEF CodeFor, LinesOf, Code, Error, Gone, ErrorLine
<1>4. CASE e \in {"database", "panic", "lost"}
  BY <1>4 DEF CodeFor, LinesOf, Code, Error, Gone, ErrorLine
<1> QED BY <1>1, <1>2, <1>3, <1>4 DEF Error, Gone

Ours == {"database", "panic"}

\* What a request has met, what was logged of it and what it returns with fit together:
\* nothing went wrong, a fault did, or its context ended before its transaction.
Fits(r, e, sql, why) ==
    \/ /\ errorLines[r] \cup sql = {} /\ met[r] \cup why = {}
       /\ e \in {Nil, "invalid", "missing", "refused"} \/ (e \in Gone /\ e = ctx[r])
    \/ /\ (met[r] \cup why) \cap Ours # {} /\ "late" \notin met[r] \cup why
       /\ e \in Ours \/ (e = "refused" /\ errorLines[r] \cup sql # {})
    \/ /\ "late" \in why /\ Over(r)
       /\ e \in Gone => e = ctx[r]

LEMMA ReturnKeepsInv ==
    ASSUME Inv, NEW r \in Request, phase[r] \notin {"leaving", "ended"},
           NEW e \in Error \cup {Nil}, NEW sql \in SUBSET ErrorLine,
           NEW why \in SUBSET Mishap,
           Return(r, e, sql, why), Fits(r, e, sql, why), PoolStep(r)
    PROVE  Inv'
<1> DEFINE code == CodeFor(e)
           told == LinesOf(e)
<1>0. /\ code \in Code /\ told \in SUBSET ErrorLine
      /\ code = "Internal" => told \cap {"rpc_panic", "request_failed"} # {}
      /\ code # "Internal" => told = {}
      /\ code = "Internal" <=> e \in Ours \cup {"lost"}
      /\ code = "FailedPrecondition" <=> e = "refused"
      /\ code = "Canceled" => e = "canceled"
      /\ code = "DeadlineExceeded" => e = "expired"
  BY CodeForType, NilAssumption DEF Error, Gone, Ours
<1>1. /\ phase' = [phase EXCEPT ![r] = "leaving"]
      /\ answer' = [answer EXCEPT ![r] = code]
      /\ accounted' = [accounted EXCEPT ![r] = TRUE]
      /\ lines' = [lines EXCEPT ![r] = Append(@, code)]
      /\ errorLines' = [errorLines EXCEPT ![r] = @ \cup sql \cup told]
      /\ met' = [met EXCEPT ![r] = @ \cup why]
      /\ work' = [work EXCEPT ![r] = <<>>]
      /\ step' = [step EXCEPT ![r] = 0]
      /\ err' = [err EXCEPT ![r] = Nil]
      /\ UNCHANGED <<ctx, bounded>>
  BY DEF Return, Goto, Forget
<1> HIDE DEF code, told
<1>2. /\ r \in Customer /\ lines[r] = <<>>
      /\ TypeOK /\ errorLines[r] \subseteq ErrorLine /\ met[r] \subseteq Mishap
  BY DEF Inv, RequestInv, Accounts, Customer, TypeOK
<1>3. /\ <<code>> \in Seq(Code \cup {"rejected"}) /\ Append(<<>>, code) = <<code>>
      /\ <<>> \in Seq(Unit)
  BY <1>0
<1>4. TypesKept
  <2>1. lines' = [lines EXCEPT ![r] = <<code>>]
    BY <1>1, <1>2, <1>3
  <2>2. lines' \in [Request -> Seq(Code \cup {"rejected"})]
    BY <2>1, <1>2, <1>3 DEF TypeOK
  <2>3. work' \in [Request -> Seq(Unit)]
    BY <1>1, <1>2, <1>3 DEF TypeOK
  <2>4. /\ errorLines' \in [Request -> SUBSET ErrorLine]
        /\ met' \in [Request -> SUBSET Mishap]
    BY <1>0, <1>1, <1>2 DEF TypeOK
  <2>5. /\ answer' \in [Customer -> {Nil, "200", "503"} \cup Code]
        /\ accounted' \in [Request -> BOOLEAN]
    BY <1>0, <1>1, <1>2 DEF TypeOK
  <2>6. /\ step' \in [Request -> 0 .. 3]
        /\ err' \in [Request -> {Nil, "missing", "refused", "database", "panic"} \cup Gone]
    BY <1>1, <1>2 DEF TypeOK
  <2>7. /\ phase' \in [Customer -> {"idle", "reading", "handling", "waiting", "executing",
                               "between", "closing", "committing", "leaving", "ended"}]
        /\ ctx' \in [Customer -> {"live"} \cup Gone]
        /\ bounded' \in [Customer -> BOOLEAN]
    BY <1>1, <1>2 DEF TypeOK
  <2> QED BY <2>2, <2>3, <2>4, <2>5, <2>6, <2>7 DEF TypesKept, TypeOK
<1>5. Alone(r)
  BY <1>1, <1>2 DEF Alone, Inv, TypeOK
<1>6. /\ phase'[r] = "leaving" /\ answer'[r] = code /\ accounted'[r] /\ lines'[r] = <<code>>
      /\ errorLines'[r] = errorLines[r] \cup sql \cup told /\ met'[r] = met[r] \cup why
      /\ step'[r] = 0 /\ ctx'[r] = ctx[r]
  BY <1>1, <1>2, <1>3 DEF TypeOK
<1>7. Accounts(r)'
  BY <1>0, <1>6, NilAssumption DEF Accounts
<1>8. ToldApart(r)'
  <2>1. /\ code = "Internal" => errorLines'[r] \cap {"rpc_panic", "request_failed"} # {}
        /\ OurFault(r)' <=> (met[r] \cup why) \cap Ours # {}
        /\ Over(r)' <=> Over(r)
    BY <1>0, <1>6 DEF OurFault, Ours, Over
  <2>2. CASE /\ errorLines[r] \cup sql = {} /\ met[r] \cup why = {}
             /\ e \in {Nil, "invalid", "missing", "refused"} \/ (e \in Gone /\ e = ctx[r])
    <3>1. e \notin Ours \cup {"lost"}
      BY <2>2, NilAssumption DEF Error, Gone, Ours
    <3>2. code # "Internal" /\ errorLines'[r] = {} /\ met'[r] = {} /\ ~ OurFault(r)'
      BY <2>1, <2>2, <3>1, <1>0, <1>6
    <3>3. code \in {"Canceled", "DeadlineExceeded"} => e = ctx[r]
      BY <2>2, <1>0, NilAssumption DEF Error, Gone
    <3> QED BY <3>2, <3>3, <1>0, <1>6 DEF ToldApart
  <2>3. CASE /\ (met[r] \cup why) \cap Ours # {} /\ "late" \notin met[r] \cup why
             /\ e \in Ours \/ (e = "refused" /\ errorLines[r] \cup sql # {})
    <3>1. /\ OurFault(r)' /\ "late" \notin met'[r]
          /\ code \in {"Internal", "FailedPrecondition"}
      BY <2>1, <2>3, <1>0, <1>6
    <3>2. errorLines'[r] # {}
      BY <2>1, <2>3, <1>0, <1>6
    <3> QED BY <3>1, <3>2, <2>1, <1>6 DEF ToldApart
  <2>4. CASE "late" \in why /\ Over(r) /\ (e \in Gone => e = ctx[r])
    <3>1. "late" \in met'[r]
      BY <2>4, <1>6
    <3> QED BY <3>1, <2>1, <2>4, <1>0, <1>6 DEF ToldApart, Gone
  <2> QED BY <2>2, <2>3, <2>4 DEF Fits
<1>9. Tells(r)' /\ Works(r)'
  BY <1>6, <1>8 DEF Tells, Works, Holding
<1> QED BY <1>2, <1>4, <1>5, <1>7, <1>9, StepKeepsInv DEF RequestInv

LEMMA EndUnitKeepsInv ==
    ASSUME Inv, NEW r \in Request, phase[r] \in Holding,
           NEW e \in Error \cup {Nil}, NEW sql \in SUBSET ErrorLine,
           NEW why \in SUBSET Mishap,
           EndUnit(r, e, sql, why), Fits(r, e, sql, why),
           e = Nil => errorLines[r] = {} /\ met[r] = {}
    PROVE  Inv'
<1>1. r \in Customer /\ TypeOK /\ RequestInv(r) /\ GiveBack(r)
  BY DEF Inv, Customer, EndUnit
<1>2. CASE e = Nil
  <2>1. /\ phase' = [phase EXCEPT ![r] = "handling"]
        /\ work' = [work EXCEPT ![r] = Tail(@)]
        /\ step' = [step EXCEPT ![r] = 0]
        /\ err' = [err EXCEPT ![r] = Nil]
        /\ UNCHANGED <<ctx, bounded, answer, accounted, lines, errorLines, met>>
    BY <1>2 DEF EndUnit, Goto, report
  <2>2. Tail(work[r]) \in Seq(Unit)
    BY <1>1 DEF RequestInv, Works, TypeOK
  <2>3. TypesKept
    <3>1. work' \in [Request -> Seq(Unit)]
      BY <1>1, <2>1, <2>2 DEF TypeOK
    <3>2. /\ step' \in [Request -> 0 .. 3]
          /\ err' \in [Request -> {Nil, "missing", "refused", "database", "panic"} \cup Gone]
          /\ phase' \in [Customer -> {"idle", "reading", "handling", "waiting", "executing",
                               "between", "closing", "committing", "leaving", "ended"}]
      BY <1>1, <2>1 DEF TypeOK
    <3> QED BY <1>1, <2>1, <3>1, <3>2 DEF TypesKept, TypeOK
  <2>4. Alone(r)
    BY <1>1, <2>1 DEF Alone, TypeOK
  <2>5. phase'[r] = "handling" /\ step'[r] = 0
    BY <1>1, <2>1 DEF TypeOK
  <2>6. PoolStep(r)
    BY <1>1, <2>5 DEF PoolStep, Holding
  <2>7. RequestInv(r)'
    BY <1>1, <1>2, <2>1, <2>5 DEF RequestInv, Accounts, Tells, Works, Holding
  <2> QED BY <1>1, <2>3, <2>4, <2>6, <2>7, StepKeepsInv
<1>3. CASE e # Nil
  <2>1. Return(r, e, sql, why)
    BY <1>3 DEF EndUnit
  <2>2. phase'[r] = "leaving" /\ phase[r] \notin {"leaving", "ended"}
    BY <1>1, <2>1 DEF Return, Goto, TypeOK, Holding
  <2>3. PoolStep(r)
    BY <1>1, <2>2 DEF PoolStep, Holding
  <2> QED BY <2>1, <2>2, <2>3, ReturnKeepsInv
<1> QED BY <1>2, <1>3

\* A statement that says what it met, of a request that has met nothing so far: only the
\* absence of what it asked for is refused outside a transaction, and only a write in
\* one.
Honest(r, e, sql, why) ==
    \/ /\ sql = {} /\ why = {}
       /\ \/ e \in {Nil, "missing"} \/ (e \in Gone /\ e = ctx[r])
          \/ e = "refused" /\ ~ InTx(r)
    \/ /\ why # {} /\ why \subseteq Ours
       /\ e \in Ours \/ (e = "refused" /\ InTx(r) /\ Current(r) = "write")

InTransaction == {Nil, "missing", "refused", "database", "panic"} \cup Gone

LEMMA CloseKeepsInv ==
    ASSUME Inv, NEW r \in Request, phase[r] \in {"executing", "between"},
           NEW e \in InTransaction, NEW sql \in SUBSET ErrorLine,
           NEW why \in SUBSET Mishap,
           Close(r, e, sql, why), Honest(r, e, sql, why),
           e = "refused" => Current(r) = "write" /\ why # {}
    PROVE  Inv'
<1>1. /\ r \in Customer /\ TypeOK /\ RequestInv(r)
      /\ errorLines[r] = {} /\ met[r] = {} /\ work[r] # <<>>
  BY DEF Inv, Customer, RequestInv, Tells, Works, Holding
<1>2. /\ phase' = [phase EXCEPT ![r] = "closing"]
      /\ err' = [err EXCEPT ![r] = e]
      /\ errorLines' = [errorLines EXCEPT ![r] = @ \cup sql]
      /\ met' = [met EXCEPT ![r] = @ \cup why]
      /\ UNCHANGED <<ctx, bounded, work, step, held, inUse, answer, accounted, lines>>
  BY DEF Close, Goto, pool
<1>3. /\ phase'[r] = "closing" /\ err'[r] = e
      /\ errorLines'[r] = sql /\ met'[r] = why
  BY <1>1, <1>2 DEF TypeOK
<1>4. TypesKept
  BY <1>1, <1>2 DEF TypesKept, TypeOK, InTransaction
<1>5. Alone(r)
  BY <1>1, <1>2 DEF Alone, TypeOK
<1>6. PoolStep(r)
  BY <1>2, <1>3 DEF PoolStep, Holding, pool
<1>7. Closing(r)'
  <2>1. OurFault(r)' <=> why \cap Ours # {}
    BY <1>3 DEF OurFault, Ours
  <2>2. Current(r)' = Current(r)
    BY <1>2 DEF Current
  <2>3. e \notin {Nil, "missing"} \cup Gone => why # {} /\ why \subseteq Ours
    BY DEF Honest
  <2>4. e \in {Nil, "missing"} \cup Gone => sql = {} /\ why = {}
    BY NilAssumption DEF Honest, Error, Gone, Ours
  <2>5. e \in Gone => e = ctx[r]
    BY NilAssumption DEF Honest, Error, Gone, Ours
  <2> QED BY <1>2, <1>3, <2>1, <2>2, <2>3, <2>4, <2>5 DEF Closing, Ours
<1>8. RequestInv(r)'
  BY <1>1, <1>2, <1>3, <1>7 DEF RequestInv, Accounts, Tells, Works, Holding
<1> QED BY <1>1, <1>4, <1>5, <1>6, <1>8, StepKeepsInv

LEMMA StatementReturnsKeepsInv ==
    ASSUME Inv, NEW r \in Request, phase[r] = "executing",
           NEW e \in InTransaction, NEW sql \in SUBSET ErrorLine,
           NEW why \in SUBSET Mishap,
           StatementReturns(r, e, sql, why), Honest(r, e, sql, why)
    PROVE  Inv'
<1>1. /\ errorLines[r] = {} /\ met[r] = {}
      /\ phase[r] \in Holding /\ e \in Error \cup {Nil}
  BY DEF Inv, RequestInv, Tells, Holding, InTransaction, Error
<1>2. CASE InTx(r)
  <2>1. e = "refused" => Current(r) = "write" /\ why # {}
    BY <1>2, NilAssumption DEF Honest, Error, Gone, Ours
  <2> QED BY <1>2, <2>1, CloseKeepsInv DEF StatementReturns
<1>3. CASE ~ InTx(r)
  <2>1. Fits(r, e, sql, why)
    BY <1>1, <1>3 DEF Honest, Fits, Ours
  <2> QED BY <1>1, <1>3, <2>1, EndUnitKeepsInv DEF StatementReturns
<1> QED BY <1>2, <1>3

-----------------------------------------------------------------------------
(* The actions *)

\* A request moves without its connection, its lines or its faults being touched.
LEMMA MoveKeepsInv ==
    ASSUME Inv, NEW r \in Request, NEW p \in {"reading", "handling", "waiting", "between",
                                              "executing", "committing"},
           Goto(r, p),
           UNCHANGED <<ctx, err, pool, answer, report>>,
           bounded' \in [Customer -> BOOLEAN],
           NEW w \in Seq(Unit), work' = [work EXCEPT ![r] = w],
           NEW s \in 0 .. 3, step' = [step EXCEPT ![r] = s],
           phase[r] \notin {"leaving", "ended"},
           p = "committing" => err[r] \in {Nil, "missing"},
           phase[r] = "closing" => p = "committing",
           phase[r] \in Holding <=> p \in Holding,
           p \in {"reading", "handling", "waiting"} => s = 0,
           p \notin {"reading", "handling"} => w # <<>>,
           p \in {"executing", "between"} => s < Statements(Head(w))
    PROVE  Inv'
<1>1. /\ r \in Customer /\ TypeOK /\ RequestInv(r)
  BY DEF Inv, Customer
<1>2. /\ phase' = [phase EXCEPT ![r] = p]
      /\ UNCHANGED <<ctx, err, held, inUse, answer, accounted, lines, errorLines, met>>
  BY DEF Goto, pool, report
<1>3. phase'[r] = p /\ work'[r] = w /\ step'[r] = s
  BY <1>1, <1>2 DEF TypeOK
<1>4. TypesKept
  <2>1. /\ phase' \in [Customer -> {"idle", "reading", "handling", "waiting", "executing",
                               "between", "closing", "committing", "leaving", "ended"}]
        /\ work' \in [Request -> Seq(Unit)]
        /\ step' \in [Request -> 0 .. 3]
    BY <1>1, <1>2 DEF TypeOK
  <2> QED BY <1>1, <1>2, <2>1 DEF TypesKept, TypeOK
<1>5. Alone(r)
  BY <1>1, <1>2 DEF Alone, TypeOK
<1>6. PoolStep(r)
  BY <1>2, <1>3 DEF PoolStep, pool
<1>7. errorLines[r] = {} /\ met[r] = {}
  BY <1>1, NilAssumption DEF RequestInv, Tells, Closing
<1>8. RequestInv(r)'
  BY <1>1, <1>2, <1>3, <1>7 DEF RequestInv, Accounts, Tells, Works, Holding, Current
<1> QED BY <1>1, <1>4, <1>5, <1>6, <1>8, StepKeepsInv

\* The context of a request that is under way ends.
LEMMA ContextEndsKeepsInv ==
    ASSUME Inv, NEW c \in Customer, NEW g \in Gone, UnderWay(c), ~ Over(c),
           ctx' = [ctx EXCEPT ![c] = g], StaysOpen
    PROVE  Inv'
<1>1. /\ TypeOK
      /\ UNCHANGED <<phase, bounded, work, step, err, held, inUse, answer, accounted, lines,
                     errorLines, met>>
  BY DEF Inv, StaysOpen, pool, report
<1>2. ctx'[c] = g
  BY <1>1 DEF TypeOK
<1>3. TypesKept
  BY <1>1 DEF TypesKept, TypeOK
<1>4. Alone(c)
  BY <1>1 DEF Alone, TypeOK
<1>5. PoolStep(c)
  BY <1>1 DEF PoolStep, pool
<1>6. ASSUME c \in Request PROVE RequestInv(c)'
  <2>1. RequestInv(c)
    BY <1>6 DEF Inv
  <2>2. phase[c] = "closing" => Closing(c)'
    BY <2>1, <1>1 DEF RequestInv, Tells, Closing, Over, OurFault, Current
  <2> QED BY <2>1, <2>2, <1>1 DEF RequestInv, Accounts, Tells, Works, Current, UnderWay
<1> QED BY <1>3, <1>4, <1>5, <1>6, StepKeepsInv

LEMMA HangUpKeepsInv ==
    ASSUME Inv, NEW c \in Customer, HangUp(c) \/ Expire(c) PROVE Inv'
BY ContextEndsKeepsInv DEF HangUp, Expire, Gone

\* What never became an RPC ends without an answer of a handler.
LEMMA UnansweredKeepsInv ==
    ASSUME Inv, NEW r \in Request, phase[r] \in {"idle", "reading"}, Goto(r, "leaving"),
           NEW a \in BOOLEAN, accounted' = [accounted EXCEPT ![r] = a],
           UNCHANGED <<ctx, bounded, work, step, err, pool, answer, lines, errorLines, met>>
    PROVE  Inv'
<1>1. /\ TypeOK /\ RequestInv(r) /\ r \in Customer
      /\ phase' = [phase EXCEPT ![r] = "leaving"]
      /\ UNCHANGED <<ctx, bounded, work, step, err, held, inUse, answer, lines, errorLines, met>>
  BY DEF Inv, Customer, Goto, pool
<1>2. phase'[r] = "leaving"
  BY <1>1 DEF TypeOK
<1>3. TypesKept
  BY <1>1 DEF TypesKept, TypeOK
<1>4. Alone(r)
  BY <1>1 DEF Alone, TypeOK
<1>5. PoolStep(r)
  BY <1>1, <1>2 DEF PoolStep, Holding, pool
<1>6. RequestInv(r)'
  BY <1>1, <1>2, NilAssumption DEF RequestInv, Accounts, Tells, ToldApart, OurFault, Works, Holding,
     Code
<1> QED BY <1>1, <1>3, <1>4, <1>5, <1>6, StepKeepsInv

LEMMA RouteKeepsInv ==
    ASSUME Inv, NEW r \in Request, Route(r) PROVE Inv'
<1>1. TypeOK /\ RequestInv(r) /\ r \in Customer
  BY DEF Inv, Customer
<1>2. CASE Unroutable(r)
  <2>1. accounted' = [accounted EXCEPT ![r] = accounted[r]] /\ accounted[r] \in BOOLEAN
    BY <1>1, <1>2 DEF Unroutable, report, TypeOK
  <2>2. UNCHANGED <<ctx, bounded, work, step, err, pool, answer, lines, errorLines, met>>
    BY <1>2 DEF Unroutable, report
  <2> QED BY <1>2, <2>1, <2>2, UnansweredKeepsInv DEF Unroutable
<1>3. CASE ServeQuietly(r)
  BY <1>3, UnansweredKeepsInv DEF ServeQuietly
<1>4. CASE BeginRead(r)
  <2>1. /\ work' = [work EXCEPT ![r] = work[r]] /\ work[r] \in Seq(Unit)
        /\ step' = [step EXCEPT ![r] = step[r]] /\ step[r] \in 0 .. 3 /\ step[r] = 0
        /\ bounded' \in [Customer -> BOOLEAN]
    BY <1>1, <1>4 DEF BeginRead, TypeOK, RequestInv, Works
  <2>2. /\ Goto(r, "reading") /\ phase[r] = "idle"
        /\ UNCHANGED <<ctx, err, pool, answer, report>>
    BY <1>4 DEF BeginRead
  <2> QED BY <2>1, <2>2, MoveKeepsInv DEF Holding
<1> QED BY <1>2, <1>3, <1>4 DEF Route

LEMMA ReadKeepsInv ==
    ASSUME Inv, NEW r \in Request, Read(r) PROVE Inv'
<1>1. TypeOK /\ RequestInv(r) /\ r \in Customer
  BY DEF Inv, Customer
<1>2. CASE ReadFails(r) \/ ReadTimesOut(r)
  <2>1. ReadFails(r)
    BY <1>2 DEF ReadTimesOut
  <2>2. accounted' = [accounted EXCEPT ![r] = accounted[r]] /\ accounted[r] \in BOOLEAN
    BY <1>1, <2>1 DEF ReadFails, report, TypeOK
  <2> QED BY <2>1, <2>2, UnansweredKeepsInv DEF ReadFails, report
<1>3. CASE Decode(r)
  <2>1. PICK m \in Methods : work' = [work EXCEPT ![r] = m]
    BY <1>3 DEF Decode
  <2>2. /\ m \in Seq(Unit)
        /\ step' = [step EXCEPT ![r] = step[r]] /\ step[r] \in 0 .. 3 /\ step[r] = 0
        /\ bounded' \in [Customer -> BOOLEAN]
    BY <1>1, <1>3, PipelineAssumption DEF Decode, TypeOK, RequestInv, Works
  <2> QED BY <1>3, <2>1, <2>2, MoveKeepsInv DEF Decode, Holding
<1> QED BY <1>2, <1>3 DEF Read

\* A handler's return, the pool left alone.
LEMMA QuietReturnKeepsInv ==
    ASSUME Inv, NEW r \in Request, phase[r] \in {"handling", "waiting"},
           NEW e \in Error \cup {Nil}, NEW why \in SUBSET Mishap,
           Return(r, e, {}, why), UNCHANGED pool,
           \/ why = {} /\ (e \in {Nil, "invalid"} \/ (e \in Gone /\ e = ctx[r]))
           \/ why = {"panic"} /\ e = "panic"
    PROVE  Inv'
<1>1. /\ TypeOK /\ r \in Customer /\ errorLines[r] = {} /\ met[r] = {}
  BY DEF Inv, Customer, RequestInv, Tells
<1>2. Fits(r, e, {}, why)
  BY <1>1 DEF Fits, Ours
<1>3. PoolStep(r)
  BY <1>1 DEF PoolStep, Return, Goto, TypeOK, Holding
<1> QED BY <1>2, <1>3, ReturnKeepsInv

LEMMA HandlingKeepsInv ==
    ASSUME Inv, NEW r \in Request,
           BadArgument(r) \/ Succeed(r) \/ Panic(r) \/ Ask(r) \/ GiveUp(r)
    PROVE  Inv'
<1>1. TypeOK /\ RequestInv(r) /\ r \in Customer
  BY DEF Inv, Customer
<1>2. CASE BadArgument(r)
  <2>1. "invalid" \in Error /\ {} \in SUBSET Mishap
    BY DEF Error
  <2> QED BY <1>2, <2>1, QuietReturnKeepsInv DEF BadArgument
<1>3. CASE Succeed(r)
  <2>1. Return(r, Nil, {}, {}) /\ UNCHANGED pool /\ phase[r] = "handling" /\ {} \in SUBSET Mishap
    BY <1>3 DEF Succeed
  <2> QED BY <2>1, QuietReturnKeepsInv
<1>4. CASE Panic(r)
  <2>1. "panic" \in Error /\ {"panic"} \in SUBSET Mishap
    BY DEF Error, Mishap
  <2> QED BY <1>4, <2>1, QuietReturnKeepsInv DEF Panic
<1>5. CASE GiveUp(r)
  <2>1. ctx[r] \in Gone /\ ctx[r] \in Error
    BY <1>5 DEF GiveUp, Over, Error
  <2> QED BY <1>5, <2>1, QuietReturnKeepsInv DEF GiveUp
<1>6. CASE Ask(r)
  <2>1. /\ work' = [work EXCEPT ![r] = work[r]] /\ work[r] \in Seq(Unit)
        /\ step' = [step EXCEPT ![r] = step[r]] /\ step[r] \in 0 .. 3 /\ step[r] = 0
        /\ bounded' \in [Customer -> BOOLEAN]
    BY <1>1, <1>6 DEF Ask, TypeOK, RequestInv, Works
  <2>2. /\ Goto(r, "waiting") /\ phase[r] = "handling" /\ work[r] # <<>>
        /\ UNCHANGED <<ctx, err, pool, answer, report>>
    BY <1>6 DEF Ask
  <2> QED BY <2>1, <2>2, MoveKeepsInv DEF Holding
<1> QED BY <1>2, <1>3, <1>4, <1>5, <1>6

LEMMA LeaveKeepsInv ==
    ASSUME Inv, NEW r \in Request, Leave(r) PROVE Inv'
<1>1. /\ TypeOK /\ RequestInv(r) /\ r \in Customer /\ phase[r] = "leaving"
      /\ phase' = [phase EXCEPT ![r] = "ended"]
      /\ UNCHANGED <<ctx, bounded, work, step, err, held, inUse, answer, accounted,
                     errorLines, met>>
  BY DEF Inv, Customer, Goto, pool, Leave
<1>2. lines[r] \in Seq(Code \cup {"rejected"}) /\ answer[r] \in {Nil, "200", "503"} \cup Code
  BY <1>1 DEF TypeOK
<1>3. /\ Append(lines[r], "rejected") \in Seq(Code \cup {"rejected"})
      /\ Append(<<>>, "rejected") = <<"rejected">>
  BY <1>2
<1>4. PICK l \in Seq(Code \cup {"rejected"}) :
          /\ lines' = [lines EXCEPT ![r] = l]
          /\ l = IF accounted[r] THEN lines[r] ELSE Append(lines[r], "rejected")
  BY <1>2, <1>3 DEF Leave
<1>5. phase'[r] = "ended" /\ lines'[r] = l
  BY <1>1, <1>4 DEF TypeOK
<1>6. TypesKept
  <2>1. lines' \in [Request -> Seq(Code \cup {"rejected"})]
    BY <1>1, <1>4 DEF TypeOK
  <2> QED BY <1>1, <2>1 DEF TypesKept, TypeOK
<1>7. Alone(r)
  BY <1>1, <1>4 DEF Alone, TypeOK
<1>8. PoolStep(r)
  BY <1>1, <1>5 DEF PoolStep, Holding, pool
<1>9. Accounts(r)'
  BY <1>1, <1>3, <1>4, <1>5 DEF RequestInv, Accounts
<1>10. Tells(r)' /\ Works(r)'
  BY <1>1, <1>5 DEF RequestInv, Tells, ToldApart, OurFault, Over, Works, Holding
<1> QED BY <1>1, <1>6, <1>7, <1>8, <1>9, <1>10, StepKeepsInv DEF RequestInv

\* What a request that has a statement or a transaction in hand looks like.
LEMMA AtWork ==
    ASSUME Inv, NEW r \in Request, phase[r] \in Holding
    PROVE  /\ work[r] \in Seq(Unit) /\ work[r] # <<>> /\ Current(r) \in Unit
           /\ step[r] \in 0 .. 3 /\ err[r] \in InTransaction /\ ctx[r] \in {"live"} \cup Gone
           /\ phase[r] # "closing" => errorLines[r] = {} /\ met[r] = {}
           /\ phase[r] = "closing" => Closing(r)
           /\ phase[r] = "committing" => err[r] \in {Nil, "missing"}
           /\ phase[r] \in {"executing", "between"} => step[r] < Statements(Current(r))
<1>1. TypeOK /\ RequestInv(r) /\ r \in Customer
  BY DEF Inv, Customer
<1>2. work[r] \in Seq(Unit) /\ work[r] # <<>>
  BY <1>1 DEF TypeOK, RequestInv, Works
<1>3. Current(r) \in Unit
  BY <1>2 DEF Current
<1> QED BY <1>1, <1>2, <1>3 DEF TypeOK, InTransaction, RequestInv, Tells, Works, Holding

\* The pointwise assignments of a step that leaves work, step and bounded alone.
LEMMA LeftAlone ==
    ASSUME Inv, NEW r \in Request, UNCHANGED <<bounded, work>>
    PROVE  /\ work' = [work EXCEPT ![r] = work[r]] /\ bounded' \in [Customer -> BOOLEAN]
           /\ step' = step => step' = [step EXCEPT ![r] = step[r]]
BY DEF Inv, TypeOK

LEMMA ExecutedKeepsInv ==
    ASSUME Inv, NEW r \in Request, Executed(r) \/ FoundNothing(r)
    PROVE  Inv'
<1>1. phase[r] = "executing" /\ phase[r] \in Holding
  BY DEF Executed, FoundNothing, Holding
<1>3. CASE \E e \in {Nil, "missing"} \cup {x \in {"refused"} : Current(r) = "read"} :
              StatementReturns(r, e, {}, {})
  <2>1. PICK e \in {Nil, "missing"} \cup {x \in {"refused"} : Current(r) = "read"} :
            StatementReturns(r, e, {}, {})
    BY <1>3
  <2>2. e \in InTransaction /\ Honest(r, e, {}, {})
    BY DEF InTransaction, Honest, InTx
  <2> QED BY <1>1, <2>1, <2>2, StatementReturnsKeepsInv
<1>4. CASE /\ ~ (Current(r) = "read" \/ step[r] + 1 = Statements(Current(r)))
           /\ step' = [step EXCEPT ![r] = @ + 1]
           /\ Goto(r, "between")
           /\ UNCHANGED <<ctx, bounded, work, err, pool, answer, report>>
  <2>1. step[r] + 1 < Statements(Current(r)) /\ step[r] + 1 \in 0 .. 3
    BY <1>1, <1>4, AtWork DEF Statements, Unit
  <2>2. step' = [step EXCEPT ![r] = step[r] + 1]
    BY <1>4
  <2> QED BY <1>1, <1>4, <2>1, <2>2, AtWork, LeftAlone, MoveKeepsInv DEF Holding, Current
<1> QED BY <1>3, <1>4 DEF Executed, FoundNothing

LEMMA StatementFailsKeepsInv ==
    ASSUME Inv, NEW r \in Request, StatementFails(r) \/ Abort(r)
    PROVE  Inv'
<1>1. phase[r] = "executing"
  BY DEF StatementFails, Abort
<1>2. CASE StatementFails(r)
  <2>1. PICK e \in {"database"} \cup {x \in {"refused"} : Current(r) = "write" /\ InTx(r)} :
          StatementReturns(r, e,
              {l \in {"sql_failed"} : Current(r) = "read" \/ (Current(r) = "delete" /\ InTx(r))},
              {"database"})
    BY <1>2 DEF StatementFails
  <2>2. PICK sql \in SUBSET ErrorLine : StatementReturns(r, e, sql, {"database"})
    BY <2>1 DEF ErrorLine
  <2>3. e \in InTransaction /\ {"database"} \in SUBSET Mishap /\ Honest(r, e, sql, {"database"})
    BY <2>1 DEF InTransaction, Mishap, Honest, Ours
  <2> QED BY <1>1, <2>2, <2>3, StatementReturnsKeepsInv
<1>3. CASE Abort(r)
  <2>1. ctx[r] \in InTransaction /\ Honest(r, ctx[r], {}, {})
    BY <1>3 DEF Abort, Over, InTransaction, Honest
  <2> QED BY <1>1, <1>3, <2>1, StatementReturnsKeepsInv DEF Abort
<1> QED BY <1>2, <1>3

LEMMA NextStatementKeepsInv ==
    ASSUME Inv, NEW r \in Request, NextStatement(r) \/ PanicInTx(r)
    PROVE  Inv'
<1>1. phase[r] = "between" /\ phase[r] \in Holding
  BY DEF NextStatement, PanicInTx, Holding
<1>2. CASE Close(r, ctx[r], {}, {}) /\ Over(r)
  <2>1. /\ ctx[r] \in InTransaction /\ Honest(r, ctx[r], {}, {}) /\ ctx[r] # "refused"
    BY <1>2 DEF Over, InTransaction, Honest, Gone
  <2> QED BY <1>1, <1>2, <2>1, CloseKeepsInv
<1>3. CASE /\ Goto(r, "executing")
           /\ UNCHANGED <<ctx, bounded, work, step, err, pool, answer, report>>
  BY <1>1, <1>3, AtWork, LeftAlone, MoveKeepsInv DEF Holding, Current
<1>4. CASE PanicInTx(r)
  <2>1. /\ "panic" \in InTransaction /\ {"panic"} \in SUBSET Mishap
        /\ Honest(r, "panic", {}, {"panic"})
    BY DEF InTransaction, Mishap, Honest, Ours
  <2> QED BY <1>1, <1>4, <2>1, CloseKeepsInv DEF PanicInTx
<1> QED BY <1>2, <1>3, <1>4 DEF NextStatement

\* The end of a transaction with what it has in hand.
LEMMA EndsWithErr ==
    ASSUME Inv, NEW r \in Request, phase[r] \in {"closing", "committing"},
           EndUnit(r, err[r], SqlLine(r, err[r]), {})
    PROVE  Inv'
<1>1. /\ phase[r] \in Holding /\ err[r] \in Error \cup {Nil} /\ err[r] \in InTransaction
      /\ SqlLine(r, err[r]) \in SUBSET ErrorLine
  BY AtWork DEF Holding, InTransaction, Error, SqlLine, ErrorLine
<1>2. CASE err[r] \in {Nil, "missing"} \cup Gone
  <2>1. /\ errorLines[r] = {} /\ met[r] = {} /\ SqlLine(r, err[r]) = {}
        /\ err[r] \in Gone => err[r] = ctx[r]
    BY <1>1, <1>2, AtWork, NilAssumption DEF Closing, Error, Gone, SqlLine
  <2> QED BY <1>1, <1>2, <2>1, EndUnitKeepsInv DEF Fits
<1>3. CASE err[r] \notin {Nil, "missing"} \cup Gone
  <2>1. /\ met[r] \cap Ours # {} /\ "late" \notin met[r]
        /\ err[r] \in Ours \/ (err[r] = "refused" /\ SqlLine(r, err[r]) # {})
    BY <1>1, <1>3, AtWork DEF Closing, OurFault, Ours, InTransaction, SqlLine
  <2>2. Fits(r, err[r], SqlLine(r, err[r]), {})
    BY <2>1 DEF Fits
  <2> QED BY <1>1, <1>3, <2>2, EndUnitKeepsInv
<1> QED BY <1>2, <1>3

\* The end of a transaction with its context's error, when nothing else was wrong.
LEMMA EndsWithContext ==
    ASSUME Inv, NEW r \in Request, phase[r] \in {"closing", "committing"}, Over(r),
           err[r] \in {Nil, "missing"}, EndUnit(r, ctx[r], {}, {})
    PROVE  Inv'
<1>1. phase[r] \in Holding /\ ctx[r] \in Error \cup {Nil} /\ ctx[r] # Nil
  BY NilAssumption DEF Holding, Over, Error
<1>2. errorLines[r] = {} /\ met[r] = {}
  BY <1>1, AtWork DEF Closing
<1>3. Fits(r, ctx[r], {}, {})
  BY <1>2 DEF Fits, Over
<1> QED BY <1>1, <1>3, EndUnitKeepsInv

\* The end of a transaction with an error of the database.
LEMMA EndsWithFault ==
    ASSUME Inv, NEW r \in Request, phase[r] \in {"closing", "committing"},
           EndUnit(r, "database", SqlLine(r, "database"), {"database"})
    PROVE  Inv'
<1>1. /\ "database" \in Error \cup {Nil} /\ "database" # Nil /\ {"database"} \in SUBSET Mishap
      /\ SqlLine(r, "database") \in SUBSET ErrorLine /\ phase[r] \in Holding
  BY NilAssumption DEF Error, Mishap, SqlLine, ErrorLine, Holding
<1>2. "late" \notin met[r]
  BY <1>1, AtWork DEF Closing
<1>3. Fits(r, "database", SqlLine(r, "database"), {"database"})
  BY <1>2 DEF Fits, Ours
<1> QED BY <1>1, <1>3, EndUnitKeepsInv

\* The end of a transaction after its context's.
LEMMA EndsTooLate ==
    ASSUME Inv, NEW r \in Request, phase[r] = "closing", Over(r),
           NEW e \in {"lost", ctx[r]}, EndUnit(r, e, SqlLine(r, e), {"late"})
    PROVE  Inv'
<1>1. /\ e \in Error \cup {Nil} /\ e # Nil /\ {"late"} \in SUBSET Mishap
      /\ SqlLine(r, e) \in SUBSET ErrorLine /\ phase[r] \in Holding
      /\ e \in Gone => e = ctx[r]
  BY NilAssumption DEF Error, Gone, Mishap, SqlLine, ErrorLine, Holding, Over
<1>2. Fits(r, e, SqlLine(r, e), {"late"})
  BY <1>1 DEF Fits
<1> QED BY <1>1, <1>2, EndUnitKeepsInv

LEMMA CommitKeepsInv ==
    ASSUME Inv, NEW r \in Request,
           Commit(r) \/ CommitTooLate(r) \/ Committed(r) \/ CommitFails(r) \/ CommitAborted(r)
    PROVE  Inv'
<1>1. phase[r] \in {"closing", "committing"} /\ phase[r] \in Holding
  BY DEF Commit, CommitTooLate, Committed, CommitFails, CommitAborted, Holding
<1>2. err[r] \in {Nil, "missing"}
  BY <1>1, AtWork DEF Commit, CommitTooLate, Committed, CommitFails, CommitAborted, Commits
<1>4. CASE Commit(r)
  <2>1. /\ Goto(r, "committing") /\ phase[r] = "closing"
        /\ UNCHANGED <<ctx, bounded, work, step, err, pool, answer, report>>
    BY <1>4 DEF Commit
  <2> QED BY <1>1, <1>2, <2>1, AtWork, LeftAlone, MoveKeepsInv DEF Holding
<1>5. CASE CommitTooLate(r)
  BY <1>1, <1>2, <1>5, EndsWithContext, EndsTooLate DEF CommitTooLate
<1>6. CASE Committed(r)
  <2>1. SqlLine(r, err[r]) = {}
    BY <1>2 DEF SqlLine
  <2> QED BY <1>1, <1>6, <2>1, EndsWithErr DEF Committed
<1>7. CASE CommitFails(r)
  BY <1>1, <1>7, EndsWithFault DEF CommitFails
<1>8. CASE CommitAborted(r)
  BY <1>1, <1>2, <1>8, EndsWithContext DEF CommitAborted
<1> QED BY <1>4, <1>5, <1>6, <1>7, <1>8

LEMMA RollbackKeepsInv ==
    ASSUME Inv, NEW r \in Request, Rollback(r) PROVE Inv'
<1>1. phase[r] = "closing"
  BY DEF Rollback
<1> QED BY <1>1, EndsWithErr, EndsWithFault, EndsTooLate DEF Rollback

LEMMA AcquireKeepsInv ==
    ASSUME Inv, NEW c \in Customer, Acquire(c) PROVE Inv'
<1>1. /\ TypeOK /\ phase[c] = "waiting" /\ TakeConn(c)
      /\ phase' = [phase EXCEPT ![c] = "executing"]
      /\ UNCHANGED <<ctx, bounded, work, step, err, answer, accounted, lines, errorLines, met>>
  BY DEF Inv, Acquire, Goto, report
<1>2. phase'[c] = "executing"
  BY <1>1 DEF TypeOK
<1>3. TypesKept
  BY <1>1 DEF TypesKept, TypeOK
<1>4. Alone(c)
  BY <1>1 DEF Alone, TypeOK
<1>5. PoolStep(c)
  BY <1>1, <1>2 DEF PoolStep, Holding
<1>6. ASSUME c \in Request PROVE RequestInv(c)'
  <2>1. RequestInv(c)
    BY <1>6 DEF Inv
  <2>2. Current(c) \in Unit /\ step[c] = 0
    BY <1>1, <1>6, <2>1 DEF RequestInv, Works, TypeOK, Current
  <2>3. Works(c)'
    BY <1>1, <1>2, <2>1, <2>2 DEF RequestInv, Works, Current, Holding, Statements, Unit
  <2> QED BY <1>1, <1>2, <2>1, <2>3 DEF RequestInv, Accounts, Tells
<1> QED BY <1>3, <1>4, <1>5, <1>6, StepKeepsInv

LEMMA ProbeStopsKeepsInv ==
    ASSUME Inv, NEW p \in Probe, NEW s \in {"200", "503"}, StopProbe(p, s),
           PoolStep(p)
    PROVE  Inv'
<1>1. /\ TypeOK /\ p \in Customer /\ p \notin Request
      /\ phase' = [phase EXCEPT ![p] = "ended"]
      /\ answer' = [answer EXCEPT ![p] = s]
      /\ UNCHANGED <<ctx, bounded, work, step, err, accounted, lines, errorLines, met>>
  BY PipelineAssumption DEF Inv, Customer, StopProbe, Goto, report
<1>2. TypesKept
  BY <1>1 DEF TypesKept, TypeOK
<1>3. Alone(p)
  BY <1>1 DEF Alone, TypeOK
<1> QED BY <1>1, <1>2, <1>3, StepKeepsInv

LEMMA ReadyKeepsInv ==
    ASSUME Inv, NEW p \in Probe, Ready(p) PROVE Inv'
<1>1. TypeOK /\ p \in Customer /\ p \notin Request /\ (held[p] <=> phase[p] \in Holding)
  BY PipelineAssumption DEF Inv, Customer, Holds
<1>2. ASSUME NEW s \in {"200", "503"}, StopProbe(p, s)
      PROVE  phase'[p] = "ended"
  BY <1>1, <1>2 DEF StopProbe, Goto, TypeOK
<1>3. CASE ProbeDraining(p)
  BY <1>1, <1>2, <1>3, ProbeStopsKeepsInv DEF ProbeDraining, PoolStep, Holding
<1>4. CASE PingReturns(p)
  BY <1>1, <1>2, <1>4, ProbeStopsKeepsInv DEF PingReturns, PoolStep, Holding
<1>5. CASE PingAborted(p)
  BY <1>1, <1>2, <1>5, ProbeStopsKeepsInv DEF PingAborted, PoolStep, Holding
<1>6. CASE BeginPing(p)
  <2>1. /\ phase[p] = "idle"
        /\ phase' = [phase EXCEPT ![p] = "waiting"]
        /\ bounded' = [bounded EXCEPT ![p] = TRUE]
        /\ UNCHANGED <<ctx, work, step, err, held, inUse, answer, accounted, lines, errorLines,
                       met>>
    BY <1>6 DEF BeginPing, Goto, pool, report
  <2>2. TypesKept
    BY <1>1, <2>1 DEF TypesKept, TypeOK
  <2>3. Alone(p)
    BY <1>1, <2>1 DEF Alone, TypeOK
  <2>4. PoolStep(p)
    BY <1>1, <2>1 DEF PoolStep, Holding, pool, TypeOK
  <2> QED BY <1>1, <2>2, <2>3, <2>4, StepKeepsInv
<1> QED BY <1>3, <1>4, <1>5, <1>6 DEF Ready

-----------------------------------------------------------------------------
(* The invariant *)

LEMMA InitInv == Init => Inv
<1> SUFFICES ASSUME Init PROVE Inv
  OBVIOUS
<1>1. Customer = Request \cup Probe /\ <<>> \in Seq(Unit) /\ MaxOpenConns \in Nat
  BY PipelineAssumption DEF Customer
<1>2. <<>> \in Seq(Code \cup {"rejected"})
  OBVIOUS
<1>3. TypeOK
  BY <1>1, <1>2 DEF Init, TypeOK, ErrorLine
<1>4. Holds
  BY DEF Init, Holds, Holding
<1>5. Counted
  <2>1. Holders = {}
    BY DEF Init, Holders
  <2> QED BY <2>1, FS_EmptySet DEF Init, Counted
<1>6. \A r \in Request : RequestInv(r)
  BY <1>1 DEF Init, RequestInv, Accounts, Tells, Works, Holding
<1> QED BY <1>3, <1>4, <1>5, <1>6 DEF Inv

LEMMA NextInv == Inv /\ [Next]_vars => Inv'
<1> SUFFICES ASSUME Inv, [Next]_vars PROVE Inv'
  OBVIOUS
<1>1. ASSUME NEW r \in Request, Route(r) \/ Read(r) PROVE Inv'
  BY <1>1, RouteKeepsInv, ReadKeepsInv
<1>2. ASSUME NEW r \in Request, Handle(r) PROVE Inv'
  BY <1>2, HandlingKeepsInv, NextStatementKeepsInv, CommitKeepsInv, LeaveKeepsInv DEF Handle
<1>3. ASSUME NEW r \in Request, Release(r) PROVE Inv'
  BY <1>3, HandlingKeepsInv, StatementFailsKeepsInv, CommitKeepsInv, RollbackKeepsInv
     DEF Release, RollbackAborted
<1>4. ASSUME NEW r \in Request, Answer(r) PROVE Inv'
  BY <1>4, ExecutedKeepsInv, StatementFailsKeepsInv, CommitKeepsInv, RollbackKeepsInv
     DEF Answer
<1>5. ASSUME NEW p \in Probe, Ready(p) PROVE Inv'
  BY <1>5, ReadyKeepsInv
<1>6. ASSUME NEW c \in Customer, HangUp(c) \/ Expire(c) \/ Acquire(c) PROVE Inv'
  BY <1>6, HangUpKeepsInv, AcquireKeepsInv
<1>7. CASE UNCHANGED vars
  <2>1. UNCHANGED <<phase, ctx, bounded, work, step, err, held, inUse, answer, accounted, lines,
                    errorLines, met>>
    BY <1>7 DEF vars, pool, report
  <2>2. TypeOK' /\ Holds' /\ Counted'
    BY <2>1 DEF Inv, TypeOK, Holds, Counted, Holders
  <2>3. \A r \in Request : RequestInv(r)'
    BY <2>1 DEF Inv, RequestInv, Accounts, Tells, Closing, ToldApart, OurFault, Over, Works,
              Current
  <2> QED BY <2>2, <2>3 DEF Inv
<1> QED BY <1>1, <1>2, <1>3, <1>4, <1>5, <1>6, <1>7 DEF Next

\* The inductive invariant holds in every reachable state.
THEOREM PipelineInvariance == Spec => []Inv
BY InitInv, NextInv, PTL DEF Spec

\* The state keeps its types, and the pool never has more connections out than
\* MaxOpenConns allows (database.Open's SetMaxOpenConns).
THEOREM TypeCorrect == Spec => []TypeOK
<1>1. Inv => TypeOK
  BY DEF Inv
<1> QED BY <1>1, PipelineInvariance, PTL

\* Whatever way a request takes through router, interceptors and handler, the log has
\* exactly one line for it, with the code its caller got.
THEOREM EveryRequestIsAccountedOnce == Spec => []AccountedOnce
<1>1. Inv => AccountedOnce
  BY DEF Inv, RequestInv, Accounts, AccountedOnce
<1> QED BY <1>1, PipelineInvariance, PTL

\* Unless a request's context ended before its transaction did, it is logged at error
\* level and answered Internal (or refused) exactly for an error of the database or of
\* the code, in the code that toConnectError chooses and the level that gormLogger.Trace
\* does; the exempt ones are late indeed.
THEOREM FaultsAreTold == Spec => []FaultsAreToldApart
<1>1. Inv => FaultsAreToldApart
  BY DEF Inv, RequestInv, Tells, ToldApart, FaultsAreToldApart
<1> QED BY <1>1, PipelineInvariance, PTL

\* For any number of requests, probes and connections: what the pool counts is what
\* customers hold, nobody keeps a connection past the end, and nobody waits for one
\* with one in hand, so that an exhausted pool never waits for itself.
THEOREM EveryConnectionComesBack == Spec => []ConnectionsComeBack
<1>1. Inv => ConnectionsComeBack
  <2> SUFFICES ASSUME Inv PROVE ConnectionsComeBack
    OBVIOUS
  <2>1. inUse = Cardinality(Holders)
    BY DEF Inv, Counted
  <2>2. \A c \in Customer : held[c] => UnderWay(c) /\ phase[c] # "waiting"
    BY DEF Inv, Holds, Holding, UnderWay
  <2>3. inUse = MaxOpenConns => Holders # {}
    BY <2>1, FS_EmptySet, PipelineAssumption
  <2>4. inUse = MaxOpenConns => \E c \in Customer : held[c] /\ phase[c] # "waiting"
    BY <2>2, <2>3 DEF Holders
  <2> QED BY <2>1, <2>2, <2>4 DEF ConnectionsComeBack, Holders
<1> QED BY <1>1, PipelineInvariance, PTL
=============================================================================
