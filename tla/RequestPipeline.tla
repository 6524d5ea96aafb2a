-------------------------- MODULE RequestPipeline --------------------------
(***************************************************************************)
(* One request of the rpc server from the router to its log line: the      *)
(* rejection middleware and the interceptors of pkg/connectrpc around a    *)
(* unary handler of the greeter or of the campaign domain, whose           *)
(* statements and transactions share the bounded pool of pkg/database with *)
(* each other and with the readiness probes of pkg/ops.                    *)
(*                                                                         *)
(* A method is the sequence of its units of work: a query on a connection  *)
(* of its own ("read"), one write in the transaction that GORM wraps it    *)
(* in ("write"), or the explicit transaction of CampaignRepository.Delete  *)
(* with two statements ("delete").  What the rows hold is CampaignStore's. *)
(*                                                                         *)
(* External: Connect decodes the message before the interceptors run, and  *)
(* its recovery runs inside them all; database/sql wakes the waiters in    *)
(* any order and ends a wait or a statement when its context ends; the     *)
(* database may leave any statement unanswered.                            *)
(***************************************************************************)
EXTENDS Naturals, Sequences, FiniteSets

CONSTANTS
    Request,          \* requests that reach the rpc port
    Probe,            \* GET /readyz
    Methods,          \* the units of work of the methods that are called
    MaxOpenConns,
    ReadTimeoutOn,    \* Config.ReadTimeout is not zero
    Nil

Unit == {"read", "write", "delete"}
Statements(u) == CASE u = "read" -> 1 [] u = "write" -> 2 [] u = "delete" -> 3

ASSUME PipelineAssumption ==
    /\ MaxOpenConns \in Nat \ {0}
    /\ Methods \subseteq Seq(Unit)
    /\ ReadTimeoutOn \in BOOLEAN
    /\ Request \cap Probe = {}
    /\ IsFiniteSet(Request) /\ IsFiniteSet(Probe)

Customer == Request \cup Probe

Gone == {"canceled", "expired"}
Code == {"OK", "InvalidArgument", "NotFound", "FailedPrecondition", "Canceled",
         "DeadlineExceeded", "Internal"}
\* What a request can meet: an error of the database, a panic of the code, and a
\* transaction that it ended too late, after its own context had ended.
Mishap == {"database", "panic", "late"}
\* The lines at error level: "sql failed", "campaign request failed", "rpc panic".
ErrorLine == {"sql_failed", "request_failed", "rpc_panic"}
\* The errors a handler can return; "lost" is a transaction that was done already.
Error == {"invalid", "missing", "refused", "database", "panic", "lost"} \cup Gone

ASSUME NilAssumption == Nil \notin Code \cup Error \cup {"200", "503"}

VARIABLES
    phase,        \* phase[c]: where the request or the probe is
    ctx,          \* ctx[c]: its context
    bounded,      \* bounded[c]: the context has a deadline
    work,         \* work[r]: the units left, the current one first
    step,         \* step[r]: statements of the current unit that are done
    err,          \* err[r]: the error with which its transaction ends
    held,         \* held[c]: it holds a connection
    inUse,        \* the connections the pool has handed out
    accounted,    \* accounted[r]: the flag of the rejection middleware
    answer,       \* answer[c]: the code, or the status, that was sent
    lines,        \* lines[r]: "rpc" lines, by their code, and "rejected" lines
    errorLines,   \* errorLines[r]: what was logged at error level
    met           \* history: what it met on its way (Mishap)

pool == <<held, inUse>>
report == <<accounted, lines, errorLines, met>>
vars == <<phase, ctx, bounded, work, step, err, pool, answer, report>>

Init ==
    /\ phase = [c \in Customer |-> "idle"]
    /\ ctx = [c \in Customer |-> "live"]
    /\ bounded = [c \in Customer |-> FALSE]
    /\ work = [r \in Request |-> <<>>]
    /\ step = [r \in Request |-> 0]
    /\ err = [r \in Request |-> Nil]
    /\ held = [c \in Customer |-> FALSE]
    /\ inUse = 0
    /\ accounted = [r \in Request |-> FALSE]
    /\ answer = [c \in Customer |-> Nil]
    /\ lines = [r \in Request |-> <<>>]
    /\ errorLines = [r \in Request |-> {}]
    /\ met = [r \in Request |-> {}]

Goto(c, p) == phase' = [phase EXCEPT ![c] = p]

-----------------------------------------------------------------------------
(* Contexts *)

Over(c) == ctx[c] \in Gone
UnderWay(c) == phase[c] \notin {"idle", "leaving", "ended"}
StaysOpen == UNCHANGED <<phase, bounded, work, step, err, pool, answer, report>>

\* The client goes away.
HangUp(c) ==
    /\ UnderWay(c) /\ ~ Over(c)
    /\ ctx' = [ctx EXCEPT ![c] = "canceled"]
    /\ StaysOpen

\* The deadline passes, the client's or the one imposed here.
Expire(c) ==
    /\ UnderWay(c) /\ ~ Over(c)
    /\ bounded[c]
    /\ ctx' = [ctx EXCEPT ![c] = "expired"]
    /\ StaysOpen

-----------------------------------------------------------------------------
(* From the router to the handler *)

\* A path nothing is mounted on.
Unroutable(r) ==
    /\ phase[r] = "idle"
    /\ Goto(r, "leaving")
    /\ UNCHANGED <<ctx, bounded, work, step, err, pool, answer, report>>

\* Health and reflection, behind accountedFor.
ServeQuietly(r) ==
    /\ phase[r] = "idle"
    /\ Goto(r, "leaving")
    /\ accounted' = [accounted EXCEPT ![r] = TRUE]
    /\ UNCHANGED <<ctx, bounded, work, step, err, pool, answer, lines, errorLines, met>>

\* A method: Connect takes over the deadline the client sent, if any, and reads.
BeginRead(r) ==
    /\ phase[r] = "idle"
    /\ Goto(r, "reading")
    /\ \E sent \in BOOLEAN : bounded' = [bounded EXCEPT ![r] = sent]
    /\ UNCHANGED <<ctx, work, step, err, pool, answer, report>>

\* The message is cut off, too large, or cannot be decoded.
ReadFails(r) ==
    /\ phase[r] = "reading"
    /\ Goto(r, "leaving")
    /\ UNCHANGED <<ctx, bounded, work, step, err, pool, answer, report>>

ReadTimesOut(r) ==
    /\ ReadTimeoutOn
    /\ ReadFails(r)

\* Faulty Decode: a call without a deadline runs without one.
DecodeUnbounded(r) ==
    /\ phase[r] = "reading"
    /\ Goto(r, "handling")
    /\ \E m \in Methods : work' = [work EXCEPT ![r] = m]
    /\ UNCHANGED <<ctx, bounded, step, err, pool, answer, report>>

\* The message is whole: the interceptors run, and the timeout interceptor sees to it
\* that the handler has a deadline.
Decode(r) ==
    /\ phase[r] = "reading"
    /\ Goto(r, "handling")
    /\ \E m \in Methods : work' = [work EXCEPT ![r] = m]
    /\ bounded' = [bounded EXCEPT ![r] = TRUE]
    /\ UNCHANGED <<ctx, step, err, pool, answer, report>>

-----------------------------------------------------------------------------
(* From the handler to the log line *)

\* Faulty CodeFor: an unrecognised error is Internal, and these are not recognised.
CodeForSentinels(e) ==
    CASE e = Nil -> "OK"
      [] e = "invalid" -> "InvalidArgument"
      [] e = "missing" -> "NotFound"
      [] e = "refused" -> "FailedPrecondition"
      [] OTHER -> "Internal"

CodeFor(e) ==
    CASE e = Nil -> "OK"
      [] e = "invalid" -> "InvalidArgument"
      [] e = "missing" -> "NotFound"
      [] e = "refused" -> "FailedPrecondition"
      [] e = "canceled" -> "Canceled"
      [] e = "expired" -> "DeadlineExceeded"
      [] OTHER -> "Internal"

\* The line of toConnectError, or of the recovery.
LinesOf(e) ==
    CASE e = "panic" -> {"rpc_panic"}
      [] e # "panic" /\ CodeFor(e) = "Internal" -> {"request_failed"}
      [] OTHER -> {}

\* The handler's locals go.
Forget(r) ==
    /\ work' = [work EXCEPT ![r] = <<>>]
    /\ step' = [step EXCEPT ![r] = 0]
    /\ err' = [err EXCEPT ![r] = Nil]

\* Faulty Return: the middleware is not told.
ReturnUnaccounted(r, e, sql, why) ==
    /\ Goto(r, "leaving")
    /\ answer' = [answer EXCEPT ![r] = CodeFor(e)]
    /\ lines' = [lines EXCEPT ![r] = Append(@, CodeFor(e))]
    /\ errorLines' = [errorLines EXCEPT ![r] = @ \cup sql \cup LinesOf(e)]
    /\ met' = [met EXCEPT ![r] = @ \cup why]
    /\ Forget(r)
    /\ UNCHANGED <<ctx, bounded, accounted>>

\* The handler returns e and the interceptors unwind: recovery, deadline, log line.
\* sql is what GORM's logger had to say at error level, why the mishap behind it.
Return(r, e, sql, why) ==
    /\ Goto(r, "leaving")
    /\ answer' = [answer EXCEPT ![r] = CodeFor(e)]
    /\ accounted' = [accounted EXCEPT ![r] = TRUE]
    /\ lines' = [lines EXCEPT ![r] = Append(@, CodeFor(e))]
    /\ errorLines' = [errorLines EXCEPT ![r] = @ \cup sql \cup LinesOf(e)]
    /\ met' = [met EXCEPT ![r] = @ \cup why]
    /\ Forget(r)
    /\ UNCHANGED <<ctx, bounded>>

\* The rejection middleware gets the request back.
Leave(r) ==
    /\ phase[r] = "leaving"
    /\ Goto(r, "ended")
    /\ lines' = [lines EXCEPT ![r] = IF accounted[r] THEN @ ELSE Append(@, "rejected")]
    /\ UNCHANGED <<ctx, bounded, work, step, err, pool, answer, accounted, errorLines, met>>

-----------------------------------------------------------------------------
(* The handler between its units of work *)

BadArgument(r) ==
    /\ phase[r] = "handling" /\ work[r] # <<>>
    /\ Return(r, "invalid", {}, {})
    /\ UNCHANGED pool

\* The methods that are through, the greeter's among them.
Succeed(r) ==
    /\ phase[r] = "handling" /\ work[r] = <<>>
    /\ Return(r, Nil, {}, {})
    /\ UNCHANGED pool

Panic(r) ==
    /\ phase[r] = "handling"
    /\ Return(r, "panic", {}, {"panic"})
    /\ UNCHANGED pool

Ask(r) ==
    /\ phase[r] = "handling" /\ work[r] # <<>>
    /\ Goto(r, "waiting")
    /\ UNCHANGED <<ctx, bounded, work, step, err, pool, answer, report>>

-----------------------------------------------------------------------------
(* The pool *)

TakeConn(c) ==
    /\ inUse < MaxOpenConns
    /\ held' = [held EXCEPT ![c] = TRUE]
    /\ inUse' = inUse + 1

GiveBack(c) ==
    /\ held' = [held EXCEPT ![c] = FALSE]
    /\ inUse' = inUse - 1

Acquire(c) ==
    /\ phase[c] = "waiting"
    /\ TakeConn(c)
    /\ Goto(c, "executing")
    /\ UNCHANGED <<ctx, bounded, work, step, err, answer, report>>

\* Faulty GiveUp: one that never got a connection puts one back.
GiveUpAndRelease(r) ==
    /\ phase[r] = "waiting" /\ Over(r)
    /\ Return(r, ctx[r], {}, {})
    /\ GiveBack(r)

\* The context ends the wait.
GiveUp(r) ==
    /\ phase[r] = "waiting" /\ Over(r)
    /\ Return(r, ctx[r], {}, {})
    /\ UNCHANGED pool

-----------------------------------------------------------------------------
(* Statements and transactions *)

Current(r) == Head(work[r])
InTx(r) == Current(r) # "read" /\ step[r] > 0

\* The unit is over, and the handler goes on to its next one or returns e.
EndUnit(r, e, sql, why) ==
    /\ GiveBack(r)
    /\ IF e = Nil
       THEN /\ Goto(r, "handling")
            /\ work' = [work EXCEPT ![r] = Tail(@)]
            /\ step' = [step EXCEPT ![r] = 0]
            /\ err' = [err EXCEPT ![r] = Nil]
            /\ UNCHANGED <<ctx, bounded, answer, report>>
       ELSE Return(r, e, sql, why)

\* The transaction is to end with e.
Close(r, e, sql, why) ==
    /\ Goto(r, "closing")
    /\ err' = [err EXCEPT ![r] = e]
    /\ errorLines' = [errorLines EXCEPT ![r] = @ \cup sql]
    /\ met' = [met EXCEPT ![r] = @ \cup why]
    /\ UNCHANGED <<ctx, bounded, work, step, pool, answer, accounted, lines>>

\* A statement returns e: out of a transaction, BEGIN included, that ends the unit.
StatementReturns(r, e, sql, why) ==
    IF InTx(r) THEN Close(r, e, sql, why) ELSE EndUnit(r, e, sql, why)

\* The statement succeeds: a query, BEGIN or the next one of a transaction.
Executed(r) ==
    /\ phase[r] = "executing"
    /\ IF Current(r) = "read" \/ step[r] + 1 = Statements(Current(r))
       THEN StatementReturns(r, Nil, {}, {})
       ELSE /\ step' = [step EXCEPT ![r] = @ + 1]
            /\ Goto(r, "between")
            /\ UNCHANGED <<ctx, bounded, work, err, pool, answer, report>>

\* A query without a row, or a write that matched none.  A missing row is a refusal to
\* CreateEvent, whose first unit asks whether the campaign exists.
FoundNothing(r) ==
    /\ phase[r] = "executing"
    /\ step[r] + 1 = Statements(Current(r))
    /\ \E e \in {"missing"} \cup {x \in {"refused"} : Current(r) = "read" /\ Len(work[r]) > 1} :
          StatementReturns(r, e, {}, {})

\* The database refuses; a foreign key that refuses an event is ErrCampaignNotFound to
\* the handler.  GORM's logger says so at once, but for BEGIN, of which it says nothing,
\* and for a write, of which it speaks at its end.
StatementFails(r) ==
    /\ phase[r] = "executing"
    /\ \E e \in {"database"} \cup {x \in {"refused"} : Current(r) = "write" /\ InTx(r)} :
          StatementReturns(r, e,
              {l \in {"sql_failed"} : Current(r) = "read" \/ (Current(r) = "delete" /\ InTx(r))},
              {"database"})

\* The context ends the statement: "sql aborted", at warn level.
Abort(r) ==
    /\ phase[r] = "executing" /\ Over(r)
    /\ StatementReturns(r, ctx[r], {}, {})

\* Faulty NextStatement: the closure asks the pool, not its transaction.
NextStatementOnPool(r) ==
    /\ phase[r] = "between"
    /\ IF Over(r)
       THEN Close(r, ctx[r], {}, {})
       ELSE /\ Goto(r, "waiting")
            /\ UNCHANGED <<ctx, bounded, work, step, err, pool, answer, report>>

\* The next statement of a transaction, on the connection it holds.
NextStatement(r) ==
    /\ phase[r] = "between"
    /\ IF Over(r)
       THEN Close(r, ctx[r], {}, {})
       ELSE /\ Goto(r, "executing")
            /\ UNCHANGED <<ctx, bounded, work, step, err, pool, answer, report>>

\* A panic in the closure of a transaction; GORM rolls back and lets it through.
PanicInTx(r) ==
    /\ phase[r] = "between" /\ Current(r) = "delete"
    /\ Close(r, "panic", {}, {"panic"})

\* A write that matched no row is no error to GORM: it commits.
Commits(r) == err[r] = Nil \/ (Current(r) = "write" /\ err[r] = "missing")

\* GORM logs a write once, when its transaction has ended, with the error it ended with.
SqlLine(r, e) ==
    {l \in {"sql_failed"} : Current(r) = "write" /\ e \notin {Nil, "missing"} \cup Gone}

Commit(r) ==
    /\ phase[r] = "closing" /\ Commits(r) /\ ~ Over(r)
    /\ Goto(r, "committing")
    /\ UNCHANGED <<ctx, bounded, work, step, err, pool, answer, report>>

\* The context ended first.  database/sql rolls back on its own as soon as it does: a
\* Commit before that reports the context, one after it only that the transaction is
\* done.
CommitTooLate(r) ==
    /\ phase[r] = "closing" /\ Commits(r) /\ Over(r)
    /\ \/ EndUnit(r, ctx[r], {}, {})
       \/ EndUnit(r, "lost", SqlLine(r, "lost"), {"late"})

Committed(r) ==
    /\ phase[r] = "committing"
    /\ EndUnit(r, err[r], {}, {})

CommitFails(r) ==
    /\ phase[r] = "committing"
    /\ EndUnit(r, "database", SqlLine(r, "database"), {"database"})

CommitAborted(r) ==
    /\ phase[r] = "committing" /\ Over(r)
    /\ EndUnit(r, ctx[r], {}, {})

\* A failed transaction rolls back.  Around a single write GORM adds the error of the
\* ROLLBACK, the connection's, the context's or that of one that comes after
\* database/sql's own, to the error in hand and only the last can be unwrapped, so that
\* it hides what happened; gorm.DB.Transaction ignores it.
Rollback(r) ==
    /\ phase[r] = "closing" /\ ~ Commits(r)
    /\ \/ EndUnit(r, err[r], SqlLine(r, err[r]), {})
       \/ /\ Current(r) = "write"
          /\ EndUnit(r, "database", SqlLine(r, "database"), {"database"})
       \/ /\ Current(r) = "write" /\ Over(r)
          /\ \E e \in {"lost", ctx[r]} : EndUnit(r, e, SqlLine(r, e), {"late"})

RollbackAborted(r) == Over(r) /\ Rollback(r)

-----------------------------------------------------------------------------
(* /readyz *)

StopProbe(p, status) ==
    /\ Goto(p, "ended")
    /\ answer' = [answer EXCEPT ![p] = status]
    /\ UNCHANGED <<ctx, bounded, work, step, err, report>>

\* The drain check comes first.
ProbeDraining(p) ==
    /\ phase[p] = "idle"
    /\ StopProbe(p, "503")
    /\ UNCHANGED pool

\* DB.Ping: an HTTP request's context has no deadline, so ConnectTimeout is imposed.
BeginPing(p) ==
    /\ phase[p] = "idle"
    /\ Goto(p, "waiting")
    /\ bounded' = [bounded EXCEPT ![p] = TRUE]
    /\ UNCHANGED <<ctx, work, step, err, pool, answer, report>>

PingReturns(p) ==
    /\ phase[p] = "executing"
    /\ GiveBack(p)
    /\ \E status \in {"200", "503"} : StopProbe(p, status)

PingAborted(p) ==
    /\ phase[p] \in {"waiting", "executing"} /\ Over(p)
    /\ StopProbe(p, "503")
    /\ IF held[p] THEN GiveBack(p) ELSE UNCHANGED pool

-----------------------------------------------------------------------------
Route(r) == Unroutable(r) \/ ServeQuietly(r) \/ BeginRead(r)

Read(r) == ReadFails(r) \/ ReadTimesOut(r) \/ Decode(r)

\* Code that runs by itself: it waits for nobody.
Handle(r) ==
    \/ BadArgument(r) \/ Succeed(r) \/ Panic(r) \/ Ask(r)
    \/ NextStatement(r) \/ PanicInTx(r) \/ Commit(r) \/ CommitTooLate(r)
    \/ Leave(r)

\* What the end of the context ends.
Release(r) == GiveUp(r) \/ Abort(r) \/ CommitAborted(r) \/ RollbackAborted(r)

\* What the database answers, if it does.
Answer(r) ==
    \/ Executed(r) \/ FoundNothing(r) \/ StatementFails(r)
    \/ Committed(r) \/ CommitFails(r) \/ Rollback(r)

Ready(p) == ProbeDraining(p) \/ BeginPing(p) \/ PingReturns(p) \/ PingAborted(p)

Next ==
    \/ \E r \in Request : Route(r) \/ Read(r) \/ Handle(r) \/ Release(r) \/ Answer(r)
    \/ \E p \in Probe : Ready(p)
    \/ \E c \in Customer : HangUp(c) \/ Expire(c) \/ Acquire(c)

\* Timers fire, the driver and database/sql heed contexts, and code that waits for
\* nobody runs.  The database need not answer, nor a client finish its message, nor
\* the pool serve a particular waiter.
Fairness ==
    /\ \A c \in Customer : WF_vars(Expire(c))
    /\ \A r \in Request :
          /\ WF_vars(Handle(r))
          /\ WF_vars(Release(r))
          /\ WF_vars(ReadTimesOut(r))
    /\ \A p \in Probe : WF_vars(PingAborted(p))

Spec == Init /\ [][Next]_vars /\ Fairness

-----------------------------------------------------------------------------
(* Properties *)

\* The types of the state; the count of the pool stays within its limit.
TypeOK ==
    /\ phase \in [Customer -> {"idle", "reading", "handling", "waiting", "executing",
                               "between", "closing", "committing", "leaving", "ended"}]
    /\ ctx \in [Customer -> {"live"} \cup Gone]
    /\ bounded \in [Customer -> BOOLEAN]
    /\ work \in [Request -> Seq(Unit)]
    /\ step \in [Request -> 0 .. 3]
    /\ err \in [Request -> {Nil, "missing", "refused", "database", "panic"} \cup Gone]
    /\ held \in [Customer -> BOOLEAN]
    /\ inUse \in 0 .. MaxOpenConns
    /\ accounted \in [Request -> BOOLEAN]
    /\ answer \in [Customer -> {Nil, "200", "503"} \cup Code]
    /\ lines \in [Request -> Seq(Code \cup {"rejected"})]
    /\ errorLines \in [Request -> SUBSET ErrorLine]
    /\ met \in [Request -> SUBSET Mishap]

\* A request leaves one line behind: an rpc line with the code its caller got, or a
\* rejection when it never became an RPC.  Only health and reflection leave none.
AccountedOnce ==
    \A r \in Request : phase[r] = "ended" =>
        lines[r] = CASE answer[r] # Nil -> <<answer[r]>>
                     [] answer[r] = Nil /\ accounted[r] -> <<>>
                     [] OTHER -> <<"rejected">>

\* An error of the database or of the code, whatever the caller did.
OurFault(r) == met[r] \cap {"database", "panic"} # {}

\* The log and the code tell the service's own faults from what the caller brought
\* about: a request with a fault of the database or the code behind it, and no other, is
\* logged at error level; it is answered Internal, or with the foreign key's refusal.  A
\* deadline, also one spent waiting for the pool, a hang-up and a missing row are
\* neither.  Exempt are those whose context ended before their transaction did ("late"):
\* what becomes of them HangUpIsNotOurFault shows.  But they too are Internal only with
\* a line that says why, and nobody is told of a context that has not ended.
FaultsAreToldApart ==
    \A r \in Request : phase[r] = "ended" =>
        /\ "late" \notin met[r] =>
              /\ OurFault(r) <=> errorLines[r] # {}
              /\ answer[r] = "Internal" => OurFault(r)
              /\ OurFault(r) => answer[r] \in {"Internal", "FailedPrecondition"}
        /\ "late" \in met[r] => Over(r)
        /\ answer[r] = "Internal" => errorLines[r] \cap {"rpc_panic", "request_failed"} # {}
        /\ answer[r] = "Canceled" => ctx[r] = "canceled"
        /\ answer[r] = "DeadlineExceeded" => ctx[r] = "expired"

\* Every connection that is out is somebody's, whoever has been answered holds none
\* (nor whoever panicked in a transaction), and nobody waits for one with one in hand:
\* an exhausted pool always has a holder that is not waiting for it.
ConnectionsComeBack ==
    /\ inUse = Cardinality({c \in Customer : held[c]})
    /\ \A c \in Customer : held[c] => UnderWay(c)
    /\ (\E c \in Customer : phase[c] = "waiting") /\ inUse = MaxOpenConns
          => \E c \in Customer : held[c] /\ phase[c] # "waiting"

\* Every RPC and every probe is answered, although the database may hang and the pool
\* be exhausted; with a read timeout that holds from the first byte.
EveryoneIsAnswered ==
    \A c \in Customer :
        (phase[c] \notin {"idle"} \cup {p \in {"reading"} : ~ ReadTimeoutOn})
            ~> (phase[c] = "ended")

\* "Reported as canceled rather than internal so it does not show up as this service's
\* own failure" (toConnectError): no request is answered Internal but for a panic or
\* an error of the database.
HangUpIsNotOurFault ==
    \A r \in Request : phase[r] = "ended" /\ ~ OurFault(r) => answer[r] # "Internal"
=============================================================================
