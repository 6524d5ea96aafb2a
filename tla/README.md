# tehran in TLA+

tehran is a Go service: a ConnectRPC API over campaigns and their events, kept in
PostgreSQL, with a supervisor that starts and stops its servers and a second
command that migrates the schema. This directory models its concurrent parts,
model-checks them with TLC and proves the central invariants with TLAPS. Paths
below are relative to the repository.

## The system

| Component | State | Operations | Interacts with |
|---|---|---|---|
| campaign domain, `internal/campaign/{service,model,rpc}.go` | none between requests; per request the entity it read | create, get, list, update, delete of campaigns and of events | repositories (calls) |
| repositories, `internal/postgres` | none; one pool shared by all | one method per statement or transaction | PostgreSQL; domain errors upwards |
| schema, `internal/migrations` | tables `campaigns`, `events` | CHECKs, foreign key with cascade, keyset indexes | every statement |
| supervisor, `pkg/lifecycle` | per component a context, a goroutine, a buffered `done`; `exited`; one timer | `Run`, `stop` | components (`Serve`), hooks, signals |
| rpc server, `pkg/connectrpc`, with `internal/greeter` | listener, requests in flight, health statuses; per request the flag of the rejection middleware | `Serve`, `Shutdown`, `SetServing`; the middleware, then log, timeout and recovery around each handler | supervisor, net/http, Connect |
| ops server, `pkg/ops` | listener | `Serve`, `Shutdown`; `/healthz`, `/readyz`, `/metrics` | supervisor, ready checks |
| api application, `internal/app/api` | `ready`, the pool, the telemetry pipeline | `New`, the shutdown hook, `Run` | all of the above |
| database, `pkg/database` | `sql.DB` pool with its bound | `Open`, `Ping`, `Close`; spans, metrics and a line per failed statement | repositories, `/readyz` |
| migrate, `pkg/migrate`, and `internal/app/db` | goose's version table, session or table lock | `Up`, `UpTo`, `Down`, `DownTo`, `Status`, `Version`, `HasPending` | PostgreSQL, other runners |
| configuration, `internal/config`, `config.toml`, `deploy` | the timeouts, read once at start | defaults, parsing | every timer; the orchestrator's grace period |
| telemetry, version, commands | - | construction, output; the last flush | api application |

What is hard to test in it:

- Every update reads a row, merges and validates in the process, and writes the
  whole row back in a second statement. Other requests, deletes among them, run
  between the two. CreateEvent and ListEvents also check in one statement and act
  in another, and DeleteCampaign counts in one and deletes in the next.
- A write may commit although its caller is told it failed.
- A list is walked over several requests while the table under it changes.
- A shutdown is an order over goroutines, each of which may end early, fail or
  never end, under two layers of timers that may fire at any moment.
- What is released last (pool, exporter) depends on who has really stopped by then.
- Six timeouts of four packages and a seventh of the orchestrator must fit into each
  other, and nothing in the code compares them.
- Requests and readiness probes wait for each other's connections, and a context may end
  a request in its wait, in a statement, between two, or just before its COMMIT; a panic
  may too. Each way out must return the connection, log once and choose the right code.

What would make each part correct is in the comments over the properties, and
`PROJECT.json` ties them to the hazards, line by line.

## Modules

| Module | Models | Size of the checked instance |
|---|---|---|
| `CampaignAggregate` | what the two tables promise, with no requests in sight | - |
| `CampaignStore` | requests as sequences of statements over the tables; refines `CampaignAggregate` | 3 requests, 2 campaigns, 3 events |
| `CampaignStoreProofs` | theorems about the tables | any |
| `CampaignAnswersProofs` | theorems about the answers, over the former | any |
| `KeysetPaging` | a walk over either list while the table changes | 3 rows, 2 instants, pages of 1 or 2 |
| `KeysetPagingProofs` | theorems | any |
| `Supervisor` | `Supervisor.Run` and `stop` | 3 components, 2 hooks |
| `SupervisorProofs` | theorems | any |
| `RequestPipeline` | requests through middleware, interceptors and handler, and probes, over the bounded pool | 2 requests, 1 probe, 1 connection |
| `RequestPipelineProofs` | theorems | any |
| `ShutdownBudget` | how long a shutdown takes: the chain of timeouts, in discrete time | 2 requests, 1 probe, 8 chains |
| `ShutdownBudgetProofs` | theorems | any |
| `ApiProcess` | the api process: extends `Supervisor` by the two servers, their requests, the pool and the exporter | 2 requests |
| `ApiProcessProofs` | theorems, over `SupervisorProofs` | any number of requests |
| `Migrate` | migration runners and deploy gates over one version table | 2 runners, 3 versions, 1 gate |
| `MigrateProofs` | theorems | any |

Each `MC*` module extends the one it instantiates. Definitions named `Faulty ...` in
their comment stand next to the definition they would replace; they are plausible
bugs, no action uses them, and `PROJECT.json` names for every checked property one
that breaks it.

### CampaignStore

A slot of `Slot` is one request. `pc[r]` is the statement it sends next: `read`,
`exists`, `count` or `write`. Between two statements anything may happen. What a
statement does is a step with everything the handler does up to the next one: the
read of UpdateCampaign includes merge and validation, the write of CreateEvent
includes the renaming of a foreign key violation and `toConnectError`. `touched`
and `faulted` are history.

- GORM wraps each single write in a transaction, so a write is one step. In
  DeleteCampaign the transaction holds two statements. Under READ COMMITTED, the
  default, each has a snapshot of its own, so the COUNT is a step; the DELETE, the
  cascade and the COMMIT are one, because the DELETE's row lock blocks the
  `FOR KEY SHARE` of an insert beneath the campaign until the COMMIT.
- `Fail` is a statement that does not happen: the deadline, a caller that hangs up,
  or a driver error. `Committed` also lets a failure hide a write that did happen.
- Instants are nanoseconds in the process and multiples of `Precision` in a column,
  which is what separates Validate from `campaigns_window_check`: they disagree about a
  window that opens and closes within one step of the column (`NarrowWindow`). The
  checked instances have two instants to a step, so narrow windows are among the
  requests. `AnswersFitTheOperation` allows Internal, unless a statement failed, for a
  write of such a window and for nothing else.
- Values that do not matter are few: an id that does not parse is `Empty`, the four
  ways of a bad id being one answer. description, type and payload behave as name
  does, without its rule. created_at and updated_at are left out; nothing reads the
  second, and the first is `KeysetPaging`'s key.
- The refinement maps an id to spent once it was drawn and is not on its way to an
  insert.

Requests are 19 messages: valid, narrow and invalid creates, updates that carry one
field, clear one, or contradict themselves, both deletes and the reads. Three requests are
enough for the races of the code, which all have two writers and at most one
observer; two campaigns and three events leave an id for every create. The slots are
interchangeable, hence the symmetry; no property is temporal in the liveness sense.

### KeysetPaging

A row is its key, so `rows` is a set of (time, id) pairs, and ORDER BY, the row-value
predicate and LIMIT are set expressions. `Request` is a list call up to its first
statement, `CheckCampaign` the Exists of ListEvents, `ListPage` the list. The
repositories ask for one row more than the page and look whether it came: more than
`limit` rows match. `list` chooses between the two lists once; the writers are what the
other operations do to the keys. A client that damages its tokens is `mangles`: such a
token does not parse and is InvalidArgument, or it parses and its id is no uuid, which
only the list statement finds out and the caller is told as Internal (`RefuseCursor`); an
unknown campaign is found out before that. A failed statement ends the client's call
and changes no row; a client that repeats the call is where it was, so failures are not
modelled here.

Three rows over two instants give ties on the time; sizes 0, 2 and 3 with a cap of
2 are unset, in range, and clamped.

### Supervisor

`pc` is where Run is, `cur` the component of its loop. `go[i]` is the goroutine of
component i: serving, then about to send to `done`, then about to send to `exited`.
The channels are sequences whose sends are guarded by their buffers, so a buffer too
small shows as a goroutine that waits. A component may return at any time with or
without an error, or never. The two outcomes of each select, both ready, are two
enabled actions. `named` is the list of the timeout error, `stopped` is history.

Run over no component returns ErrNoComponents before any of this. A hook that
never returns stops the shutdown, as `BeforeShutdown` documents; hooks return here.

### ApiProcess

Extends Supervisor with N = 2. `Registered` is the order of WithComponents. For
the environment's ServeReturns it substitutes the two Serve functions, which are the
same code: listener goroutine, select, drain under a timer, and the receive of errCh.
The hook is two steps, `FlipReady` and `FinishHook`, so that a shutdown is seen
between its stores. New can fail at each step that returns an error.

External, from how the code uses it: net/http's Shutdown returns when no request of
its server is left or its context is done, and ends none; a select between both is
free. A closed `sql.DB` refuses new queries. Whether closing it also waits for the
connections that are out, as `pkg/database/database.go:422-425` says, is left open:
`CloseDatabase` returns at once or leaves the pool `closing`, and then `CloseReturns`
waits until no statement is under way. Nothing that is checked depends on which.
A statement ends by itself or by its deadline (`QueryReturns`), a handler need not.
`cut` is history: the servers whose Serve returned without having waited for their
requests.

Two requests are enough to have one for each server, or two on one, one of which
ends. A request need not end.

### RequestPipeline

One request per `r`, from the router to the line the middleware may still write.
`phase[r]` is where it is:

| `phase` | In the code | Left by |
|---|---|---|
| `idle` | nothing yet | `Unroutable`, `ServeQuietly`, `BeginRead` |
| `reading` | Connect reads and decodes the message, under `ReadTimeout` if that is on | `ReadFails`, `ReadTimesOut`, `Decode` |
| `handling` | in the handler, between its units of work | `BadArgument`, `Succeed`, `Panic`, `Ask` |
| `waiting` | database/sql has no connection for it yet | `Acquire`, `GiveUp` |
| `executing` | a statement, BEGIN included, is with the database | `Executed`, `FoundNothing`, `StatementFails`, `Abort` |
| `between` | between two statements of a transaction | `NextStatement`, `PanicInTx` |
| `closing` | the transaction is about to end | `Commit`, `CommitTooLate`, `Rollback` |
| `committing` | COMMIT is with the database | `Committed`, `CommitFails`, `CommitAborted` |
| `leaving` | the interceptors have unwound, or it never was an RPC | `Leave` |

`HangUp` and `Expire` end a context at any of them. A method is a sequence of units of
work: `read` is a query, `write` one write inside the transaction GORM wraps it in,
`delete` the explicit transaction of `CampaignRepository.Delete`. `Return` is one step
with everything that follows the handler: `toConnectError` or the recovery, the log
interceptor's line, and the flag the middleware looks at in `Leave`. `lines` holds the
"rpc" and "rejected" lines, `errorLines` what is logged at error level. `met` is history:
whether the request met an error of the database, a panic, or a transaction it ended
only after its own context had (`late`). The last is neither a fault of the service nor
told as what it is, and the properties keep it apart: `FaultsAreToldApart` is about the
other requests, and `commit_race` shows what becomes of these. GORM's logger says of a
write one line when its transaction is over (`SqlLine`), of a query at once, of BEGIN
nothing. A probe uses `waiting` and `executing` only.

- External, from how the code uses it: Connect takes over a deadline the client sent and
  decodes before the interceptors run; database/sql serves its waiters in any order, and
  a wait or a statement ends when its context does. When a context ends, database/sql
  rolls an open transaction back on its own, and a COMMIT or ROLLBACK after that reports
  only that the transaction is done: the second branch of `CommitTooLate` and
  `Rollback`. Around a single write the error of a ROLLBACK hides the one that led to
  it, whatever it is; in the explicit transaction GORM ignores it. The connection is
  then free a moment before the handler comes to it; the model frees it with the handler.
- CreateEvent's Exists that finds nothing is refused (FailedPrecondition), any other read
  that finds nothing is NotFound: a read that another unit follows may be either, as
  units do not say which operation they belong to.
- The database may leave any statement unanswered; a context ends it all the same.
- A panic that is `http.ErrAbortHandler` is passed on by the recovery and is left out,
  as is a stored row that cannot be turned into a message (`eventToProto`): nothing in the
  repository panics so, and no operation stores one.
- No module of the repository serves a stream; health's Watch is one of Connect's own
  and runs behind `ServeQuietly`.

One connection makes everybody wait for somebody. With two requests, one can hold it,
one wait for it, and the probe behind both. The three methods are the greeter's, which
has no unit of work, update and create (`read`, `write`), and the delete; every other
method is a part of one of them. More connections only take waits away.

### ShutdownBudget

Where `ApiProcess` leaves every duration open, here `Tick` lets time pass, in units of
the constants. `config` is one of `Configurations`, chosen at the start; `Effective` is
what `withDefaults` makes of a timeout, zero and less being unset. `left[c]` is how long a
request may still read or handle, or a ping still run; `drain`, `backstop`, `flush` and
`grace` are the timers of the shutdown. Code takes no time, so time passes only while
nothing is due (`Quiet`), and what falls in one instant happens in any order. Hence a tie
of two timers may go either way. A handler is taken to heed its context, and a ping
too. `cut` is history: who gave up waiting.

`Configurations` holds eight chains: `config.toml` in units of five seconds under
the grace period it asks for, the same under Kubernetes' default of 30s, which
`deploy/k8s/deployment.yaml` leaves in force, the code's defaults, a whole chain, and
chains with one link broken each. Every action fires, every link is broken in one of
them and whole in another. Two requests are enough for one that is cut off beside one
that ends.

### Migrate

A runner is one invocation of `db migrate`, or of a Go caller of `Down` and `DownTo`;
a retry is another runner. `order` is what it was asked to do, `pc` where it is:

| `pc` | In the code | Left by |
|---|---|---|
| `idle` | `withDBApp`, `App.New`, `migrate.New` | `Open` |
| `waiting` | waits for the lock of `lockOption`, if there is one | `Acquire`, `GiveUp` |
| `listing` | reads the version table | `ListUp`, `ListDown`, `ListFails` |
| `applying` | between two migrations | `Apply`, `RunNoTx`, their failures, `Finish` |
| `recording` | a migration without a transaction has run, its row has not been written | `Record`, `RecordFails` |
| `unlocking` | gives the lock back; `appliedFrom` and the command's printing | `Unlock` |

`Kill` may strike at each, and `Expire` is the database freeing the lock of a process
that is gone. A gate is `App.Version`: two reads through the lock-free provider,
`AskVersion` and `AskPending`, between which anything may happen. `landed` and
`undone` are history: which rows a run wrote or removed, and which versions a rollback
has begun to run.

- A statement may take effect and still be answered with an error (`Answer`): the run
  ends, and the migration it failed at is not among the ones it reports.
- goose and PostgreSQL are external and taken from how the code uses them: a migration
  is one transaction of its statements and its row, unless it is marked NO TRANSACTION,
  as goose allows; the repository's own two are both in transactions.
- `session` and `table` are one mode, a lock freed some time after its holder is gone.
  A session or a lease lost while its holder lives is not modelled.
- `lock_mode` none and `allow_out_of_order` are the two fields of `config`, chosen at
  the start and the same for everybody. Only `ListStaysCurrent` and `NoLateVersions` need
  the lock; without it too, the row of a version can be written only once.
- `Migrator.Down` drops its result beside an error, so `ReportIsHonest` asks
  nothing of its report then.
- `Status` and `Sources` change nothing and no decision is taken on them.

Two runners are enough for one that comes second, finds the work of a dead or failed
one, or runs beside it. Their images differ by a version in the middle, which is what
makes a version late; three versions let a run fail between two of them. The last has no
transaction.

## What the runs show

Runs that pass:

| Run | Shows |
|---|---|
| `store` | rows stay valid, no orphan events, no row is removed twice, no update revives a row, and each answer tells what happened, whatever interleaves and fails; refinement of `CampaignAggregate` |
| `paging` | a walk descends, its pages are full, it skips nothing that stays in place, repeats no campaign, reports an unknown campaign, and ends |
| `supervisor` | reverse order, hooks first, errors kept; Run returns and no component goroutine is left blocked |
| `api` | `/readyz` outlives the rpc drain, both health answers are off before a port closes, requests keep their pool unless a timer gave up on them or their listener failed, which Run's error always tells, the process exits and has released its pool whether or not closing it waits |
| `migrate` | lists stay current under the lock, the version table tells what is in the schema, a success is complete, reports and gates are honest, nothing is recorded late, the lock is released |
| `pipeline` | each request leaves one line with the code its caller got; but for a context that ends before its transaction does, error lines are those of faults and of nothing callers bring about; every connection comes back, panics included, and an exhausted pool has a holder that does not wait; everyone is answered although the database hangs |
| `budget` | each of rpc drain, ops drain, supervisor and orchestrator cuts something off only when its own link of the chain of timeouts is broken |

Runs that end in a violation, each of one sentence of the repository:

| Run | The sentence, and what happens |
|---|---|
| `lost_update` | "A nil pointer field is left alone" (`service.go:101`): a second update writes back the stale columns it did not carry |
| `cascade_count` | the count "is the number of rows the delete actually removed" (`postgres/campaign.go:105`): not under READ COMMITTED |
| `narrow_window` | Validate "checks the invariants the database also checks" (`model.go:92`): on other digits of the same instants |
| `moved_row` | a cursor "cannot skip or repeat a row" (`repository.go:83`): an event whose occurred_at moves comes twice |
| `commit_race` | a caller that is gone is "Reported as canceled rather than internal" (`rpc.go:306`): not when its context ended just before the COMMIT |

### Disagreements without a run

Read while modelling, each a sentence and the code beside it:

- `lifecycle.go:179` names "everything still running" in the timeout error. The list is
  `running[:i+1]`, which holds components that have returned on their own as well;
  `named` in `Supervisor` is that list.
- `pkg/database/database.go:422-425` says that Close waits for the connections in use.
  That is `database/sql`'s to keep, whose code is not in the repository, and its own
  documentation speaks of queries that have started on the server only. The model
  does both. If Close waits, the end of a process under which a drain gave up takes
  as long as a request's last statement, which no timeout of the chain allows for.
- `api/app.go:187` says that every user of the pool has stopped when it is closed. A
  server whose listener failed, or whose drain ran into its timeout, has requests left;
  `CutsAreReported` says that Run has an error to return then. `ShutdownBudget` says when a
  drain gives up: with `config.toml` it takes a client that asks for a longer deadline
  than the 15s it would get (`interceptor.go:127-132` lets it), or the tie of
  5s + 15s = 20s.
- `service.go:248-250` has ListEvents check the campaign "so that an unknown id is reported
  as such rather than as an empty page". The list is another statement: a campaign
  deleted between the two is answered OK with an empty page, as `KeysetPaging` allows.
- `repository.go:112-132` leaves a cursor's id unchecked, so a token whose id was damaged
  into no uuid is answered Internal, where a token that does not parse is the
  caller's error.
- `config.toml:38-39` asks for `<=`. On a tie the drain's timer and the end of the
  request are due in the same instant, and either may win; `RequestsFit` and `DrainsFit`
  need `<`. The sentence also leaves out the flush of 5s after the supervisor.
- `read_timeout` is off by default in the code, and then nothing bounds the body.
- `config.toml:42` asks for a grace period of 35s or more; `deployment.yaml` sets none.
- `database/observe.go:261-263` says of `errorType` that it "reports no error at all" for
  a caller that gave up; it returns `canceled` or `deadline_exceeded`.

### Fairness

- `KeysetPaging`: weak fairness of the client's steps. It asks for the next page and
  the database answers; nothing is assumed of the writers, which draw ids from a
  finite set (`Id`), the bound that keeps inserts from outrunning a walk whose pages are
  finite.
- `Supervisor`: weak fairness of Run's goroutine, of each component goroutine once
  Serve has returned, and of the timer. The Go scheduler runs what can run, and an
  armed timer fires. Nothing is assumed of Serve or of signals.
- `ApiProcess`: the same, for the two servers' goroutines and drain timers, and for New
  and the end of Run. A statement ends, at the latest by its deadline: `timeoutInterceptor`
  gives every call one, `DB.Ping` every probe. No request is assumed to end and no
  listener to bind.
- `Migrate`: weak fairness of each run under way, whose statements end and whose wait is
  bounded by `lock_wait`, and of the database freeing the lock of a process that is gone.
  Nothing is assumed of kills, of gates, or that a process starts at all.
- `RequestPipeline`: weak fairness of the timers (`Expire`, `ReadTimesOut`), of code that
  waits for nobody, and of what a context ends, as the driver and database/sql heed
  contexts. Nothing is assumed of the database, of a client, or of the order in which
  the pool serves: `EveryoneIsAnswered` rests on the deadlines alone.
- `ShutdownBudget` states no liveness: how late something may come is a safety property
  here.
- `CampaignStore` has none: it states no liveness, as a request whose client is gone may
  simply stay unanswered.

`CHECK_DEADLOCK FALSE` is in every cfg because every one of these systems really
stops: requests answered, walk ended, process exited.

## What is proved

TLAPS proves, for every value of the constants that satisfies the named ASSUMEs:

- `CampaignStoreProofs`: `TypeCorrect`, `NoOrphans`, `OnlyNarrowWindowsFail` and
  `Implementation`, the refinement of `CampaignAggregate`. A write puts into a table
  what its request prepared statements earlier, so neither "rows are valid" nor "no
  orphans" is inductive. `Inv` adds what a request holds on its way to a write
  (`RequestsHold`), that stored ids were drawn (`StoredIdsUsed`), and that an id about to
  be inserted belongs to one request and no row (`InsertsAreFresh`). The last is what
  makes an insert a creation in the abstract specification. `OnlyNarrowWindowsFail` is
  the other half of `narrow_window`, for any precision: of the campaigns that
  passed Validate and are about to be written, the CHECKs refuse the ones whose window is
  narrow and no other. It rests on truncation being monotone.
- `CampaignAnswersProofs`: `AnswersAreTrue`, `OneRemoves`, `PatchesArrive`, `AnswersFit`,
  over `Inv` of `CampaignStoreProofs`. Each step of a request is first shown to have one of
  four shapes (`StepShape`): the request moves on, is refused, has written, or fails; the
  invariants are then proved from the shapes. What makes them inductive is that a request
  on its way to a write has its patch in hand (`PatchesHeld`), that nothing was done or told
  before the answer (`Unanswered`), and that a row somebody removed is gone for good
  (`RemovedAreGone`). The last is not visible in one step of the store: it follows
  from the refinement, where a deleted id is spent. That Internal is told for narrow
  windows only takes from `OnlyNarrowWindowsFail` what a write's CHECK may refuse.
- `KeysetPagingProofs`: `TypeCorrect`, `Descent`, `FittingPages`, `NoSkips`, `NoRepeats`
  and `TokenHasItsRow`, that the existential in `ListPage` never blocks it.
  `CursorInv` says
  that the cursor separates: everything delivered is at or above it, every still row that
  was not delivered is below. A page is then a prefix of what is below
  (`PageIsPrefix`), from the definition of LIMIT by cardinality, for which tables must be
  finite. That a page is full rests on `RanksAreABijection`: counting the rows before a row
  maps the rows that match one to one onto an interval. For campaigns, `CampaignInv` adds that a delivered key is the row's own.
- `SupervisorProofs`: `TypeCorrect`, `ReverseOrder`, `HooksFirst`, `ErrorsKept`, for any
  number of components and hooks. `Progress` ties the contexts and the collected
  components to how far Run has come, `Delivery` what is in a done channel to what
  Serve returned.
- `ApiProcessProofs`: `AppKeepsSupervisorPromises`, `AppTypeCorrect`, `ProbesOutlive`,
  `LeavesFirst`, `RequestsKeepThePool`, `CutsAreTold`. Each step of the application is one of the
  supervisor's or none (`StepImplements`), so the supervisor's invariant holds here
  without being proved again. `AppInv` ties the rest to it: a drain begins only when its
  server's context is cancelled, and closes the port (`Drains`); the hook has told both
  probes once it is done (`Told`); a server that has returned has no request left unless it
  is in `cut` (`Settled`), and one in `cut` has returned an error (`Reported`); the pool
  is open until Run is over (`Stages`). "The probes outlive the drain" is then the
  supervisor's reverse order.
- `RequestPipelineProofs`: `TypeCorrect`, `EveryRequestIsAccountedOnce`, `FaultsAreTold`,
  `EveryConnectionComesBack`. `Inv` says, for one request at a time, which lines it has
  left (`Accounts`), which faults it has told, and in a transaction that is about to end
  what its statements met (`Tells`), and that it has a unit of work in hand (`Works`); for
  the pool, that connections are held in four phases and in no other (`Holds`) and that
  `inUse` counts them (`Counted`). A step is one customer's (`Alone`) and takes or
  returns its connection as it enters or leaves those phases (`PoolStep`).
- `MigrateProofs`: `TypeCorrect`, `ListsStayCurrent`, `RecordIsTrue`, `SuccessIsComplete`,
  `ReportsAreHonest`, `GatesTellTheTruth`, `NothingIsLate`, for any processes, images and
  orders. `LockHeld` says that whoever is inside a run holds the lock, which makes
  the list of a run stay current and keeps what it has left to do above all that is
  recorded (`Above`). `Recording` is what is true between the statements of a
  migration without a transaction and its row. `Covered` is what an upwards run still
  owes (done, undone, or on its list), `Ledger` what it has put down about itself before
  it reports, `GateTold` what a gate has been told. Only `LockHeld`, `ListStaysCurrent`
  and `Above` need the lock.

- `ShutdownBudgetProofs`: `TypesHold` and `ChainHolds`, for any configurations and any
  number of requests and probes. Two timers run down together, so the invariant compares
  them link by link: under `RequestsFit` what a request may still take is below what is
  left of the drain (`RpcLink`), under `PingsFit` likewise (`OpsLink`); under `DrainsFit`
  the supervisor's timer exceeds what the drains in hand and to come may take
  (`BackstopLink`), under `GraceFits` the grace period exceeds the supervisor's timer and
  the flush (`GraceLink`). `Waited` says that nobody is left when nobody gave up. No link
  rests on another, which is why each timer answers only for its own.

Only model-checked: everything about liveness and fairness, which is out of the
prover's reach (`WalkEnds`, `ShutdownCompletes`, `NoGoroutineLeaks`, `ProcessExits`,
`LockIsReleased`, `EveryoneIsAnswered`). Every invariant and every action property
that a run checks is proved as well.

The proofs rest on the named ASSUMEs alone. Most bound a constant or make a set finite.
Two say that `Nil` is none of the codes, errors and statuses it stands beside, which a
model value in a cfg is anyway; without them an answer not yet given could equal one.

## Not modelled

- Telemetry, spans and metrics: they read, and no decision depends on them.
- Streams: no module of the repository serves one.
- The layers of the configuration, flags, version and output: sequential, stateless.
- Text: page tokens, messages, JSON payloads, timestamps as text.
- Isolation other than READ COMMITTED: the code sets none.
- Retries of a caller: the service does not make requests idempotent and does not
  claim to, so a repeated CreateEvent is just another request.
- A hook that never returns, a lease of `lock_mode` table that expires under a slow runner,
  and the pool of one connection that the session lock would exhaust: the first is
  excluded by its package, the other two depend on how goose keeps its lock.

## Plan

Done, in order of importance: `CampaignAggregate` and `CampaignStore` with proofs,
`Supervisor`, `ApiProcess`, `KeysetPaging`, `Migrate`, `ShutdownBudget` and
`RequestPipeline`, each with proofs.

Next:

1. The lease of `lock_mode` table, which a slow holder may lose, as a mode of `Migrate`
   of its own: the lock's properties are then to be stated for the session lock.
2. An abstract specification of the connection pool, a counter and its holders, that
   `RequestPipeline` implements, so that `Counted` and `Holds` are proved once.
3. An abstract answer of one request (told, done, unknown) that `CampaignStore`
   implements slot by slot, in place of the history variables.
