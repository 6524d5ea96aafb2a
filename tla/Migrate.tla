------------------------------ MODULE Migrate ------------------------------
(***************************************************************************)
(* pkg/migrate and its db command: processes that bring the schema of one  *)
(* database to the versions embedded in their image (runners), and         *)
(* processes that ask, without a lock, whether that has happened (gates).  *)
(*                                                                         *)
(* A runner is one invocation: `db migrate`, or a Go caller of             *)
(* Migrator.Down and DownTo.  A retry is another runner.  Both lock modes  *)
(* above "none" are one lock that outlives nobody: the server (session) or *)
(* the lease (table) frees it some time after its holder is gone.          *)
(*                                                                         *)
(* goose and PostgreSQL are not in the repository.  What they do is taken  *)
(* from the code that calls them: a transactional migration changes the    *)
(* schema and its row of the version table together, one marked NO         *)
(* TRANSACTION runs its statements first and writes the row afterwards.    *)
(***************************************************************************)
EXTENDS Integers

CONSTANTS
    Runner,       \* processes that migrate
    Gate,         \* processes that run `db version`
    Version,      \* versions of all the images
    Image,        \* Image[p]: the versions embedded in the image of process p
    NoTx,         \* versions marked NO TRANSACTION
    Order,        \* what a runner may be asked to do
    Nil

ASSUME VersionAssumption == Version \subseteq Nat \ {0}
ASSUME ImageAssumption == Image \in [Runner \cup Gate -> SUBSET Version]
ASSUME NoTxAssumption == NoTx \subseteq Version
ASSUME OrderAssumption ==
    Order \subseteq [op : {"Up", "UpTo", "Down", "DownTo"}, to : Nat]
ASSUME NilAssumption ==
    Nil \notin Runner /\ Nil # "error" /\ Nil \notin Version

VARIABLES
    config,       \* [migrate] of every process: is there a lock, allow_out_of_order
    recorded,     \* the versions that have a row in the version table
    schema,       \* schema[v]: how much of the statements of v is in the schema
    holder,       \* who holds the migration lock
    pc,           \* pc[r]: where runner r is
    order,        \* order[r]: what r was asked to do
    todo,         \* todo[r]: the migrations r has listed and not run yet
    landed,       \* history: the migrations of r whose row was written (or removed)
    failedAt,     \* failedAt[r]: the migration that failed, of all r ran
    err,          \* err[r]: the error r exits with
    output,       \* output[r]: the lists of migrations r has printed, one or none
    gpc,          \* gpc[g]: where gate g is
    saw,          \* saw[g]: the schema version g printed
    undone        \* history: the versions a rollback has begun to run

database == <<recorded, schema, undone>>
results == <<landed, failedAt, err, output>>
gates == <<gpc, saw>>
vars == <<config, recorded, schema, holder, pc, order, todo, landed, failedAt,
          err, output, gpc, saw, undone>>

Init ==
    /\ config \in [locks : BOOLEAN, outOfOrder : BOOLEAN]
    /\ recorded = {}
    /\ schema = [v \in Version |-> "absent"]
    /\ holder = Nil
    /\ pc = [r \in Runner |-> "idle"]
    /\ order \in [Runner -> Order]
    /\ todo = [r \in Runner |-> {}]
    /\ landed = [r \in Runner |-> {}]
    /\ failedAt = [r \in Runner |-> Nil]
    /\ err = [r \in Runner |-> Nil]
    /\ output = [r \in Runner |-> {}]
    /\ gpc = [g \in Gate |-> "idle"]
    /\ saw = [g \in Gate |-> 0]
    /\ undone = {}

IsUp(r) == order[r].op \in {"Up", "UpTo"}

\* Faulty Asked: the version a run is pinned to is left out.
AskedBelow(r) == {v \in Image[r] : order[r].op = "UpTo" => v < order[r].to}

\* The versions of r's image that an upwards run is asked for.
Asked(r) == {v \in Image[r] : order[r].op = "UpTo" => v <= order[r].to}

\* The versions among asked that are still to be applied, and those of them that are
\* below a version already recorded.
Pending(asked) == asked \ recorded
Late(asked) == {v \in Pending(asked) : \E u \in recorded : v < u}

\* The versions a rollback is asked for.
Unwanted(r) ==
    {v \in recorded : IF order[r].op = "Down" THEN \A u \in recorded : u <= v
                                              ELSE v > order[r].to}

\* Migration v, run by r, would change the version table.
Current(r, v) == IsUp(r) <=> v \notin recorded

\* What a run makes of the statements of a migration.
Goal(r) == IF IsUp(r) THEN "whole" ELSE "absent"

\* It is v's turn in the list of r: upwards from the lowest, downwards from the highest.
Turn(r, v) ==
    /\ v \in todo[r]
    /\ \A u \in todo[r] : IF IsUp(r) THEN v <= u ELSE u <= v

-----------------------------------------------------------------------------
(* A run: opening, the lock, the list *)

\* The command wires its application and begins, or fails on the way.
Open(r) ==
    /\ pc[r] = "idle"
    /\ \/ pc' = [pc EXCEPT ![r] = "waiting"] /\ UNCHANGED err
       \/ pc' = [pc EXCEPT ![r] = "ended"] /\ err' = [err EXCEPT ![r] = "error"]
    /\ UNCHANGED <<config, database, holder, order, todo, landed, failedAt, output,
                   gates>>

\* Faulty Acquire: whatever the lock mode, nothing is locked.
AcquireNothing(r) ==
    /\ pc[r] = "waiting"
    /\ pc' = [pc EXCEPT ![r] = "listing"]
    /\ UNCHANGED <<config, database, holder, order, todo, results, gates>>

Acquire(r) ==
    /\ pc[r] = "waiting"
    /\ IF config.locks THEN holder = Nil /\ holder' = r ELSE UNCHANGED holder
    /\ pc' = [pc EXCEPT ![r] = "listing"]
    /\ UNCHANGED <<config, database, order, todo, results, gates>>

\* lock_wait, the timeout of the run or a signal ends the wait.
GiveUp(r) ==
    /\ pc[r] = "waiting"
    /\ pc' = [pc EXCEPT ![r] = "ended"]
    /\ err' = [err EXCEPT ![r] = "error"]
    /\ UNCHANGED <<config, database, holder, order, todo, landed, failedAt, output,
                   gates>>

\* The run is over; what is left of it is the lock.
Stop(r, error) ==
    /\ pc' = [pc EXCEPT ![r] = "unlocking"]
    /\ err' = [err EXCEPT ![r] = error]

\* Faulty ListUp: a version below a recorded one is applied like any other.
ListUpQuietly(r) ==
    /\ pc[r] = "listing"
    /\ IsUp(r)
    /\ todo' = [todo EXCEPT ![r] = Pending(Asked(r))]
    /\ pc' = [pc EXCEPT ![r] = "applying"]
    /\ UNCHANGED <<config, database, holder, order, results, gates>>

\* Up and UpTo: the pending migrations; late ones are refused unless configured.
ListUp(r) ==
    /\ pc[r] = "listing"
    /\ IsUp(r)
    /\ config.outOfOrder \/ Late(Asked(r)) = {}
    /\ todo' = [todo EXCEPT ![r] = Pending(Asked(r))]
    /\ pc' = [pc EXCEPT ![r] = "applying"]
    /\ UNCHANGED <<config, database, holder, order, results, gates>>

\* Down and DownTo: recorded migrations that this image can roll back.
ListDown(r) ==
    /\ pc[r] = "listing"
    /\ ~ IsUp(r)
    /\ Unwanted(r) \subseteq Image[r]
    /\ order[r].op = "Down" => Unwanted(r) # {}
    /\ todo' = [todo EXCEPT ![r] = Unwanted(r)]
    /\ pc' = [pc EXCEPT ![r] = "applying"]
    /\ UNCHANGED <<config, database, holder, order, results, gates>>

\* The list is refused, or the read of the version table fails.
ListFails(r) ==
    /\ pc[r] = "listing"
    /\ Stop(r, "error")
    /\ UNCHANGED <<config, database, holder, order, todo, landed, failedAt, output,
                   gates>>

-----------------------------------------------------------------------------
(* A run: the migrations *)

\* The row of v is written, upwards, or removed, downwards.
WriteRow(r, v) ==
    /\ recorded' = IF IsUp(r) THEN recorded \cup {v} ELSE recorded \ {v}
    /\ landed' = [landed EXCEPT ![r] = @ \cup {v}]

\* The answer to the last statement of v: the run goes on, or ends with the error of a
\* statement that did take effect.
Answer(r, v) ==
    \/ /\ todo' = [todo EXCEPT ![r] = @ \ {v}]
       /\ pc' = [pc EXCEPT ![r] = "applying"]
       /\ UNCHANGED <<failedAt, err>>
    \/ /\ Stop(r, "error")
       /\ failedAt' = [failedAt EXCEPT ![r] = v]
       /\ UNCHANGED todo

\* v fails and the run with it.
Fails(r, v) ==
    /\ Stop(r, "error")
    /\ failedAt' = [failedAt EXCEPT ![r] = v]
    /\ UNCHANGED <<recorded, landed, todo>>

\* A rollback of v begins.
Undo(r, v) == undone' = IF IsUp(r) THEN undone ELSE undone \cup {v}

\* A migration in a transaction: the statements and the row, or neither.
Apply(r) == \E v \in todo[r] :
    /\ pc[r] = "applying"
    /\ Turn(r, v)
    /\ v \notin NoTx
    /\ Current(r, v)
    /\ schema' = [schema EXCEPT ![v] = Goal(r)]
    /\ Undo(r, v)
    /\ WriteRow(r, v)
    /\ Answer(r, v)
    /\ UNCHANGED <<config, holder, order, output, gates>>

\* Faulty ApplyFails: the migration is not wrapped in a transaction.
ApplyFailsHalfway(r) == \E v \in todo[r] :
    /\ pc[r] = "applying"
    /\ Turn(r, v)
    /\ v \notin NoTx
    /\ schema' = [schema EXCEPT ![v] = "half"]
    /\ Fails(r, v)
    /\ UNCHANGED <<config, undone, holder, order, output, gates>>

\* Its statements or its row fail, or it is cancelled: the transaction rolls back.
ApplyFails(r) == \E v \in todo[r] :
    /\ pc[r] = "applying"
    /\ Turn(r, v)
    /\ v \notin NoTx
    /\ Fails(r, v)
    /\ UNCHANGED <<config, schema, undone, holder, order, output, gates>>

\* A migration without a transaction runs its statements.
RunNoTx(r) == \E v \in todo[r] :
    /\ pc[r] = "applying"
    /\ Turn(r, v)
    /\ v \in NoTx
    /\ schema' = [schema EXCEPT ![v] = Goal(r)]
    /\ Undo(r, v)
    /\ pc' = [pc EXCEPT ![r] = "recording"]
    /\ UNCHANGED <<config, recorded, holder, order, todo, results, gates>>

\* It fails and leaves behind what it had done of them.
RunNoTxFails(r) == \E v \in todo[r] :
    /\ pc[r] = "applying"
    /\ Turn(r, v)
    /\ v \in NoTx
    /\ \E left \in {schema[v], "half"} :
          /\ schema[v] = Goal(r) => left = Goal(r)
          /\ schema' = [schema EXCEPT ![v] = left]
    /\ Undo(r, v)
    /\ Fails(r, v)
    /\ UNCHANGED <<config, holder, order, output, gates>>

\* Its row follows.
Record(r) == \E v \in todo[r] :
    /\ pc[r] = "recording"
    /\ Turn(r, v)
    /\ Current(r, v)
    /\ WriteRow(r, v)
    /\ Answer(r, v)
    /\ UNCHANGED <<config, schema, undone, holder, order, output, gates>>

RecordFails(r) == \E v \in todo[r] :
    /\ pc[r] = "recording"
    /\ Turn(r, v)
    /\ Fails(r, v)
    /\ UNCHANGED <<config, schema, undone, holder, order, output, gates>>

\* Nothing is left to do.
Finish(r) ==
    /\ pc[r] = "applying"
    /\ todo[r] = {}
    /\ Stop(r, Nil)
    /\ UNCHANGED <<config, database, holder, order, todo, landed, failedAt, output,
                   gates>>

-----------------------------------------------------------------------------
(* A run: its end *)

\* Faulty Applied: the list goose returns, which is empty beside an error.
AppliedOfSuccess(r, error) == IF error # Nil THEN {} ELSE landed[r]

\* The migrations listed beside a success or inside a PartialError; the single result
\* of Down is dropped with its error.
Applied(r, error) ==
    IF order[r].op = "Down" /\ error # Nil THEN {} ELSE landed[r] \ {failedAt[r]}

\* What the command prints: its list of migrations, which may be empty ("no pending
\* migrations"), or no list at all under an error that nothing came before.
Report(r, error) ==
    output' = [output EXCEPT ![r] =
                 IF error = Nil \/ Applied(r, error) # {} THEN {Applied(r, error)}
                                                         ELSE {}]

\* The lock is given back, or the call that does it fails and fails the run.
Unlock(r) ==
    /\ pc[r] = "unlocking"
    /\ pc' = [pc EXCEPT ![r] = "ended"]
    /\ \/ /\ holder' = IF holder = r THEN Nil ELSE holder
          /\ Report(r, err[r])
          /\ UNCHANGED err
       \/ /\ holder = r
          /\ err' = [err EXCEPT ![r] = "error"]
          /\ Report(r, "error")
          /\ UNCHANGED holder
    /\ UNCHANGED <<config, database, order, todo, landed, failedAt, gates>>

\* The process is killed, at any point.
Kill(r) ==
    /\ pc[r] \notin {"idle", "ended", "dead"}
    /\ pc' = [pc EXCEPT ![r] = "dead"]
    /\ UNCHANGED <<config, database, holder, order, todo, results, gates>>

\* Faulty Expire: the lease of a runner that ended is kept alive.
ExpireDeadOnly(r) ==
    /\ pc[r] = "dead"
    /\ holder = r
    /\ holder' = Nil
    /\ UNCHANGED <<config, database, pc, order, todo, results, gates>>

\* The database frees the lock of a process that is gone.
Expire(r) ==
    /\ pc[r] \in {"ended", "dead"}
    /\ holder = r
    /\ holder' = Nil
    /\ UNCHANGED <<config, database, pc, order, todo, results, gates>>

-----------------------------------------------------------------------------
(* A gate: `db version`, two reads without a lock *)

\* Faulty AskVersion: the version the next migration would have.
AskNextVersion(g) ==
    /\ gpc[g] = "idle"
    /\ \E v \in recorded \cup {0} :
          /\ \A u \in recorded : u <= v
          /\ saw' = [saw EXCEPT ![g] = v + 1]
    /\ gpc' = [gpc EXCEPT ![g] = "asked"]
    /\ UNCHANGED <<config, database, holder, pc, order, todo, results>>

\* The highest version recorded, or 0.
AskVersion(g) ==
    /\ gpc[g] = "idle"
    /\ \E v \in recorded \cup {0} :
          /\ \A u \in recorded : u <= v
          /\ saw' = [saw EXCEPT ![g] = v]
    /\ gpc' = [gpc EXCEPT ![g] = "asked"]
    /\ UNCHANGED <<config, database, holder, pc, order, todo, results>>

\* Faulty AskPending: only versions above the one just printed count as pending.
AskAbove(g) ==
    /\ gpc[g] = "asked"
    /\ gpc' = [gpc EXCEPT ![g] = IF \A v \in Image[g] : v <= saw[g]
                                 THEN "passed" ELSE "refused"]
    /\ UNCHANGED <<config, database, holder, pc, order, todo, results, saw>>

\* Is anything pending?  A late version is an error, or pending; both refuse.
AskPending(g) ==
    /\ gpc[g] = "asked"
    /\ gpc' = [gpc EXCEPT ![g] = IF Pending(Image[g]) = {} THEN "passed" ELSE "refused"]
    /\ UNCHANGED <<config, database, holder, pc, order, todo, results, saw>>

\* Either read, or what comes before it, fails.
AskFails(g) ==
    /\ gpc[g] \in {"idle", "asked"}
    /\ gpc' = [gpc EXCEPT ![g] = "refused"]
    /\ UNCHANGED <<config, database, holder, pc, order, todo, results, saw>>

-----------------------------------------------------------------------------

\* The steps of a run that is under way; Open begins it and Kill ends it.
Progress(r) ==
    \/ Acquire(r) \/ GiveUp(r)
    \/ ListUp(r) \/ ListDown(r) \/ ListFails(r)
    \/ Apply(r) \/ ApplyFails(r) \/ RunNoTx(r) \/ RunNoTxFails(r)
    \/ Record(r) \/ RecordFails(r)
    \/ Finish(r) \/ Unlock(r)

Next ==
    \/ \E r \in Runner : Open(r) \/ Progress(r) \/ Kill(r) \/ Expire(r)
    \/ \E g \in Gate : AskVersion(g) \/ AskPending(g) \/ AskFails(g)

\* A run under way goes on (its statements end, its waits are bounded), and the
\* database frees the lock of a process that is gone.
Fairness == \A r \in Runner : WF_vars(Progress(r)) /\ WF_vars(Expire(r))

Spec == Init /\ [][Next]_vars /\ Fairness

-----------------------------------------------------------------------------
(* Properties *)

\* The types of the state.
TypeOK ==
    /\ config \in [locks : BOOLEAN, outOfOrder : BOOLEAN]
    /\ recorded \in SUBSET Version
    /\ schema \in [Version -> {"absent", "half", "whole"}]
    /\ holder \in Runner \cup {Nil}
    /\ pc \in [Runner -> {"idle", "waiting", "listing", "applying", "recording",
                         "unlocking", "ended", "dead"}]
    /\ order \in [Runner -> Order]
    /\ todo \in [Runner -> SUBSET Version]
    /\ landed \in [Runner -> SUBSET Version]
    /\ failedAt \in [Runner -> Version \cup {Nil}]
    /\ err \in [Runner -> {Nil, "error"}]
    /\ output \in [Runner -> SUBSET SUBSET Version]
    /\ gpc \in [Gate -> {"idle", "asked", "passed", "refused"}]
    /\ saw \in [Gate -> Version \cup {0}]
    /\ undone \in SUBSET Version

\* A list taken under the lock stays true until it is used up: with two runners at
\* once, no migration waits to be run that another has run meanwhile, so none runs
\* twice and the second runner finds nothing to do (Up, lock_mode).
ListStaysCurrent ==
    config.locks =>
        \A r \in Runner : pc[r] \in {"applying", "recording"} =>
            \A v \in todo[r] : Current(r, v)

\* The version table tells what is in the schema: exactly, for a migration in a
\* transaction, however its run ended; for one without, a row means its statements are
\* all there, unless a rollback of it began.
SchemaMatchesRecord ==
    \A v \in Version :
        /\ v \notin NoTx => schema[v] = IF v \in recorded THEN "whole" ELSE "absent"
        /\ v \in recorded \ undone => schema[v] = "whole"

\* With allow_out_of_order off, under the lock, no version is ever recorded below one
\* that is recorded already (AllowOutOfOrder).
NoLateVersions ==
    [][config.locks /\ ~ config.outOfOrder =>
          \A v \in recorded' \ recorded, u \in recorded : u < v]_vars

\* A run that says it succeeded left nothing of what it was asked for pending, even if
\* others ran before, beside and after it, unless one rolled it back.
SuccessMeansMigrated ==
    \A r \in Runner :
        IsUp(r) /\ pc[r] = "ended" /\ err[r] = Nil =>
            \A v \in Image[r] :
                order[r].op = "Up" \/ v <= order[r].to => v \in recorded \cup undone

\* What has been printed about run r.
Said(r) == UNION output[r]

\* A run that ends reports what it did.  Without an error, all of it; with one, all but
\* the migration it failed at, which may have taken effect.  Down reports nothing
\* beside an error (Up, appliedFrom).
ReportIsHonest ==
    \A r \in Runner : pc[r] = "ended" =>
        /\ Said(r) \subseteq landed[r]
        /\ err[r] = Nil => Said(r) = landed[r]
        /\ order[r].op # "Down" => landed[r] \subseteq Said(r) \cup {failedAt[r]}

\* A gate that passed can trust the schema: every migration of its image is in it,
\* whoever applied it and whatever runs beside the gate, unless one was rolled back
\* since; and the version it printed was reached (HasPending, App.Version).
GateTellsTheTruth ==
    \A g \in Gate :
        /\ gpc[g] = "passed" => \A v \in Image[g] \ undone :
                                  v \in recorded /\ schema[v] = "whole"
        /\ saw[g] \in recorded \cup undone \cup {0}

\* Whatever becomes of the runner that holds it, success, failure or a kill, the lock
\* is free again for the next one.
LockIsReleased == \A r \in Runner : holder = r ~> holder # r
=============================================================================
