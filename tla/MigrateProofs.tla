--------------------------- MODULE MigrateProofs ---------------------------
(***************************************************************************)
(* For any processes, versions, images and orders: what a list taken under *)
(* the lock is worth, what the version table says of the schema, and what  *)
(* a run and a gate may tell.                                              *)
(*                                                                         *)
(* The list of a run stays current because its holder is alone inside the  *)
(* lock (LockHeld); the rest follows from what a run owes while it is      *)
(* under way (Recording, Above, Covered, Ledger), which no other process   *)
(* can disturb.                                                            *)
(***************************************************************************)
EXTENDS Migrate, TLAPS

Inside == {"listing", "applying", "recording", "unlocking"}

\* Whoever is inside a run holds the lock, if there is one.
LockHeld == config.locks => \A r \in Runner : pc[r] \in Inside => holder = r

\* Between the statements of a migration and its row: it has no transaction, and its
\* statements are all there, or a rollback of it has begun.
Recording ==
    \A r \in Runner, v \in Version : pc[r] = "recording" /\ Turn(r, v) =>
        /\ v \in NoTx
        /\ v \notin undone => IsUp(r) /\ schema[v] = "whole"

\* What an upwards run still has to do lies above all that is recorded.
Above ==
    config.locks /\ ~ config.outOfOrder =>
        \A r \in Runner : pc[r] \in {"applying", "recording"} /\ IsUp(r) =>
            \A v \in todo[r], u \in recorded : u < v

\* What an upwards run was asked for is done, undone or still on its list.
Covered ==
    \A r \in Runner, v \in Version : IsUp(r) /\ v \in Asked(r) =>
        /\ pc[r] \in {"applying", "recording"} => v \in recorded \cup undone \cup todo[r]
        /\ pc[r] \in {"unlocking", "ended"} /\ err[r] = Nil => v \in recorded \cup undone

\* What a run has put down about itself before it reports.
Ledger ==
    \A r \in Runner :
        /\ pc[r] \notin {"unlocking", "ended", "dead"} => failedAt[r] = Nil
        /\ pc[r] \in {"idle", "waiting", "listing"} => landed[r] = {}
        /\ pc[r] \notin {"ended", "dead"} => output[r] = {}
        /\ err[r] = Nil /\ pc[r] # "dead" => failedAt[r] = Nil

\* What a gate has been told.
GateTold ==
    \A g \in Gate :
        /\ gpc[g] = "passed" => Image[g] \subseteq recorded \cup undone
        /\ saw[g] \in recorded \cup undone \cup {0}

Inv ==
    /\ TypeOK /\ LockHeld /\ ListStaysCurrent
    /\ Recording /\ SchemaMatchesRecord
    /\ Above /\ Covered
    /\ Ledger /\ ReportIsHonest
    /\ GateTold

USE VersionAssumption, ImageAssumption, NoTxAssumption, OrderAssumption, NilAssumption

-----------------------------------------------------------------------------

\* The types of what the parts of an action write.
LEMMA RowTypes ==
    ASSUME TypeOK, NEW r \in Runner, NEW v \in Version, WriteRow(r, v)
    PROVE  recorded' \in SUBSET Version /\ landed' \in [Runner -> SUBSET Version]
BY DEF TypeOK, WriteRow

LEMMA AnswerTypes ==
    ASSUME TypeOK, NEW r \in Runner, NEW v \in Version, Answer(r, v)
    PROVE  /\ todo' \in [Runner -> SUBSET Version]
           /\ pc' \in [Runner -> {"idle", "waiting", "listing", "applying",
                                  "recording", "unlocking", "ended", "dead"}]
           /\ failedAt' \in [Runner -> Version \cup {Nil}]
           /\ err' \in [Runner -> {Nil, "error"}]
<1>1. CASE pc' = [pc EXCEPT ![r] = "applying"]
  BY <1>1 DEF TypeOK, Answer, Stop
<1>2. CASE Stop(r, "error") /\ failedAt' = [failedAt EXCEPT ![r] = v] /\ UNCHANGED todo
  BY <1>2 DEF TypeOK, Stop
<1> QED
  BY <1>1, <1>2 DEF Answer

LEMMA SchemaTypes ==
    ASSUME TypeOK, NEW r \in Runner, NEW v \in Version, Undo(r, v),
           NEW s \in {"absent", "half", "whole"}, schema' = [schema EXCEPT ![v] = s]
    PROVE  /\ undone' \in SUBSET Version
           /\ schema' \in [Version -> {"absent", "half", "whole"}]
BY DEF TypeOK, Undo

LEMMA GoalType == ASSUME NEW r PROVE Goal(r) \in {"absent", "half", "whole"}
BY DEF Goal

LEMMA ReportTypes ==
    ASSUME TypeOK, NEW r \in Runner, NEW error, Report(r, error)
    PROVE  output' \in [Runner -> SUBSET SUBSET Version]
<1> DEFINE said == Applied(r, error)
<1>1. said \subseteq Version
  BY DEF TypeOK, Applied
<1>2. CASE error = Nil \/ said # {}
  <2>1. output' = [output EXCEPT ![r] = {said}]
    BY <1>2 DEF Report
  <2> QED
    BY <1>1, <2>1 DEF TypeOK
<1>3. CASE ~ (error = Nil \/ said # {})
  <2>1. output' = [output EXCEPT ![r] = {}]
    BY <1>3 DEF Report
  <2> QED
    BY <2>1 DEF TypeOK
<1> QED
  BY <1>2, <1>3


\* Every step keeps the types.
LEMMA TypePreserved ==
    TypeOK /\ [Next]_vars => TypeOK'
<1> SUFFICES ASSUME TypeOK, [Next]_vars
             PROVE  TypeOK'
    OBVIOUS
<1>1. ASSUME NEW r \in Runner, Open(r) PROVE TypeOK'
  BY <1>1 DEF Open, TypeOK, database, results, gates
<1>2. ASSUME NEW r \in Runner, Acquire(r) PROVE TypeOK'
  BY <1>2 DEF Acquire, TypeOK, database, results, gates
<1>3. ASSUME NEW r \in Runner, GiveUp(r) PROVE TypeOK'
  BY <1>3 DEF GiveUp, TypeOK, database, results, gates
<1>4. ASSUME NEW r \in Runner, ListUp(r) PROVE TypeOK'
  BY <1>4 DEF ListUp, TypeOK, database, results, gates, Asked, Pending
<1>5. ASSUME NEW r \in Runner, ListDown(r) PROVE TypeOK'
  BY <1>5 DEF ListDown, TypeOK, database, results, gates, Unwanted
<1>6. ASSUME NEW r \in Runner, ListFails(r) PROVE TypeOK'
  BY <1>6 DEF ListFails, TypeOK, database, results, gates, Stop
<1>7. ASSUME NEW r \in Runner, Apply(r) PROVE TypeOK'
  <2>1. PICK v \in todo[r] : /\ Goal(r) \in {"absent", "half", "whole"}
                          /\ schema' = [schema EXCEPT ![v] = Goal(r)]
                          /\ Undo(r, v) /\ WriteRow(r, v) /\ Answer(r, v)
                          /\ UNCHANGED <<config, holder, order, output, gates>>
    BY <1>7, GoalType DEF Apply
  <2>2. v \in Version
    BY <2>1 DEF TypeOK
  <2> QED
    BY <2>1, <2>2, SchemaTypes, RowTypes, AnswerTypes DEF TypeOK, gates
<1>8. ASSUME NEW r \in Runner, ApplyFails(r) PROVE TypeOK'
  BY <1>8 DEF ApplyFails, TypeOK, database, results, gates, Fails, Stop
<1>9. ASSUME NEW r \in Runner, RunNoTx(r) PROVE TypeOK'
  <2>1. PICK v \in todo[r] : /\ schema' = [schema EXCEPT ![v] = Goal(r)]
                          /\ Undo(r, v)
                          /\ pc' = [pc EXCEPT ![r] = "recording"]
                          /\ UNCHANGED <<config, recorded, holder, order, todo,
                                         results, gates>>
    BY <1>9 DEF RunNoTx
  <2>2. v \in Version
    BY <2>1 DEF TypeOK
  <2> QED
    BY <2>1, <2>2, GoalType, SchemaTypes DEF TypeOK, results, gates
<1>10. ASSUME NEW r \in Runner, RunNoTxFails(r) PROVE TypeOK'
  BY <1>10 DEF RunNoTxFails, TypeOK, database, results, gates, Undo, Goal, Fails, Stop
<1>11. ASSUME NEW r \in Runner, Record(r) PROVE TypeOK'
  <2>1. PICK v \in todo[r] : /\ WriteRow(r, v) /\ Answer(r, v)
                          /\ UNCHANGED <<config, schema, undone, holder, order,
                                         output, gates>>
    BY <1>11 DEF Record
  <2>2. v \in Version
    BY <2>1 DEF TypeOK
  <2> QED
    BY <2>1, <2>2, RowTypes, AnswerTypes DEF TypeOK, gates
<1>12. ASSUME NEW r \in Runner, RecordFails(r) PROVE TypeOK'
  BY <1>12 DEF RecordFails, TypeOK, database, results, gates, Fails, Stop
<1>13. ASSUME NEW r \in Runner, Finish(r) PROVE TypeOK'
  BY <1>13 DEF Finish, TypeOK, database, results, gates, Stop
<1>14. ASSUME NEW r \in Runner, Unlock(r) PROVE TypeOK'
  <2>1. output' \in [Runner -> SUBSET SUBSET Version]
    BY <1>14, ReportTypes DEF Unlock
  <2> QED
    BY <1>14, <2>1 DEF Unlock, TypeOK, database, gates
<1>15. ASSUME NEW r \in Runner, Kill(r) PROVE TypeOK'
  BY <1>15 DEF Kill, TypeOK, database, results, gates
<1>16. ASSUME NEW r \in Runner, Expire(r) PROVE TypeOK'
  BY <1>16 DEF Expire, TypeOK, database, results, gates
<1>17. ASSUME NEW g \in Gate, AskVersion(g) PROVE TypeOK'
  BY <1>17 DEF AskVersion, TypeOK, database, results, gates
<1>18. ASSUME NEW g \in Gate, AskPending(g) PROVE TypeOK'
  BY <1>18 DEF AskPending, TypeOK, database, results, gates
<1>19. ASSUME NEW g \in Gate, AskFails(g) PROVE TypeOK'
  BY <1>19 DEF AskFails, TypeOK, database, results, gates
<1>20. CASE UNCHANGED vars
  BY <1>20 DEF vars, TypeOK, database, results, gates
<1> QED
  BY <1>1, <1>2, <1>3, <1>4, <1>5, <1>6, <1>7, <1>8, <1>9, <1>10, <1>11, <1>12,
     <1>13, <1>14, <1>15, <1>16, <1>17, <1>18, <1>19, <1>20 DEF Next, Progress

\* Nobody enters a run while another is inside, and nobody's lock goes while it is.
LEMMA LockPreserved ==
    TypeOK /\ LockHeld /\ [Next]_vars => LockHeld'
<1> SUFFICES ASSUME TypeOK, LockHeld, [Next]_vars
             PROVE  LockHeld'
    OBVIOUS
<1>1. ASSUME NEW r \in Runner, Open(r) PROVE LockHeld'
  BY <1>1 DEF Open, LockHeld, Inside, TypeOK, database, results, gates
<1>2. ASSUME NEW r \in Runner, Acquire(r) PROVE LockHeld'
  BY <1>2 DEF Acquire, LockHeld, Inside, TypeOK, database, results, gates
<1>3. ASSUME NEW r \in Runner, GiveUp(r) PROVE LockHeld'
  BY <1>3 DEF GiveUp, LockHeld, Inside, TypeOK, database, results, gates
<1>4. ASSUME NEW r \in Runner, ListUp(r) PROVE LockHeld'
  BY <1>4 DEF ListUp, LockHeld, Inside, TypeOK, database, results, gates
<1>5. ASSUME NEW r \in Runner, ListDown(r) PROVE LockHeld'
  BY <1>5 DEF ListDown, LockHeld, Inside, TypeOK, database, results, gates
<1>6. ASSUME NEW r \in Runner, ListFails(r) PROVE LockHeld'
  BY <1>6 DEF ListFails, LockHeld, Inside, TypeOK, database, results, gates, Stop
<1>7. ASSUME NEW r \in Runner, Apply(r) PROVE LockHeld'
  BY <1>7 DEF Apply, LockHeld, Inside, TypeOK, database, results, gates, Answer, Stop
<1>8. ASSUME NEW r \in Runner, ApplyFails(r) PROVE LockHeld'
  BY <1>8 DEF ApplyFails, LockHeld, Inside, TypeOK, database, results, gates, Fails,
     Stop
<1>9. ASSUME NEW r \in Runner, RunNoTx(r) PROVE LockHeld'
  BY <1>9 DEF RunNoTx, LockHeld, Inside, TypeOK, database, results, gates
<1>10. ASSUME NEW r \in Runner, RunNoTxFails(r) PROVE LockHeld'
  BY <1>10 DEF RunNoTxFails, LockHeld, Inside, TypeOK, database, results, gates,
     Fails, Stop
<1>11. ASSUME NEW r \in Runner, Record(r) PROVE LockHeld'
  BY <1>11 DEF Record, LockHeld, Inside, TypeOK, database, results, gates, Answer, Stop
<1>12. ASSUME NEW r \in Runner, RecordFails(r) PROVE LockHeld'
  BY <1>12 DEF RecordFails, LockHeld, Inside, TypeOK, database, results, gates,
     Fails, Stop
<1>13. ASSUME NEW r \in Runner, Finish(r) PROVE LockHeld'
  BY <1>13 DEF Finish, LockHeld, Inside, TypeOK, database, results, gates, Stop
<1>14. ASSUME NEW r \in Runner, Unlock(r) PROVE LockHeld'
  BY <1>14 DEF Unlock, LockHeld, Inside, TypeOK, database, results, gates
<1>15. ASSUME NEW r \in Runner, Kill(r) PROVE LockHeld'
  BY <1>15 DEF Kill, LockHeld, Inside, TypeOK, database, results, gates
<1>16. ASSUME NEW r \in Runner, Expire(r) PROVE LockHeld'
  BY <1>16 DEF Expire, LockHeld, Inside, TypeOK, database, results, gates
<1>17. ASSUME NEW g \in Gate, AskVersion(g) PROVE LockHeld'
  BY <1>17 DEF AskVersion, LockHeld, Inside, TypeOK, database, results, gates
<1>18. ASSUME NEW g \in Gate, AskPending(g) PROVE LockHeld'
  BY <1>18 DEF AskPending, LockHeld, Inside, TypeOK, database, results, gates
<1>19. ASSUME NEW g \in Gate, AskFails(g) PROVE LockHeld'
  BY <1>19 DEF AskFails, LockHeld, Inside, TypeOK, database, results, gates
<1>20. CASE UNCHANGED vars
  BY <1>20 DEF vars, LockHeld, Inside, TypeOK, database, results, gates
<1> QED
  BY <1>1, <1>2, <1>3, <1>4, <1>5, <1>6, <1>7, <1>8, <1>9, <1>10, <1>11, <1>12,
     <1>13, <1>14, <1>15, <1>16, <1>17, <1>18, <1>19, <1>20 DEF Next, Progress

-----------------------------------------------------------------------------
(* What a step does, process by process and version by version *)

\* What a step of r leaves alone.
Frame(r) ==
    /\ UNCHANGED <<config, order>>
    /\ \A s \in Runner \ {r} : pc'[s] = pc[s] /\ todo'[s] = todo[s] /\ err'[s] = err[s]

\* r has written, or removed, the row of v and goes on or fails.
Written(r, v) ==
    /\ v \in Version /\ Turn(r, v) /\ Current(r, v)
    /\ IsUp(r) => recorded' = recorded \cup {v}
    /\ ~ IsUp(r) => recorded' = recorded \ {v}
    /\ \/ pc'[r] = "applying" /\ todo'[r] = todo[r] \ {v}
       \/ pc'[r] = "unlocking" /\ err'[r] = "error"

\* The statements a step runs are those of one migration, which is not whole afterwards
\* only if it was not before, or a rollback of it has begun.
Stated ==
    /\ undone \subseteq undone'
    /\ \A w \in Version :
          schema[w] = "whole" /\ w \notin undone' => schema'[w] = "whole"

LEMMA WrittenByApply ==
    ASSUME TypeOK, NEW r \in Runner, Apply(r)
    PROVE  /\ pc[r] = "applying"
           /\ Frame(r)
           /\ \E v \in Version \ NoTx : Written(r, v) /\ Undo(r, v)
                                        /\ schema' = [schema EXCEPT ![v] = Goal(r)]
<1>1. PICK v \in todo[r] : /\ pc[r] = "applying" /\ Turn(r, v) /\ v \notin NoTx
                           /\ Current(r, v) /\ Undo(r, v)
                           /\ schema' = [schema EXCEPT ![v] = Goal(r)]
                           /\ WriteRow(r, v) /\ Answer(r, v)
                           /\ UNCHANGED <<config, order>>
  BY DEF Apply
<1>2. v \in Version
  BY <1>1 DEF TypeOK
<1>3. Frame(r)
  BY <1>1 DEF TypeOK, Frame, Answer, Stop
<1>4. /\ IsUp(r) => recorded' = recorded \cup {v}
      /\ ~ IsUp(r) => recorded' = recorded \ {v}
  BY <1>1 DEF WriteRow
<1>5. \/ pc'[r] = "applying" /\ todo'[r] = todo[r] \ {v}
      \/ pc'[r] = "unlocking" /\ err'[r] = "error"
  BY <1>1 DEF TypeOK, Answer, Stop
<1> QED
  BY <1>1, <1>2, <1>3, <1>4, <1>5 DEF Written

LEMMA WrittenByRecord ==
    ASSUME TypeOK, NEW r \in Runner, Record(r)
    PROVE  /\ pc[r] = "recording"
           /\ Frame(r)
           /\ UNCHANGED <<schema, undone>>
           /\ \E v \in Version : Written(r, v)
<1>1. PICK v \in todo[r] : /\ pc[r] = "recording" /\ Turn(r, v)
                           /\ Current(r, v)
                           /\ WriteRow(r, v) /\ Answer(r, v)
                           /\ UNCHANGED <<config, order, schema, undone>>
  BY DEF Record
<1>2. v \in Version
  BY <1>1 DEF TypeOK
<1>3. Frame(r)
  BY <1>1 DEF TypeOK, Frame, Answer, Stop
<1>4. /\ IsUp(r) => recorded' = recorded \cup {v}
      /\ ~ IsUp(r) => recorded' = recorded \ {v}
  BY <1>1 DEF WriteRow
<1>5. \/ pc'[r] = "applying" /\ todo'[r] = todo[r] \ {v}
      \/ pc'[r] = "unlocking" /\ err'[r] = "error"
  BY <1>1 DEF TypeOK, Answer, Stop
<1> QED
  BY <1>1, <1>2, <1>3, <1>4, <1>5 DEF Written

LEMMA StatedByRun ==
    ASSUME TypeOK, NEW r \in Runner, RunNoTx(r)
    PROVE  /\ pc[r] = "applying" /\ pc'[r] = "recording"
           /\ Frame(r)
           /\ UNCHANGED <<recorded, todo>>
           /\ \E v \in NoTx : Turn(r, v) /\ Undo(r, v)
                              /\ schema' = [schema EXCEPT ![v] = Goal(r)]
<1>1. PICK v \in todo[r] : /\ pc[r] = "applying" /\ Turn(r, v) /\ v \in NoTx
                           /\ Undo(r, v)
                           /\ schema' = [schema EXCEPT ![v] = Goal(r)]
                           /\ pc' = [pc EXCEPT ![r] = "recording"]
                           /\ UNCHANGED <<config, recorded, order, todo, err>>
  BY DEF RunNoTx, results
<1> QED
  BY <1>1 DEF TypeOK, Frame

LEMMA FailsAlone ==
    ASSUME TypeOK, NEW r \in Runner, ApplyFails(r) \/ RunNoTxFails(r) \/ RecordFails(r)
    PROVE  /\ pc[r] \in {"applying", "recording"}
           /\ pc'[r] = "unlocking" /\ err'[r] = "error"
           /\ Frame(r)
           /\ UNCHANGED <<recorded, todo>>
           /\ \A w \in Version : w \notin NoTx => schema'[w] = schema[w]
           /\ Stated
<1>1. ASSUME NEW v, Fails(r, v), UNCHANGED <<config, order>>
      PROVE  /\ pc'[r] = "unlocking" /\ err'[r] = "error"
             /\ Frame(r)
             /\ UNCHANGED <<recorded, todo>>
  BY <1>1 DEF TypeOK, Frame, Fails, Stop
<1>2. CASE ApplyFails(r)
  BY <1>1, <1>2 DEF ApplyFails, Stated
<1>3. CASE RecordFails(r)
  BY <1>1, <1>3 DEF RecordFails, Stated
<1>4. CASE RunNoTxFails(r)
  <2>1. PICK v \in todo[r] : /\ pc[r] = "applying" /\ v \in NoTx
                             /\ \E left \in {schema[v], "half"} :
                                   /\ schema[v] = Goal(r) => left = Goal(r)
                                   /\ schema' = [schema EXCEPT ![v] = left]
                             /\ Undo(r, v) /\ Fails(r, v)
                             /\ UNCHANGED <<config, order>>
    BY <1>4 DEF RunNoTxFails
  <2>2. PICK left \in {schema[v], "half"} :
           /\ schema[v] = Goal(r) => left = Goal(r)
           /\ schema' = [schema EXCEPT ![v] = left]
    BY <2>1
  <2>3. \A w \in Version : w # v => schema'[w] = schema[w]
    BY <2>2 DEF TypeOK
  <2>4. schema[v] = "whole" /\ v \notin undone' => schema'[v] = "whole"
    BY <2>1, <2>2 DEF TypeOK, Undo, Goal
  <2>5. undone \subseteq undone'
    BY <2>1 DEF Undo
  <2> QED
    BY <1>1, <2>1, <2>3, <2>4, <2>5 DEF Stated
<1> QED
  BY <1>2, <1>3, <1>4

LEMMA StatedOnly ==
    ASSUME TypeOK, NEW r \in Runner, NEW v \in Version, Undo(r, v),
           schema' = [schema EXCEPT ![v] = Goal(r)]
    PROVE  /\ Stated
           /\ \A w \in Version \ {v} : schema'[w] = schema[w]
           /\ schema'[v] = Goal(r)
           /\ ~ IsUp(r) => v \in undone'
BY DEF TypeOK, Undo, Stated, Goal

\* Under the lock, two runners inside a run are one.
LEMMA Alone ==
    ASSUME LockHeld, config.locks, NEW r \in Runner, NEW s \in Runner,
           pc[r] \in Inside, pc[s] \in Inside
    PROVE  r = s
BY DEF LockHeld

\* A step of r does not disturb a migration that another is about to record.
LEMMA OthersRecord ==
    ASSUME Recording, NEW r \in Runner, Frame(r), Stated,
           NEW s \in Runner, s # r, NEW w \in Version,
           pc'[s] = "recording", Turn(s, w)'
    PROVE  /\ w \in NoTx
           /\ w \notin undone' => IsUp(s)' /\ schema'[w] = "whole"
<1>1. pc[s] = "recording" /\ Turn(s, w) /\ (IsUp(s) <=> IsUp(s)')
  BY DEF Frame, Turn, IsUp
<1> QED
  BY <1>1 DEF Recording, Stated

\* What a run writes is in the version table, or has been undone.
LEMMA WrittenStays ==
    ASSUME NEW r \in Runner, NEW v \in Version, Written(r, v), undone \subseteq undone',
           ~ IsUp(r) => v \in undone'
    PROVE  recorded \cup undone \subseteq recorded' \cup undone'
BY DEF Written


\* Under the lock, nobody makes the list of another stale.
LEMMA ListPreserved ==
    TypeOK /\ LockHeld /\ ListStaysCurrent /\ [Next]_vars => ListStaysCurrent'
<1> SUFFICES ASSUME TypeOK, LockHeld, ListStaysCurrent, [Next]_vars
             PROVE  ListStaysCurrent'
    OBVIOUS
<1>1. ASSUME NEW r \in Runner, Open(r) PROVE ListStaysCurrent'
  BY <1>1 DEF Open, ListStaysCurrent, TypeOK, LockHeld, Inside, Current, IsUp,
     database, results, gates
<1>2. ASSUME NEW r \in Runner, Acquire(r) PROVE ListStaysCurrent'
  BY <1>2 DEF Acquire, ListStaysCurrent, TypeOK, LockHeld, Inside, Current, IsUp,
     database, results, gates
<1>3. ASSUME NEW r \in Runner, GiveUp(r) PROVE ListStaysCurrent'
  BY <1>3 DEF GiveUp, ListStaysCurrent, TypeOK, LockHeld, Inside, Current, IsUp,
     database, results, gates
<1>4. ASSUME NEW r \in Runner, ListUp(r) PROVE ListStaysCurrent'
  BY <1>4 DEF ListUp, ListStaysCurrent, TypeOK, LockHeld, Inside, Current, IsUp,
     database, results, gates, Asked, Pending
<1>5. ASSUME NEW r \in Runner, ListDown(r) PROVE ListStaysCurrent'
  BY <1>5 DEF ListDown, ListStaysCurrent, TypeOK, LockHeld, Inside, Current, IsUp,
     database, results, gates, Unwanted
<1>6. ASSUME NEW r \in Runner, ListFails(r) PROVE ListStaysCurrent'
  BY <1>6 DEF ListFails, ListStaysCurrent, TypeOK, LockHeld, Inside, Current, IsUp,
     database, results, gates, Stop
<1>7. ASSUME NEW r \in Runner, Apply(r) PROVE ListStaysCurrent'
  <2>1. PICK v \in Version \ NoTx :
             Written(r, v) /\ Undo(r, v) /\ schema' = [schema EXCEPT ![v] = Goal(r)]
    BY <1>7, WrittenByApply
  <2>2. pc[r] = "applying" /\ Frame(r)
    BY <1>7, WrittenByApply
  <2>3. /\ Stated
        /\ \A w \in Version \ {v} : schema'[w] = schema[w]
        /\ schema'[v] = Goal(r)
        /\ ~ IsUp(r) => v \in undone'
    BY <2>1, StatedOnly
  <2>4. SUFFICES ASSUME config.locks, NEW s \in Runner,
                        pc'[s] \in {"applying", "recording"}, NEW w \in todo'[s]
                 PROVE  Current(s, w)'
    BY <2>2 DEF ListStaysCurrent, Frame
  <2>5. s = r
    BY <2>2, <2>4, Alone DEF Frame, Inside
  <2>6. w \in todo[r] /\ w # v /\ (IsUp(r) <=> IsUp(r)')
    BY <2>1, <2>2, <2>4, <2>5 DEF Written, Frame, IsUp
  <2>7. Current(r, w)
    BY <2>2, <2>4, <2>6 DEF ListStaysCurrent
  <2> QED
    BY <2>1, <2>5, <2>6, <2>7 DEF Current, Written
<1>8. ASSUME NEW r \in Runner, ApplyFails(r) PROVE ListStaysCurrent'
  <2>1. /\ pc[r] \in {"applying", "recording"}
        /\ pc'[r] = "unlocking" /\ err'[r] = "error"
        /\ Frame(r) /\ UNCHANGED <<recorded, todo>>
        /\ \A w \in Version : w \notin NoTx => schema'[w] = schema[w]
        /\ Stated
    BY <1>8, FailsAlone
  <2> QED
    BY <2>1 DEF ListStaysCurrent, Frame, Current, IsUp
<1>9. ASSUME NEW r \in Runner, RunNoTx(r) PROVE ListStaysCurrent'
  <2>1. PICK v \in NoTx :
             Turn(r, v) /\ Undo(r, v) /\ schema' = [schema EXCEPT ![v] = Goal(r)]
    BY <1>9, StatedByRun
  <2>2. /\ pc[r] = "applying" /\ pc'[r] = "recording"
        /\ Frame(r) /\ UNCHANGED <<recorded, todo>>
    BY <1>9, StatedByRun
  <2>3. /\ Stated
        /\ \A w \in Version \ {v} : schema'[w] = schema[w]
        /\ schema'[v] = Goal(r)
        /\ ~ IsUp(r) => v \in undone'
    BY <2>1, StatedOnly
  <2> QED
    BY <2>2 DEF ListStaysCurrent, Frame, Current, IsUp
<1>10. ASSUME NEW r \in Runner, RunNoTxFails(r) PROVE ListStaysCurrent'
  <2>1. /\ pc[r] \in {"applying", "recording"}
        /\ pc'[r] = "unlocking" /\ err'[r] = "error"
        /\ Frame(r) /\ UNCHANGED <<recorded, todo>>
        /\ \A w \in Version : w \notin NoTx => schema'[w] = schema[w]
        /\ Stated
    BY <1>10, FailsAlone
  <2> QED
    BY <2>1 DEF ListStaysCurrent, Frame, Current, IsUp
<1>11. ASSUME NEW r \in Runner, Record(r) PROVE ListStaysCurrent'
  <2>1. PICK v \in Version : Written(r, v)
    BY <1>11, WrittenByRecord
  <2>2. pc[r] = "recording" /\ Frame(r) /\ UNCHANGED <<schema, undone>>
    BY <1>11, WrittenByRecord
  <2>3. Stated
    BY <2>2 DEF Stated
  <2>4. SUFFICES ASSUME config.locks, NEW s \in Runner,
                        pc'[s] \in {"applying", "recording"}, NEW w \in todo'[s]
                 PROVE  Current(s, w)'
    BY <2>2 DEF ListStaysCurrent, Frame
  <2>5. s = r
    BY <2>2, <2>4, Alone DEF Frame, Inside
  <2>6. w \in todo[r] /\ w # v /\ (IsUp(r) <=> IsUp(r)')
    BY <2>1, <2>2, <2>4, <2>5 DEF Written, Frame, IsUp
  <2>7. Current(r, w)
    BY <2>2, <2>4, <2>6 DEF ListStaysCurrent
  <2> QED
    BY <2>1, <2>5, <2>6, <2>7 DEF Current, Written
<1>12. ASSUME NEW r \in Runner, RecordFails(r) PROVE ListStaysCurrent'
  <2>1. /\ pc[r] \in {"applying", "recording"}
        /\ pc'[r] = "unlocking" /\ err'[r] = "error"
        /\ Frame(r) /\ UNCHANGED <<recorded, todo>>
        /\ \A w \in Version : w \notin NoTx => schema'[w] = schema[w]
        /\ Stated
    BY <1>12, FailsAlone
  <2> QED
    BY <2>1 DEF ListStaysCurrent, Frame, Current, IsUp
<1>13. ASSUME NEW r \in Runner, Finish(r) PROVE ListStaysCurrent'
  BY <1>13 DEF Finish, ListStaysCurrent, TypeOK, LockHeld, Inside, Current, IsUp,
     database, results, gates, Stop
<1>14. ASSUME NEW r \in Runner, Unlock(r) PROVE ListStaysCurrent'
  BY <1>14 DEF Unlock, ListStaysCurrent, TypeOK, LockHeld, Inside, Current, IsUp,
     database, results, gates
<1>15. ASSUME NEW r \in Runner, Kill(r) PROVE ListStaysCurrent'
  BY <1>15 DEF Kill, ListStaysCurrent, TypeOK, LockHeld, Inside, Current, IsUp,
     database, results, gates
<1>16. ASSUME NEW r \in Runner, Expire(r) PROVE ListStaysCurrent'
  BY <1>16 DEF Expire, ListStaysCurrent, TypeOK, LockHeld, Inside, Current, IsUp,
     database, results, gates
<1>17. ASSUME NEW g \in Gate, AskVersion(g) PROVE ListStaysCurrent'
  BY <1>17 DEF AskVersion, ListStaysCurrent, TypeOK, LockHeld, Inside, Current,
     IsUp, database, results, gates
<1>18. ASSUME NEW g \in Gate, AskPending(g) PROVE ListStaysCurrent'
  BY <1>18 DEF AskPending, ListStaysCurrent, TypeOK, LockHeld, Inside, Current,
     IsUp, database, results, gates
<1>19. ASSUME NEW g \in Gate, AskFails(g) PROVE ListStaysCurrent'
  BY <1>19 DEF AskFails, ListStaysCurrent, TypeOK, LockHeld, Inside, Current, IsUp,
     database, results, gates
<1>20. CASE UNCHANGED vars
  BY <1>20 DEF vars, ListStaysCurrent, TypeOK, LockHeld, Inside, Current, IsUp,
     database, results, gates
<1> QED
  BY <1>1, <1>2, <1>3, <1>4, <1>5, <1>6, <1>7, <1>8, <1>9, <1>10, <1>11, <1>12,
     <1>13, <1>14, <1>15, <1>16, <1>17, <1>18, <1>19, <1>20 DEF Next, Progress

\* Nobody undoes the statements of a migration whose row is about to be written, except
\* by a rollback.
LEMMA RecordingPreserved ==
    TypeOK /\ Recording /\ [Next]_vars => Recording'
<1> SUFFICES ASSUME TypeOK, Recording, [Next]_vars
             PROVE  Recording'
    OBVIOUS
<1>1. ASSUME NEW r \in Runner, Open(r) PROVE Recording'
  BY <1>1 DEF Open, Recording, TypeOK, Turn, IsUp, database, results, gates
<1>2. ASSUME NEW r \in Runner, Acquire(r) PROVE Recording'
  BY <1>2 DEF Acquire, Recording, TypeOK, Turn, IsUp, database, results, gates
<1>3. ASSUME NEW r \in Runner, GiveUp(r) PROVE Recording'
  BY <1>3 DEF GiveUp, Recording, TypeOK, Turn, IsUp, database, results, gates
<1>4. ASSUME NEW r \in Runner, ListUp(r) PROVE Recording'
  BY <1>4 DEF ListUp, Recording, TypeOK, Turn, IsUp, database, results, gates
<1>5. ASSUME NEW r \in Runner, ListDown(r) PROVE Recording'
  BY <1>5 DEF ListDown, Recording, TypeOK, Turn, IsUp, database, results, gates
<1>6. ASSUME NEW r \in Runner, ListFails(r) PROVE Recording'
  BY <1>6 DEF ListFails, Recording, TypeOK, Turn, IsUp, database, results, gates, Stop
<1>7. ASSUME NEW r \in Runner, Apply(r) PROVE Recording'
  <2>1. PICK v \in Version \ NoTx :
             Written(r, v) /\ Undo(r, v) /\ schema' = [schema EXCEPT ![v] = Goal(r)]
    BY <1>7, WrittenByApply
  <2>2. pc[r] = "applying" /\ Frame(r)
    BY <1>7, WrittenByApply
  <2>3. /\ Stated
        /\ \A w \in Version \ {v} : schema'[w] = schema[w]
        /\ schema'[v] = Goal(r)
        /\ ~ IsUp(r) => v \in undone'
    BY <2>1, StatedOnly
  <2>4. SUFFICES ASSUME NEW s \in Runner, NEW w \in Version,
                        pc'[s] = "recording", Turn(s, w)'
                 PROVE  /\ w \in NoTx
                        /\ w \notin undone' => IsUp(s)' /\ schema'[w] = "whole"
    BY DEF Recording
  <2>5. s # r
    BY <2>1, <2>2, <2>4 DEF Written
  <2> QED
    BY <2>2, <2>3, <2>4, <2>5, OthersRecord
<1>8. ASSUME NEW r \in Runner, ApplyFails(r) PROVE Recording'
  <2>1. /\ pc[r] \in {"applying", "recording"}
        /\ pc'[r] = "unlocking" /\ err'[r] = "error"
        /\ Frame(r) /\ UNCHANGED <<recorded, todo>>
        /\ \A w \in Version : w \notin NoTx => schema'[w] = schema[w]
        /\ Stated
    BY <1>8, FailsAlone
  <2>4. SUFFICES ASSUME NEW s \in Runner, NEW w \in Version,
                        pc'[s] = "recording", Turn(s, w)'
                 PROVE  /\ w \in NoTx
                        /\ w \notin undone' => IsUp(s)' /\ schema'[w] = "whole"
    BY DEF Recording
  <2>5. s # r
    BY <2>1, <2>4 DEF Written
  <2> QED
    BY <2>1, <2>4, <2>5, OthersRecord
<1>9. ASSUME NEW r \in Runner, RunNoTx(r) PROVE Recording'
  <2>1. PICK v \in NoTx :
             Turn(r, v) /\ Undo(r, v) /\ schema' = [schema EXCEPT ![v] = Goal(r)]
    BY <1>9, StatedByRun
  <2>2. /\ pc[r] = "applying" /\ pc'[r] = "recording"
        /\ Frame(r) /\ UNCHANGED <<recorded, todo>>
    BY <1>9, StatedByRun
  <2>3. /\ Stated
        /\ \A w \in Version \ {v} : schema'[w] = schema[w]
        /\ schema'[v] = Goal(r)
        /\ ~ IsUp(r) => v \in undone'
    BY <2>1, StatedOnly
  <2>4. SUFFICES ASSUME NEW s \in Runner, NEW w \in Version,
                        pc'[s] = "recording", Turn(s, w)'
                 PROVE  /\ w \in NoTx
                        /\ w \notin undone' => IsUp(s)' /\ schema'[w] = "whole"
    BY DEF Recording
  <2>5. CASE s # r
    BY <2>2, <2>3, <2>4, <2>5, OthersRecord
  <2>6. CASE s = r
    <3>1. Turn(r, w) /\ (IsUp(r) <=> IsUp(r)')
      BY <2>2, <2>4, <2>6 DEF Frame, Turn, IsUp
    <3>2. w = v
      BY <2>1, <3>1 DEF Turn
    <3> QED
      BY <2>1, <2>3, <2>6, <3>1, <3>2 DEF Goal
  <2> QED
    BY <2>5, <2>6
<1>10. ASSUME NEW r \in Runner, RunNoTxFails(r) PROVE Recording'
  <2>1. /\ pc[r] \in {"applying", "recording"}
        /\ pc'[r] = "unlocking" /\ err'[r] = "error"
        /\ Frame(r) /\ UNCHANGED <<recorded, todo>>
        /\ \A w \in Version : w \notin NoTx => schema'[w] = schema[w]
        /\ Stated
    BY <1>10, FailsAlone
  <2>4. SUFFICES ASSUME NEW s \in Runner, NEW w \in Version,
                        pc'[s] = "recording", Turn(s, w)'
                 PROVE  /\ w \in NoTx
                        /\ w \notin undone' => IsUp(s)' /\ schema'[w] = "whole"
    BY DEF Recording
  <2>5. s # r
    BY <2>1, <2>4 DEF Written
  <2> QED
    BY <2>1, <2>4, <2>5, OthersRecord
<1>11. ASSUME NEW r \in Runner, Record(r) PROVE Recording'
  <2>1. PICK v \in Version : Written(r, v)
    BY <1>11, WrittenByRecord
  <2>2. pc[r] = "recording" /\ Frame(r) /\ UNCHANGED <<schema, undone>>
    BY <1>11, WrittenByRecord
  <2>3. Stated
    BY <2>2 DEF Stated
  <2>4. SUFFICES ASSUME NEW s \in Runner, NEW w \in Version,
                        pc'[s] = "recording", Turn(s, w)'
                 PROVE  /\ w \in NoTx
                        /\ w \notin undone' => IsUp(s)' /\ schema'[w] = "whole"
    BY DEF Recording
  <2>5. s # r
    BY <2>1, <2>2, <2>4 DEF Written
  <2> QED
    BY <2>2, <2>3, <2>4, <2>5, OthersRecord
<1>12. ASSUME NEW r \in Runner, RecordFails(r) PROVE Recording'
  <2>1. /\ pc[r] \in {"applying", "recording"}
        /\ pc'[r] = "unlocking" /\ err'[r] = "error"
        /\ Frame(r) /\ UNCHANGED <<recorded, todo>>
        /\ \A w \in Version : w \notin NoTx => schema'[w] = schema[w]
        /\ Stated
    BY <1>12, FailsAlone
  <2>4. SUFFICES ASSUME NEW s \in Runner, NEW w \in Version,
                        pc'[s] = "recording", Turn(s, w)'
                 PROVE  /\ w \in NoTx
                        /\ w \notin undone' => IsUp(s)' /\ schema'[w] = "whole"
    BY DEF Recording
  <2>5. s # r
    BY <2>1, <2>4 DEF Written
  <2> QED
    BY <2>1, <2>4, <2>5, OthersRecord
<1>13. ASSUME NEW r \in Runner, Finish(r) PROVE Recording'
  BY <1>13 DEF Finish, Recording, TypeOK, Turn, IsUp, database, results, gates, Stop
<1>14. ASSUME NEW r \in Runner, Unlock(r) PROVE Recording'
  BY <1>14 DEF Unlock, Recording, TypeOK, Turn, IsUp, database, results, gates
<1>15. ASSUME NEW r \in Runner, Kill(r) PROVE Recording'
  BY <1>15 DEF Kill, Recording, TypeOK, Turn, IsUp, database, results, gates
<1>16. ASSUME NEW r \in Runner, Expire(r) PROVE Recording'
  BY <1>16 DEF Expire, Recording, TypeOK, Turn, IsUp, database, results, gates
<1>17. ASSUME NEW g \in Gate, AskVersion(g) PROVE Recording'
  BY <1>17 DEF AskVersion, Recording, TypeOK, Turn, IsUp, database, results, gates
<1>18. ASSUME NEW g \in Gate, AskPending(g) PROVE Recording'
  BY <1>18 DEF AskPending, Recording, TypeOK, Turn, IsUp, database, results, gates
<1>19. ASSUME NEW g \in Gate, AskFails(g) PROVE Recording'
  BY <1>19 DEF AskFails, Recording, TypeOK, Turn, IsUp, database, results, gates
<1>20. CASE UNCHANGED vars
  BY <1>20 DEF vars, Recording, TypeOK, Turn, IsUp, database, results, gates
<1> QED
  BY <1>1, <1>2, <1>3, <1>4, <1>5, <1>6, <1>7, <1>8, <1>9, <1>10, <1>11, <1>12,
     <1>13, <1>14, <1>15, <1>16, <1>17, <1>18, <1>19, <1>20 DEF Next, Progress

\* The schema and the version table change together.
LEMMA SchemaPreserved ==
    TypeOK /\ Recording /\ SchemaMatchesRecord /\ [Next]_vars => SchemaMatchesRecord'
<1> SUFFICES ASSUME TypeOK, Recording, SchemaMatchesRecord, [Next]_vars
             PROVE  SchemaMatchesRecord'
    OBVIOUS
<1>1. ASSUME NEW r \in Runner, Open(r) PROVE SchemaMatchesRecord'
  BY <1>1 DEF Open, SchemaMatchesRecord, database, results, gates
<1>2. ASSUME NEW r \in Runner, Acquire(r) PROVE SchemaMatchesRecord'
  BY <1>2 DEF Acquire, SchemaMatchesRecord, database, results, gates
<1>3. ASSUME NEW r \in Runner, GiveUp(r) PROVE SchemaMatchesRecord'
  BY <1>3 DEF GiveUp, SchemaMatchesRecord, database, results, gates
<1>4. ASSUME NEW r \in Runner, ListUp(r) PROVE SchemaMatchesRecord'
  BY <1>4 DEF ListUp, SchemaMatchesRecord, database, results, gates
<1>5. ASSUME NEW r \in Runner, ListDown(r) PROVE SchemaMatchesRecord'
  BY <1>5 DEF ListDown, SchemaMatchesRecord, database, results, gates
<1>6. ASSUME NEW r \in Runner, ListFails(r) PROVE SchemaMatchesRecord'
  BY <1>6 DEF ListFails, SchemaMatchesRecord, database, results, gates, Stop
<1>7. ASSUME NEW r \in Runner, Apply(r) PROVE SchemaMatchesRecord'
  <2>1. PICK v \in Version \ NoTx :
             Written(r, v) /\ Undo(r, v) /\ schema' = [schema EXCEPT ![v] = Goal(r)]
    BY <1>7, WrittenByApply
  <2>2. pc[r] = "applying" /\ Frame(r)
    BY <1>7, WrittenByApply
  <2>3. /\ Stated
        /\ \A w \in Version \ {v} : schema'[w] = schema[w]
        /\ schema'[v] = Goal(r)
        /\ ~ IsUp(r) => v \in undone'
    BY <2>1, StatedOnly
  <2>4. \A w \in Version \ {v} : w \in recorded' <=> w \in recorded
    BY <2>1 DEF Written
  <2>5. v \in recorded' <=> IsUp(r)
    BY <2>1 DEF Written
  <2>6. schema'[v] = IF v \in recorded' THEN "whole" ELSE "absent"
    BY <2>3, <2>5 DEF Goal
  <2> QED
    BY <2>3, <2>4, <2>6 DEF SchemaMatchesRecord, Stated
<1>8. ASSUME NEW r \in Runner, ApplyFails(r) PROVE SchemaMatchesRecord'
  BY <1>8 DEF ApplyFails, SchemaMatchesRecord, database, results, gates, Fails, Stop
<1>9. ASSUME NEW r \in Runner, RunNoTx(r) PROVE SchemaMatchesRecord'
  <2>1. PICK v \in NoTx :
             Turn(r, v) /\ Undo(r, v) /\ schema' = [schema EXCEPT ![v] = Goal(r)]
    BY <1>9, StatedByRun
  <2>2. /\ pc[r] = "applying" /\ pc'[r] = "recording"
        /\ Frame(r) /\ UNCHANGED <<recorded, todo>>
    BY <1>9, StatedByRun
  <2>3. /\ Stated
        /\ \A w \in Version \ {v} : schema'[w] = schema[w]
        /\ schema'[v] = Goal(r)
        /\ ~ IsUp(r) => v \in undone'
    BY <2>1, StatedOnly
  <2> QED
    BY <2>1, <2>2, <2>3 DEF SchemaMatchesRecord, Stated
<1>10. ASSUME NEW r \in Runner, RunNoTxFails(r) PROVE SchemaMatchesRecord'
  <2>1. /\ pc[r] \in {"applying", "recording"}
        /\ pc'[r] = "unlocking" /\ err'[r] = "error"
        /\ Frame(r) /\ UNCHANGED <<recorded, todo>>
        /\ \A w \in Version : w \notin NoTx => schema'[w] = schema[w]
        /\ Stated
    BY <1>10, FailsAlone
  <2> QED
    BY <2>1 DEF SchemaMatchesRecord, Stated
<1>11. ASSUME NEW r \in Runner, Record(r) PROVE SchemaMatchesRecord'
  <2>1. PICK v \in Version : Written(r, v)
    BY <1>11, WrittenByRecord
  <2>2. pc[r] = "recording" /\ Frame(r) /\ UNCHANGED <<schema, undone>>
    BY <1>11, WrittenByRecord
  <2>3. Stated
    BY <2>2 DEF Stated
  <2>4. \A w \in Version \ {v} : w \in recorded' <=> w \in recorded
    BY <2>1 DEF Written
  <2>5. v \in NoTx /\ (v \notin undone => schema[v] = "whole")
    BY <2>1, <2>2 DEF Recording, Written
  <2> QED
    BY <2>2, <2>4, <2>5 DEF SchemaMatchesRecord
<1>12. ASSUME NEW r \in Runner, RecordFails(r) PROVE SchemaMatchesRecord'
  BY <1>12 DEF RecordFails, SchemaMatchesRecord, database, results, gates, Fails, Stop
<1>13. ASSUME NEW r \in Runner, Finish(r) PROVE SchemaMatchesRecord'
  BY <1>13 DEF Finish, SchemaMatchesRecord, database, results, gates, Stop
<1>14. ASSUME NEW r \in Runner, Unlock(r) PROVE SchemaMatchesRecord'
  BY <1>14 DEF Unlock, SchemaMatchesRecord, database, results, gates
<1>15. ASSUME NEW r \in Runner, Kill(r) PROVE SchemaMatchesRecord'
  BY <1>15 DEF Kill, SchemaMatchesRecord, database, results, gates
<1>16. ASSUME NEW r \in Runner, Expire(r) PROVE SchemaMatchesRecord'
  BY <1>16 DEF Expire, SchemaMatchesRecord, database, results, gates
<1>17. ASSUME NEW g \in Gate, AskVersion(g) PROVE SchemaMatchesRecord'
  BY <1>17 DEF AskVersion, SchemaMatchesRecord, database, results, gates
<1>18. ASSUME NEW g \in Gate, AskPending(g) PROVE SchemaMatchesRecord'
  BY <1>18 DEF AskPending, SchemaMatchesRecord, database, results, gates
<1>19. ASSUME NEW g \in Gate, AskFails(g) PROVE SchemaMatchesRecord'
  BY <1>19 DEF AskFails, SchemaMatchesRecord, database, results, gates
<1>20. CASE UNCHANGED vars
  BY <1>20 DEF vars, SchemaMatchesRecord, database, results, gates
<1> QED
  BY <1>1, <1>2, <1>3, <1>4, <1>5, <1>6, <1>7, <1>8, <1>9, <1>10, <1>11, <1>12,
     <1>13, <1>14, <1>15, <1>16, <1>17, <1>18, <1>19, <1>20 DEF Next, Progress

\* Under the lock, only the run itself records versions, from the lowest up.
LEMMA AbovePreserved ==
    TypeOK /\ LockHeld /\ Above /\ [Next]_vars => Above'
<1> SUFFICES ASSUME TypeOK, LockHeld, Above, [Next]_vars
             PROVE  Above'
    OBVIOUS
<1>1. ASSUME NEW r \in Runner, Open(r) PROVE Above'
  BY <1>1 DEF Open, Above, TypeOK, LockHeld, Inside, IsUp, database, results, gates
<1>2. ASSUME NEW r \in Runner, Acquire(r) PROVE Above'
  BY <1>2 DEF Acquire, Above, TypeOK, LockHeld, Inside, IsUp, database, results, gates
<1>3. ASSUME NEW r \in Runner, GiveUp(r) PROVE Above'
  BY <1>3 DEF GiveUp, Above, TypeOK, LockHeld, Inside, IsUp, database, results, gates
<1>4. ASSUME NEW r \in Runner, ListUp(r) PROVE Above'
  <2>1. SUFFICES ASSUME config.locks, ~ config.outOfOrder, NEW s \in Runner,
                        pc'[s] \in {"applying", "recording"}, IsUp(s)',
                        NEW v \in todo'[s], NEW u \in recorded'
                 PROVE  u < v
    BY <1>4 DEF ListUp, Above
  <2>2. /\ UNCHANGED <<recorded, order>> /\ pc[r] = "listing"
        /\ \A t \in Runner \ {r} : pc'[t] = pc[t] /\ todo'[t] = todo[t]
    BY <1>4 DEF ListUp, TypeOK, database
  <2>3. CASE s # r
    BY <2>1, <2>2, <2>3 DEF Above, IsUp
  <2>4. CASE s = r
    <3>1. v \in Pending(Asked(r)) /\ Late(Asked(r)) = {}
      BY <1>4, <2>1, <2>4 DEF ListUp, TypeOK
    <3>2. v \in Version /\ v # u /\ ~ (v < u)
      BY <2>1, <2>2, <3>1 DEF Late, Pending, Asked
    <3>3. v \in Nat /\ u \in Nat
      BY <2>1, <2>2, <3>2 DEF TypeOK
    <3> QED
      BY <3>2, <3>3
  <2> QED
    BY <2>3, <2>4
<1>5. ASSUME NEW r \in Runner, ListDown(r) PROVE Above'
  BY <1>5 DEF ListDown, Above, TypeOK, LockHeld, Inside, IsUp, database, results, gates
<1>6. ASSUME NEW r \in Runner, ListFails(r) PROVE Above'
  BY <1>6 DEF ListFails, Above, TypeOK, LockHeld, Inside, IsUp, database, results,
     gates, Stop
<1>7. ASSUME NEW r \in Runner, Apply(r) PROVE Above'
  <2>1. PICK v \in Version \ NoTx :
             Written(r, v) /\ Undo(r, v) /\ schema' = [schema EXCEPT ![v] = Goal(r)]
    BY <1>7, WrittenByApply
  <2>2. pc[r] = "applying" /\ Frame(r)
    BY <1>7, WrittenByApply
  <2>3. /\ Stated
        /\ \A w \in Version \ {v} : schema'[w] = schema[w]
        /\ schema'[v] = Goal(r)
        /\ ~ IsUp(r) => v \in undone'
    BY <2>1, StatedOnly
  <2>4. SUFFICES ASSUME config.locks, ~ config.outOfOrder, NEW s \in Runner,
                        pc'[s] \in {"applying", "recording"}, IsUp(s)',
                        NEW w \in todo'[s], NEW u \in recorded'
                 PROVE  u < w
    BY <2>2 DEF Above, Frame
  <2>5. s = r
    BY <2>2, <2>4, Alone DEF Frame, Inside
  <2>6. w \in todo[r] \ {v} /\ IsUp(r)
    BY <2>1, <2>2, <2>4, <2>5 DEF Written, Frame, IsUp
  <2>7. CASE u \in recorded
    BY <2>2, <2>4, <2>6, <2>7 DEF Above
  <2>8. CASE u = v
    <3>1. v <= w
      BY <2>1, <2>6 DEF Written, Turn
    <3>2. v \in Nat /\ w \in Nat
      BY <2>6 DEF TypeOK
    <3> QED
      BY <2>6, <2>8, <3>1, <3>2
  <2> QED
    BY <2>1, <2>4, <2>6, <2>7, <2>8 DEF Written
<1>8. ASSUME NEW r \in Runner, ApplyFails(r) PROVE Above'
  <2>1. /\ pc[r] \in {"applying", "recording"}
        /\ pc'[r] = "unlocking" /\ err'[r] = "error"
        /\ Frame(r) /\ UNCHANGED <<recorded, todo>>
        /\ \A w \in Version : w \notin NoTx => schema'[w] = schema[w]
        /\ Stated
    BY <1>8, FailsAlone
  <2> QED
    BY <2>1 DEF Above, Frame, IsUp
<1>9. ASSUME NEW r \in Runner, RunNoTx(r) PROVE Above'
  <2>1. PICK v \in NoTx :
             Turn(r, v) /\ Undo(r, v) /\ schema' = [schema EXCEPT ![v] = Goal(r)]
    BY <1>9, StatedByRun
  <2>2. /\ pc[r] = "applying" /\ pc'[r] = "recording"
        /\ Frame(r) /\ UNCHANGED <<recorded, todo>>
    BY <1>9, StatedByRun
  <2>3. /\ Stated
        /\ \A w \in Version \ {v} : schema'[w] = schema[w]
        /\ schema'[v] = Goal(r)
        /\ ~ IsUp(r) => v \in undone'
    BY <2>1, StatedOnly
  <2> QED
    BY <2>2 DEF Above, Frame, IsUp
<1>10. ASSUME NEW r \in Runner, RunNoTxFails(r) PROVE Above'
  <2>1. /\ pc[r] \in {"applying", "recording"}
        /\ pc'[r] = "unlocking" /\ err'[r] = "error"
        /\ Frame(r) /\ UNCHANGED <<recorded, todo>>
        /\ \A w \in Version : w \notin NoTx => schema'[w] = schema[w]
        /\ Stated
    BY <1>10, FailsAlone
  <2> QED
    BY <2>1 DEF Above, Frame, IsUp
<1>11. ASSUME NEW r \in Runner, Record(r) PROVE Above'
  <2>1. PICK v \in Version : Written(r, v)
    BY <1>11, WrittenByRecord
  <2>2. pc[r] = "recording" /\ Frame(r) /\ UNCHANGED <<schema, undone>>
    BY <1>11, WrittenByRecord
  <2>3. Stated
    BY <2>2 DEF Stated
  <2>4. SUFFICES ASSUME config.locks, ~ config.outOfOrder, NEW s \in Runner,
                        pc'[s] \in {"applying", "recording"}, IsUp(s)',
                        NEW w \in todo'[s], NEW u \in recorded'
                 PROVE  u < w
    BY <2>2 DEF Above, Frame
  <2>5. s = r
    BY <2>2, <2>4, Alone DEF Frame, Inside
  <2>6. w \in todo[r] \ {v} /\ IsUp(r)
    BY <2>1, <2>2, <2>4, <2>5 DEF Written, Frame, IsUp
  <2>7. CASE u \in recorded
    BY <2>2, <2>4, <2>6, <2>7 DEF Above
  <2>8. CASE u = v
    <3>1. v <= w
      BY <2>1, <2>6 DEF Written, Turn
    <3>2. v \in Nat /\ w \in Nat
      BY <2>6 DEF TypeOK
    <3> QED
      BY <2>6, <2>8, <3>1, <3>2
  <2> QED
    BY <2>1, <2>4, <2>6, <2>7, <2>8 DEF Written
<1>12. ASSUME NEW r \in Runner, RecordFails(r) PROVE Above'
  <2>1. /\ pc[r] \in {"applying", "recording"}
        /\ pc'[r] = "unlocking" /\ err'[r] = "error"
        /\ Frame(r) /\ UNCHANGED <<recorded, todo>>
        /\ \A w \in Version : w \notin NoTx => schema'[w] = schema[w]
        /\ Stated
    BY <1>12, FailsAlone
  <2> QED
    BY <2>1 DEF Above, Frame, IsUp
<1>13. ASSUME NEW r \in Runner, Finish(r) PROVE Above'
  BY <1>13 DEF Finish, Above, TypeOK, LockHeld, Inside, IsUp, database, results,
     gates, Stop
<1>14. ASSUME NEW r \in Runner, Unlock(r) PROVE Above'
  BY <1>14 DEF Unlock, Above, TypeOK, LockHeld, Inside, IsUp, database, results, gates
<1>15. ASSUME NEW r \in Runner, Kill(r) PROVE Above'
  BY <1>15 DEF Kill, Above, TypeOK, LockHeld, Inside, IsUp, database, results, gates
<1>16. ASSUME NEW r \in Runner, Expire(r) PROVE Above'
  BY <1>16 DEF Expire, Above, TypeOK, LockHeld, Inside, IsUp, database, results, gates
<1>17. ASSUME NEW g \in Gate, AskVersion(g) PROVE Above'
  BY <1>17 DEF AskVersion, Above, TypeOK, LockHeld, Inside, IsUp, database, results,
     gates
<1>18. ASSUME NEW g \in Gate, AskPending(g) PROVE Above'
  BY <1>18 DEF AskPending, Above, TypeOK, LockHeld, Inside, IsUp, database, results,
     gates
<1>19. ASSUME NEW g \in Gate, AskFails(g) PROVE Above'
  BY <1>19 DEF AskFails, Above, TypeOK, LockHeld, Inside, IsUp, database, results, gates
<1>20. CASE UNCHANGED vars
  BY <1>20 DEF vars, Above, TypeOK, LockHeld, Inside, IsUp, database, results, gates
<1> QED
  BY <1>1, <1>2, <1>3, <1>4, <1>5, <1>6, <1>7, <1>8, <1>9, <1>10, <1>11, <1>12,
     <1>13, <1>14, <1>15, <1>16, <1>17, <1>18, <1>19, <1>20 DEF Next, Progress

\* A version leaves the list of a run only by being recorded, and the version table only
\* by being undone.
LEMMA CoveredPreserved ==
    TypeOK /\ Recording /\ Covered /\ [Next]_vars => Covered'
<1> SUFFICES ASSUME TypeOK, Recording, Covered, [Next]_vars
             PROVE  Covered'
    OBVIOUS
<1>1. ASSUME NEW r \in Runner, Open(r) PROVE Covered'
  BY <1>1 DEF Open, Covered, TypeOK, IsUp, Asked, database, results, gates
<1>2. ASSUME NEW r \in Runner, Acquire(r) PROVE Covered'
  BY <1>2 DEF Acquire, Covered, TypeOK, IsUp, Asked, database, results, gates
<1>3. ASSUME NEW r \in Runner, GiveUp(r) PROVE Covered'
  BY <1>3 DEF GiveUp, Covered, TypeOK, IsUp, Asked, database, results, gates
<1>4. ASSUME NEW r \in Runner, ListUp(r) PROVE Covered'
  BY <1>4 DEF ListUp, Covered, TypeOK, IsUp, Asked, database, results, gates, Pending
<1>5. ASSUME NEW r \in Runner, ListDown(r) PROVE Covered'
  BY <1>5 DEF ListDown, Covered, TypeOK, IsUp, Asked, database, results, gates
<1>6. ASSUME NEW r \in Runner, ListFails(r) PROVE Covered'
  BY <1>6 DEF ListFails, Covered, TypeOK, IsUp, Asked, database, results, gates, Stop
<1>7. ASSUME NEW r \in Runner, Apply(r) PROVE Covered'
  <2>1. PICK v \in Version \ NoTx :
             Written(r, v) /\ Undo(r, v) /\ schema' = [schema EXCEPT ![v] = Goal(r)]
    BY <1>7, WrittenByApply
  <2>2. pc[r] = "applying" /\ Frame(r)
    BY <1>7, WrittenByApply
  <2>3. /\ Stated
        /\ \A w \in Version \ {v} : schema'[w] = schema[w]
        /\ schema'[v] = Goal(r)
        /\ ~ IsUp(r) => v \in undone'
    BY <2>1, StatedOnly
  <2>5. recorded \cup undone \subseteq recorded' \cup undone'
    BY <2>1, <2>3, WrittenStays DEF Stated
  <2>6. SUFFICES ASSUME NEW s \in Runner, NEW w \in Version, IsUp(s), w \in Asked(s)
                 PROVE
           /\ pc'[s] \in {"applying", "recording"} =>
                 w \in recorded' \cup undone' \cup todo'[s]
           /\ pc'[s] \in {"unlocking", "ended"} /\ err'[s] = Nil =>
                 w \in recorded' \cup undone'
    BY <2>2 DEF Covered, Frame, IsUp, Asked
  <2>7. CASE s # r
    BY <2>2, <2>5, <2>6, <2>7 DEF Covered, Frame
  <2>8. CASE s = r
    <3>1. v \in recorded'
      BY <2>1, <2>6, <2>8 DEF Written
    <3>2. w \in recorded \cup undone \cup todo[r]
      BY <2>2, <2>6, <2>8 DEF Covered
    <3>3. \/ pc'[r] = "applying" /\ todo'[r] = todo[r] \ {v}
          \/ pc'[r] = "unlocking" /\ err'[r] = "error"
      BY <2>1 DEF Written
    <3> QED
      BY <2>5, <2>8, <3>1, <3>2, <3>3
  <2> QED
    BY <2>7, <2>8
<1>8. ASSUME NEW r \in Runner, ApplyFails(r) PROVE Covered'
  <2>1. /\ pc[r] \in {"applying", "recording"}
        /\ pc'[r] = "unlocking" /\ err'[r] = "error"
        /\ Frame(r) /\ UNCHANGED <<recorded, todo>>
        /\ \A w \in Version : w \notin NoTx => schema'[w] = schema[w]
        /\ Stated
    BY <1>8, FailsAlone
  <2> QED
    BY <2>1 DEF Stated, Covered, Frame, IsUp, Asked
<1>9. ASSUME NEW r \in Runner, RunNoTx(r) PROVE Covered'
  <2>1. PICK v \in NoTx :
             Turn(r, v) /\ Undo(r, v) /\ schema' = [schema EXCEPT ![v] = Goal(r)]
    BY <1>9, StatedByRun
  <2>2. /\ pc[r] = "applying" /\ pc'[r] = "recording"
        /\ Frame(r) /\ UNCHANGED <<recorded, todo>>
    BY <1>9, StatedByRun
  <2>3. /\ Stated
        /\ \A w \in Version \ {v} : schema'[w] = schema[w]
        /\ schema'[v] = Goal(r)
        /\ ~ IsUp(r) => v \in undone'
    BY <2>1, StatedOnly
  <2>4. undone \subseteq undone'
    BY <2>1 DEF Undo
  <2> QED
    BY <2>2, <2>4 DEF Covered, Frame, IsUp, Asked
<1>10. ASSUME NEW r \in Runner, RunNoTxFails(r) PROVE Covered'
  <2>1. /\ pc[r] \in {"applying", "recording"}
        /\ pc'[r] = "unlocking" /\ err'[r] = "error"
        /\ Frame(r) /\ UNCHANGED <<recorded, todo>>
        /\ \A w \in Version : w \notin NoTx => schema'[w] = schema[w]
        /\ Stated
    BY <1>10, FailsAlone
  <2> QED
    BY <2>1 DEF Stated, Covered, Frame, IsUp, Asked
<1>11. ASSUME NEW r \in Runner, Record(r) PROVE Covered'
  <2>1. PICK v \in Version : Written(r, v)
    BY <1>11, WrittenByRecord
  <2>2. pc[r] = "recording" /\ Frame(r) /\ UNCHANGED <<schema, undone>>
    BY <1>11, WrittenByRecord
  <2>3. Stated
    BY <2>2 DEF Stated
  <2>4. ~ IsUp(r) => v \in undone
    BY <2>1, <2>2 DEF Recording, Written
  <2>5. recorded \cup undone \subseteq recorded' \cup undone'
    BY <2>1, <2>2, <2>4, WrittenStays
  <2>6. SUFFICES ASSUME NEW s \in Runner, NEW w \in Version, IsUp(s), w \in Asked(s)
                 PROVE
           /\ pc'[s] \in {"applying", "recording"} =>
                 w \in recorded' \cup undone' \cup todo'[s]
           /\ pc'[s] \in {"unlocking", "ended"} /\ err'[s] = Nil =>
                 w \in recorded' \cup undone'
    BY <2>2 DEF Covered, Frame, IsUp, Asked
  <2>7. CASE s # r
    BY <2>2, <2>5, <2>6, <2>7 DEF Covered, Frame
  <2>8. CASE s = r
    <3>1. v \in recorded'
      BY <2>1, <2>6, <2>8 DEF Written
    <3>2. w \in recorded \cup undone \cup todo[r]
      BY <2>2, <2>6, <2>8 DEF Covered
    <3>3. \/ pc'[r] = "applying" /\ todo'[r] = todo[r] \ {v}
          \/ pc'[r] = "unlocking" /\ err'[r] = "error"
      BY <2>1 DEF Written
    <3> QED
      BY <2>5, <2>8, <3>1, <3>2, <3>3
  <2> QED
    BY <2>7, <2>8
<1>12. ASSUME NEW r \in Runner, RecordFails(r) PROVE Covered'
  <2>1. /\ pc[r] \in {"applying", "recording"}
        /\ pc'[r] = "unlocking" /\ err'[r] = "error"
        /\ Frame(r) /\ UNCHANGED <<recorded, todo>>
        /\ \A w \in Version : w \notin NoTx => schema'[w] = schema[w]
        /\ Stated
    BY <1>12, FailsAlone
  <2> QED
    BY <2>1 DEF Stated, Covered, Frame, IsUp, Asked
<1>13. ASSUME NEW r \in Runner, Finish(r) PROVE Covered'
  BY <1>13 DEF Finish, Covered, TypeOK, IsUp, Asked, database, results, gates, Stop
<1>14. ASSUME NEW r \in Runner, Unlock(r) PROVE Covered'
  BY <1>14 DEF Unlock, Covered, TypeOK, IsUp, Asked, database, results, gates
<1>15. ASSUME NEW r \in Runner, Kill(r) PROVE Covered'
  BY <1>15 DEF Kill, Covered, TypeOK, IsUp, Asked, database, results, gates
<1>16. ASSUME NEW r \in Runner, Expire(r) PROVE Covered'
  BY <1>16 DEF Expire, Covered, TypeOK, IsUp, Asked, database, results, gates
<1>17. ASSUME NEW g \in Gate, AskVersion(g) PROVE Covered'
  BY <1>17 DEF AskVersion, Covered, TypeOK, IsUp, Asked, database, results, gates
<1>18. ASSUME NEW g \in Gate, AskPending(g) PROVE Covered'
  BY <1>18 DEF AskPending, Covered, TypeOK, IsUp, Asked, database, results, gates
<1>19. ASSUME NEW g \in Gate, AskFails(g) PROVE Covered'
  BY <1>19 DEF AskFails, Covered, TypeOK, IsUp, Asked, database, results, gates
<1>20. CASE UNCHANGED vars
  BY <1>20 DEF vars, Covered, TypeOK, IsUp, Asked, database, results, gates
<1> QED
  BY <1>1, <1>2, <1>3, <1>4, <1>5, <1>6, <1>7, <1>8, <1>9, <1>10, <1>11, <1>12,
     <1>13, <1>14, <1>15, <1>16, <1>17, <1>18, <1>19, <1>20 DEF Next, Progress

\* The books of a run are kept by that run alone.
LEMMA LedgerPreserved ==
    TypeOK /\ Ledger /\ [Next]_vars => Ledger'
<1> SUFFICES ASSUME TypeOK, Ledger, [Next]_vars
             PROVE  Ledger'
    OBVIOUS
<1>1. ASSUME NEW r \in Runner, Open(r) PROVE Ledger'
  BY <1>1 DEF Open, Ledger, TypeOK
<1>2. ASSUME NEW r \in Runner, Acquire(r) PROVE Ledger'
  BY <1>2 DEF Acquire, Ledger, TypeOK, database, results, gates
<1>3. ASSUME NEW r \in Runner, GiveUp(r) PROVE Ledger'
  BY <1>3 DEF GiveUp, Ledger, TypeOK
<1>4. ASSUME NEW r \in Runner, ListUp(r) PROVE Ledger'
  BY <1>4 DEF ListUp, Ledger, TypeOK, database, results, gates
<1>5. ASSUME NEW r \in Runner, ListDown(r) PROVE Ledger'
  BY <1>5 DEF ListDown, Ledger, TypeOK, database, results, gates
<1>6. ASSUME NEW r \in Runner, ListFails(r) PROVE Ledger'
  BY <1>6 DEF ListFails, Ledger, TypeOK, database, results, gates, Stop
<1>7. ASSUME NEW r \in Runner, Apply(r) PROVE Ledger'
  BY <1>7 DEF Apply, Ledger, TypeOK, database, results, gates, WriteRow, Answer, Stop
<1>8. ASSUME NEW r \in Runner, ApplyFails(r) PROVE Ledger'
  BY <1>8 DEF ApplyFails, Ledger, TypeOK, database, results, gates, Fails, Stop
<1>9. ASSUME NEW r \in Runner, RunNoTx(r) PROVE Ledger'
  BY <1>9 DEF RunNoTx, Ledger, TypeOK, database, results, gates
<1>10. ASSUME NEW r \in Runner, RunNoTxFails(r) PROVE Ledger'
  BY <1>10 DEF RunNoTxFails, Ledger, TypeOK, database, results, gates, Fails, Stop
<1>11. ASSUME NEW r \in Runner, Record(r) PROVE Ledger'
  BY <1>11 DEF Record, Ledger, TypeOK, database, results, gates, WriteRow, Answer, Stop
<1>12. ASSUME NEW r \in Runner, RecordFails(r) PROVE Ledger'
  BY <1>12 DEF RecordFails, Ledger, TypeOK, database, results, gates, Fails, Stop
<1>13. ASSUME NEW r \in Runner, Finish(r) PROVE Ledger'
  BY <1>13 DEF Finish, Ledger, TypeOK, database, results, gates, Stop
<1>14. ASSUME NEW r \in Runner, Unlock(r) PROVE Ledger'
  BY <1>14 DEF Unlock, Ledger, TypeOK, database, results, gates, Report
<1>15. ASSUME NEW r \in Runner, Kill(r) PROVE Ledger'
  BY <1>15 DEF Kill, Ledger, TypeOK, database, results, gates
<1>16. ASSUME NEW r \in Runner, Expire(r) PROVE Ledger'
  BY <1>16 DEF Expire, Ledger, TypeOK, database, results, gates
<1>17. ASSUME NEW g \in Gate, AskVersion(g) PROVE Ledger'
  BY <1>17 DEF AskVersion, Ledger, TypeOK, database, results, gates
<1>18. ASSUME NEW g \in Gate, AskPending(g) PROVE Ledger'
  BY <1>18 DEF AskPending, Ledger, TypeOK, database, results, gates
<1>19. ASSUME NEW g \in Gate, AskFails(g) PROVE Ledger'
  BY <1>19 DEF AskFails, Ledger, TypeOK, database, results, gates
<1>20. CASE UNCHANGED vars
  BY <1>20 DEF vars, Ledger, TypeOK, database, results, gates
<1> QED
  BY <1>1, <1>2, <1>3, <1>4, <1>5, <1>6, <1>7, <1>8, <1>9, <1>10, <1>11, <1>12,
     <1>13, <1>14, <1>15, <1>16, <1>17, <1>18, <1>19, <1>20 DEF Next, Progress

\* What a run puts down is what it reports.
LEMMA HonestPreserved ==
    TypeOK /\ Ledger /\ ReportIsHonest /\ [Next]_vars => ReportIsHonest'
<1> SUFFICES ASSUME TypeOK, Ledger, ReportIsHonest, [Next]_vars
             PROVE  ReportIsHonest'
    OBVIOUS
<1>1. ASSUME NEW r \in Runner, Open(r) PROVE ReportIsHonest'
  BY <1>1 DEF Open, ReportIsHonest, Said, Ledger, TypeOK
<1>2. ASSUME NEW r \in Runner, Acquire(r) PROVE ReportIsHonest'
  BY <1>2 DEF Acquire, ReportIsHonest, Said, Ledger, TypeOK, database, results, gates
<1>3. ASSUME NEW r \in Runner, GiveUp(r) PROVE ReportIsHonest'
  BY <1>3 DEF GiveUp, ReportIsHonest, Said, Ledger, TypeOK
<1>4. ASSUME NEW r \in Runner, ListUp(r) PROVE ReportIsHonest'
  BY <1>4 DEF ListUp, ReportIsHonest, Said, Ledger, TypeOK, database, results, gates
<1>5. ASSUME NEW r \in Runner, ListDown(r) PROVE ReportIsHonest'
  BY <1>5 DEF ListDown, ReportIsHonest, Said, Ledger, TypeOK, database, results, gates
<1>6. ASSUME NEW r \in Runner, ListFails(r) PROVE ReportIsHonest'
  BY <1>6 DEF ListFails, ReportIsHonest, Said, Ledger, TypeOK, database, results,
     gates, Stop
<1>7. ASSUME NEW r \in Runner, Apply(r) PROVE ReportIsHonest'
  BY <1>7 DEF Apply, ReportIsHonest, Said, Ledger, TypeOK, database, results, gates,
     WriteRow, Answer, Stop
<1>8. ASSUME NEW r \in Runner, ApplyFails(r) PROVE ReportIsHonest'
  BY <1>8 DEF ApplyFails, ReportIsHonest, Said, Ledger, TypeOK, database, results,
     gates, Fails, Stop
<1>9. ASSUME NEW r \in Runner, RunNoTx(r) PROVE ReportIsHonest'
  BY <1>9 DEF RunNoTx, ReportIsHonest, Said, Ledger, TypeOK, database, results, gates
<1>10. ASSUME NEW r \in Runner, RunNoTxFails(r) PROVE ReportIsHonest'
  BY <1>10 DEF RunNoTxFails, ReportIsHonest, Said, Ledger, TypeOK, database,
     results, gates, Fails, Stop
<1>11. ASSUME NEW r \in Runner, Record(r) PROVE ReportIsHonest'
  BY <1>11 DEF Record, ReportIsHonest, Said, Ledger, TypeOK, database, results,
     gates, WriteRow, Answer, Stop
<1>12. ASSUME NEW r \in Runner, RecordFails(r) PROVE ReportIsHonest'
  BY <1>12 DEF RecordFails, ReportIsHonest, Said, Ledger, TypeOK, database, results,
     gates, Fails, Stop
<1>13. ASSUME NEW r \in Runner, Finish(r) PROVE ReportIsHonest'
  BY <1>13 DEF Finish, ReportIsHonest, Said, Ledger, TypeOK, database, results,
     gates, Stop
<1>14. ASSUME NEW r \in Runner, Unlock(r) PROVE ReportIsHonest'
  <2>1. /\ UNCHANGED <<landed, failedAt, order>>
        /\ pc'[r] = "ended"
        /\ \A s \in Runner \ {r} : /\ pc'[s] = pc[s] /\ err'[s] = err[s]
                                    /\ output'[s] = output[s]
    BY <1>14 DEF Unlock, Report, TypeOK
  <2>2. PICK error \in {Nil, "error"} :
           /\ err'[r] = error /\ Report(r, error)
           /\ error = Nil => err[r] = Nil
    BY <1>14 DEF Unlock, TypeOK
  <2>3. error = Nil => failedAt[r] = Nil
    BY <1>14, <2>2 DEF Unlock, Ledger
  <2>4. Said(r)' = Applied(r, error)
    <3>1. CASE error = Nil \/ Applied(r, error) # {}
      <4>1. output'[r] = {Applied(r, error)}
        BY <2>2, <3>1 DEF Report, TypeOK
      <4> QED
        BY <4>1 DEF Said
    <3>2. CASE ~ (error = Nil \/ Applied(r, error) # {})
      <4>1. output'[r] = {}
        BY <2>2, <3>2 DEF Report, TypeOK
      <4> QED
        BY <3>2, <4>1 DEF Said
    <3> QED
      BY <3>1, <3>2
  <2>5. /\ Applied(r, error) \subseteq landed[r]
        /\ error = Nil => Applied(r, error) = landed[r]
        /\ order[r].op # "Down" => landed[r] \subseteq Applied(r, error) \cup {failedAt[r]}
    BY <2>3 DEF Applied, TypeOK
  <2>6. SUFFICES ASSUME NEW s \in Runner, pc'[s] = "ended"
                 PROVE  /\ Said(s)' \subseteq landed'[s]
                        /\ err'[s] = Nil => Said(s)' = landed'[s]
                        /\ order'[s].op # "Down" =>
                              landed'[s] \subseteq Said(s)' \cup {failedAt'[s]}
    BY DEF ReportIsHonest
  <2>7. CASE s # r
    <3>1. Said(s)' = Said(s) /\ pc[s] = "ended"
      BY <2>1, <2>6, <2>7 DEF Said
    <3> QED
      BY <2>1, <2>6, <2>7, <3>1 DEF ReportIsHonest
  <2>8. CASE s = r
    BY <2>1, <2>2, <2>4, <2>5, <2>8
  <2> QED
    BY <2>7, <2>8
<1>15. ASSUME NEW r \in Runner, Kill(r) PROVE ReportIsHonest'
  BY <1>15 DEF Kill, ReportIsHonest, Said, Ledger, TypeOK, database, results, gates
<1>16. ASSUME NEW r \in Runner, Expire(r) PROVE ReportIsHonest'
  BY <1>16 DEF Expire, ReportIsHonest, Said, Ledger, TypeOK, database, results, gates
<1>17. ASSUME NEW g \in Gate, AskVersion(g) PROVE ReportIsHonest'
  BY <1>17 DEF AskVersion, ReportIsHonest, Said, Ledger, TypeOK, database, results,
     gates
<1>18. ASSUME NEW g \in Gate, AskPending(g) PROVE ReportIsHonest'
  BY <1>18 DEF AskPending, ReportIsHonest, Said, Ledger, TypeOK, database, results,
     gates
<1>19. ASSUME NEW g \in Gate, AskFails(g) PROVE ReportIsHonest'
  BY <1>19 DEF AskFails, ReportIsHonest, Said, Ledger, TypeOK, database, results, gates
<1>20. CASE UNCHANGED vars
  BY <1>20 DEF vars, ReportIsHonest, Said, Ledger, TypeOK, database, results, gates
<1> QED
  BY <1>1, <1>2, <1>3, <1>4, <1>5, <1>6, <1>7, <1>8, <1>9, <1>10, <1>11, <1>12,
     <1>13, <1>14, <1>15, <1>16, <1>17, <1>18, <1>19, <1>20 DEF Next, Progress

\* What a gate read of the version table stays true, but for rollbacks.
LEMMA GatePreserved ==
    TypeOK /\ Recording /\ GateTold /\ [Next]_vars => GateTold'
<1> SUFFICES ASSUME TypeOK, Recording, GateTold, [Next]_vars
             PROVE  GateTold'
    OBVIOUS
<1>1. ASSUME NEW r \in Runner, Open(r) PROVE GateTold'
  BY <1>1 DEF Open, GateTold, database, results, gates
<1>2. ASSUME NEW r \in Runner, Acquire(r) PROVE GateTold'
  BY <1>2 DEF Acquire, GateTold, database, results, gates
<1>3. ASSUME NEW r \in Runner, GiveUp(r) PROVE GateTold'
  BY <1>3 DEF GiveUp, GateTold, database, results, gates
<1>4. ASSUME NEW r \in Runner, ListUp(r) PROVE GateTold'
  BY <1>4 DEF ListUp, GateTold, database, results, gates
<1>5. ASSUME NEW r \in Runner, ListDown(r) PROVE GateTold'
  BY <1>5 DEF ListDown, GateTold, database, results, gates
<1>6. ASSUME NEW r \in Runner, ListFails(r) PROVE GateTold'
  BY <1>6 DEF ListFails, GateTold, database, results, gates, Stop
<1>7. ASSUME NEW r \in Runner, Apply(r) PROVE GateTold'
  BY <1>7 DEF Apply, GateTold, database, results, gates, WriteRow, Answer, Stop,
     TypeOK, Undo
<1>8. ASSUME NEW r \in Runner, ApplyFails(r) PROVE GateTold'
  BY <1>8 DEF ApplyFails, GateTold, database, results, gates, Fails, Stop
<1>9. ASSUME NEW r \in Runner, RunNoTx(r) PROVE GateTold'
  BY <1>9 DEF RunNoTx, GateTold, database, results, gates, TypeOK, Undo
<1>10. ASSUME NEW r \in Runner, RunNoTxFails(r) PROVE GateTold'
  BY <1>10 DEF RunNoTxFails, GateTold, database, results, gates, Fails, Stop,
     TypeOK, Undo
<1>11. ASSUME NEW r \in Runner, Record(r) PROVE GateTold'
  BY <1>11 DEF Record, GateTold, database, results, gates, WriteRow, Answer, Stop,
     TypeOK, Recording
<1>12. ASSUME NEW r \in Runner, RecordFails(r) PROVE GateTold'
  BY <1>12 DEF RecordFails, GateTold, database, results, gates, Fails, Stop
<1>13. ASSUME NEW r \in Runner, Finish(r) PROVE GateTold'
  BY <1>13 DEF Finish, GateTold, database, results, gates, Stop
<1>14. ASSUME NEW r \in Runner, Unlock(r) PROVE GateTold'
  BY <1>14 DEF Unlock, GateTold, database, results, gates
<1>15. ASSUME NEW r \in Runner, Kill(r) PROVE GateTold'
  BY <1>15 DEF Kill, GateTold, database, results, gates
<1>16. ASSUME NEW r \in Runner, Expire(r) PROVE GateTold'
  BY <1>16 DEF Expire, GateTold, database, results, gates
<1>17. ASSUME NEW g \in Gate, AskVersion(g) PROVE GateTold'
  BY <1>17 DEF AskVersion, GateTold, database, results, gates, TypeOK
<1>18. ASSUME NEW g \in Gate, AskPending(g) PROVE GateTold'
  BY <1>18 DEF AskPending, GateTold, database, results, gates, TypeOK, Pending
<1>19. ASSUME NEW g \in Gate, AskFails(g) PROVE GateTold'
  BY <1>19 DEF AskFails, GateTold, database, results, gates, TypeOK
<1>20. CASE UNCHANGED vars
  BY <1>20 DEF vars, GateTold, database, results, gates
<1> QED
  BY <1>1, <1>2, <1>3, <1>4, <1>5, <1>6, <1>7, <1>8, <1>9, <1>10, <1>11, <1>12,
     <1>13, <1>14, <1>15, <1>16, <1>17, <1>18, <1>19, <1>20 DEF Next, Progress

-----------------------------------------------------------------------------

LEMMA InitInv == Init => Inv
BY DEF Init, Inv, TypeOK, LockHeld, Inside, ListStaysCurrent, Recording, Above, Covered,
       SchemaMatchesRecord, Ledger, ReportIsHonest, GateTold

LEMMA NextInv == Inv /\ [Next]_vars => Inv'
BY TypePreserved, LockPreserved, ListPreserved, RecordingPreserved, SchemaPreserved,
   AbovePreserved, CoveredPreserved, LedgerPreserved, HonestPreserved, GatePreserved
   DEF Inv

LEMMA Invariance == Spec => []Inv
BY InitInv, NextInv, PTL DEF Spec

\* The state keeps its types.
THEOREM TypeCorrect == Spec => []TypeOK
<1>1. Inv => TypeOK
  BY DEF Inv
<1> QED
  BY <1>1, Invariance, PTL

\* Under the lock, the list of pending migrations a run took (Migrator.Up, under the
\* provider's lock) never goes stale.
THEOREM ListsStayCurrent == Spec => []ListStaysCurrent
<1>1. Inv => ListStaysCurrent
  BY DEF Inv
<1> QED
  BY <1>1, Invariance, PTL

\* With a lock or without, the version table tells what is in the schema.
THEOREM RecordIsTrue == Spec => []SchemaMatchesRecord
<1>1. Inv => SchemaMatchesRecord
  BY DEF Inv
<1> QED
  BY <1>1, Invariance, PTL

\* A run of Up or UpTo that succeeded left nothing pending.
THEOREM SuccessIsComplete == Spec => []SuccessMeansMigrated
<1>1. Inv => SuccessMeansMigrated
  BY DEF Inv, TypeOK, Covered, SuccessMeansMigrated, IsUp, Asked
<1> QED
  BY <1>1, Invariance, PTL

\* What appliedFrom digs out of an error is what was applied.
THEOREM ReportsAreHonest == Spec => []ReportIsHonest
<1>1. Inv => ReportIsHonest
  BY DEF Inv
<1> QED
  BY <1>1, Invariance, PTL

\* A gate that passed, though it reads without a lock, can trust the schema.
THEOREM GatesTellTheTruth == Spec => []GateTellsTheTruth
<1>1. Inv => GateTellsTheTruth
  BY DEF Inv, GateTold, SchemaMatchesRecord, GateTellsTheTruth, TypeOK
<1> QED
  BY <1>1, Invariance, PTL

\* With allow_out_of_order off, under the lock, versions are recorded in order, whatever
\* images run.
THEOREM NothingIsLate == Spec => NoLateVersions
<1> DEFINE InOrder == config.locks /\ ~ config.outOfOrder =>
                         \A v \in recorded' \ recorded, u \in recorded : u < v
<1>1. Inv /\ [Next]_vars => InOrder
  <2> SUFFICES ASSUME Inv, [Next]_vars, config.locks, ~ config.outOfOrder,
                      NEW v \in recorded' \ recorded, NEW u \in recorded
               PROVE  u < v
    OBVIOUS
  <2> USE DEF Inv
  <2>1. ASSUME NEW r \in Runner, pc[r] \in {"applying", "recording"},
               NEW w \in Version, Written(r, w)
        PROVE  u < v
    BY <2>1 DEF Written, Turn, Above
  <2>2. ASSUME NEW r \in Runner, Apply(r) PROVE u < v
    BY <2>1, <2>2, WrittenByApply
  <2>3. ASSUME NEW r \in Runner, Record(r) PROVE u < v
    BY <2>1, <2>3, WrittenByRecord
  <2>4. ASSUME UNCHANGED recorded PROVE u < v
    BY <2>4
  <2>5. ASSUME NEW r \in Runner, ApplyFails(r) \/ RunNoTxFails(r) \/ RecordFails(r)
        PROVE  UNCHANGED recorded
    BY <2>5, FailsAlone
  <2>6. ASSUME NEW r \in Runner,
               \/ Open(r) \/ Acquire(r) \/ GiveUp(r) \/ ListUp(r) \/ ListDown(r)
               \/ ListFails(r) \/ RunNoTx(r) \/ Finish(r) \/ Unlock(r) \/ Kill(r)
               \/ Expire(r)
        PROVE  UNCHANGED recorded
    BY <2>6 DEF Open, Acquire, GiveUp, ListUp, ListDown, ListFails, RunNoTx, Finish,
                Unlock, Kill, Expire, database
  <2>7. ASSUME NEW g \in Gate, AskVersion(g) \/ AskPending(g) \/ AskFails(g)
        PROVE  UNCHANGED recorded
    BY <2>7 DEF AskVersion, AskPending, AskFails, database
  <2>8. CASE UNCHANGED vars
    BY <2>4, <2>8 DEF vars
  <2> QED
    BY <2>2, <2>3, <2>4, <2>5, <2>6, <2>7, <2>8 DEF Next, Progress
<1> QED
  BY <1>1, Invariance, PTL DEF Spec, NoLateVersions
=============================================================================
