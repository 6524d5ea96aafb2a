------------------------ MODULE CampaignAnswersProofs ------------------------
(***************************************************************************)
(* What the callers of CampaignStore are told, for every set of            *)
(* identifiers, instants and requests and any number of requests at once:  *)
(* an answer tells the outcome, fits its operation, and of two deletes of  *)
(* a row one is told that it was not there; a patch that reaches the table *)
(* is in it whole.                                                         *)
(*                                                                         *)
(* Every step is of one of four shapes (StepShape), whatever its request:  *)
(* the request moves on, is refused, has written, or fails.  The           *)
(* invariants are proved from the shapes, with what CampaignStoreProofs    *)
(* knows of the tables; that removed rows stay away comes from the         *)
(* refinement of CampaignAggregate.                                        *)
(***************************************************************************)
EXTENDS CampaignStoreProofs

Lookups == {"GetCampaign", "GetEvent"}

\* What a request holds on its way to an update has the fields it carried.
CampaignPatched(c, q) ==
    /\ q.name # Nil => c.name = q.name
    /\ q.status # Nil => c.status = q.status
    /\ q.clearStartAt => c.startAt = Nil
    /\ ~ q.clearStartAt /\ q.startAt # Nil => c.startAt = q.startAt
    /\ q.clearEndAt => c.endAt = Nil
    /\ ~ q.clearEndAt /\ q.endAt # Nil => c.endAt = q.endAt

EventPatched(e, q) ==
    /\ q.name # Nil => e.name = q.name
    /\ q.occurredAt # Nil => e.occurredAt = q.occurredAt

HoldsPatch(r) ==
    pc[r] = "write" =>
        /\ req[r].op = "UpdateCampaign" => CampaignPatched(entity[r], req[r])
        /\ req[r].op = "UpdateEvent" => EventPatched(entity[r], req[r])

PatchesHeld == \A r \in Slot : HoldsPatch(r)

\* Nothing has been done for a request, nor told to its caller, before it is answered.
Untold(r) == touched[r] = {} /\ answer[r] = Nil /\ r \notin faulted

Unanswered == \A r \in Slot : pc[r] # "answered" => Untold(r)

\* The row is gone, and no row will have its identifier again.
Gone(id) == id \in Spent /\ ~ Stored(id)

RemovedAreGone ==
    \A r \in Slot :
        pc[r] = "answered" /\ req[r].op \in Removes => \A id \in touched[r] : Gone(id)

AnswerInv ==
    /\ PatchesHeld
    /\ Unanswered
    /\ AnswersTellTheOutcome
    /\ RemovedAreGone
    /\ RemovedOnce

-----------------------------------------------------------------------------
(* The shapes of a step *)

\* Every other request is left alone.
Alone(r) ==
    \A k \in Slot \ {r} :
        /\ pc'[k] = pc[k] /\ req'[k] = req[k] /\ target'[k] = target[k]
        /\ entity'[k] = entity[k] /\ touched'[k] = touched[k]
        /\ answer'[k] = answer[k] /\ (k \in faulted' <=> k \in faulted)

Moves(r) ==
    /\ pc'[r] # "answered"
    /\ HoldsPatch(r)'
    /\ UNCHANGED <<tables, touched, answer, faulted>>

\* The errors with which an operation ends when nothing failed under it.
Fits(op, err) ==
    \/ err = "none" /\ op \in Lookups
    \/ err = "ErrInvalidArgument"
    \/ err = "ErrNotFound" /\ op \notin {"CreateCampaign", "CreateEvent"}
    \/ err = "ErrCampaignNotFound" /\ op = "CreateEvent"

BreaksCheck(r) ==
    /\ pc[r] = "write" /\ req[r].op \in {"CreateCampaign", "UpdateCampaign"}
    /\ ~ ChecksHold(StoredCampaign(entity[r]))

Refused(r, err) ==
    /\ pc'[r] = "answered"
    /\ \/ Fits(req'[r].op, err)
       \/ err = "CheckViolation" /\ BreaksCheck(r) /\ UNCHANGED locals
    /\ answer'[r] = CodeOf(req'[r].op, err)
    /\ UNCHANGED <<tables, touched, faulted>>

Wrote(r, ids) ==
    /\ pc[r] = "write" /\ Committed(r, ids)
    /\ ids \in SUBSET (Cid \cup Eid) /\ target[r] \in ids
    /\ req[r].op \in Removes => \A id \in ids : Stored(id) /\ ~ Stored(id)'

LEMMA ReturnIsRefused ==
    ASSUME Inv, NEW r \in Slot, pc[r] \notin {"idle", "answered"}, NEW err,
           Return(r, err),
           Fits(req[r].op, err) \/ (err = "CheckViolation" /\ BreaksCheck(r))
    PROVE  Alone(r) /\ Refused(r, err)
BY DEF Inv, TypeOK, Return, Reply, Alone, Refused, locals, history, tables

LEMMA ArriveShape ==
    ASSUME Inv, NEW r \in Slot, Arrive(r)
    PROVE  Alone(r) /\ pc[r] # "answered" /\ (Moves(r) \/ \E err : Refused(r, err))
<1>1. PICK q \in Requests : CreateCampaign(r, q) \/ Accept(r, q)
  BY DEF Arrive
<1>2. req'[r] = q /\ pc[r] = "idle" /\ UNCHANGED <<tables, touched, faulted>>
  BY <1>1 DEF CreateCampaign, Accept, Inv, TypeOK, history
<1>3. Alone(r)
  BY <1>1 DEF CreateCampaign, Accept, Send, Reply, Alone, Inv, TypeOK, history
<1>4. CASE Reply(r, q.op, "ErrInvalidArgument")
  <2>1. Refused(r, "ErrInvalidArgument")
    BY <1>2, <1>4 DEF Refused, Fits, Reply, Inv, TypeOK
  <2> QED BY <1>2, <1>3, <2>1
<1>5. ASSUME NEW s \in {"read", "count", "exists", "write"}, Send(r, s),
             s = "write" => q.op \notin {"UpdateCampaign", "UpdateEvent"}
      PROVE  Moves(r)
  <2>1. pc'[r] = s /\ UNCHANGED answer
    BY <1>5 DEF Send, Inv, TypeOK
  <2>2. HoldsPatch(r)'
    BY <1>2, <1>5, <2>1 DEF HoldsPatch
  <2> QED BY <1>2, <2>1, <2>2 DEF Moves
<1>6. CASE CreateCampaign(r, q)
  <2>1. Send(r, "write") \/ Reply(r, q.op, "ErrInvalidArgument")
    BY <1>6 DEF CreateCampaign
  <2> QED BY <1>2, <1>3, <1>4, <1>5, <1>6, <2>1 DEF CreateCampaign
<1>7. CASE Accept(r, q)
  <2>1. Send(r, FirstStatement(q.op)) \/ Reply(r, q.op, "ErrInvalidArgument")
    BY <1>7 DEF Accept
  <2>2. FirstStatement(q.op) \in {"read", "count", "exists", "write"}
    BY DEF FirstStatement
  <2>3. FirstStatement(q.op) = "write" => q.op \notin {"UpdateCampaign", "UpdateEvent"}
    BY DEF FirstStatement
  <2> QED BY <1>2, <1>3, <1>4, <1>5, <2>1, <2>2, <2>3
<1> QED BY <1>1, <1>6, <1>7

LEMMA ReadShape ==
    ASSUME Inv, NEW r \in Slot, Read(r)
    PROVE  Alone(r) /\ pc[r] # "answered" /\ (Moves(r) \/ \E err : Refused(r, err))
<1>1. pc[r] \in {"read", "count", "exists"}
  BY DEF Read, GetCampaign, UpdateCampaign, CountEvents, GetEvent, CreateEvent,
         UpdateEvent, At
<1>2. ASSUME NEW err, Return(r, err), Fits(req[r].op, err)
      PROVE  Alone(r) /\ Refused(r, err)
  BY <1>1, <1>2, ReturnIsRefused
<1>3. ASSUME Send(r, "write"), UNCHANGED <<tables, touched, faulted, req>>,
             \A k \in Slot \ {r} : target'[k] = target[k] /\ entity'[k] = entity[k],
             req[r].op = "UpdateCampaign" => CampaignPatched(entity'[r], req[r]),
             req[r].op = "UpdateEvent" => EventPatched(entity'[r], req[r])
      PROVE  Alone(r) /\ Moves(r)
  <2>1. HoldsPatch(r)'
    BY <1>3 DEF HoldsPatch
  <2> QED BY <1>3, <2>1 DEF Alone, Moves, Send, Inv, TypeOK
<1>4. CASE GetCampaign(r) \/ GetEvent(r)
  <2>1. \E err \in {"none", "ErrNotFound"} : Return(r, err)
    BY <1>4 DEF GetCampaign, GetEvent
  <2>2. \A err \in {"none", "ErrNotFound"} : Fits(req[r].op, err)
    BY <1>4 DEF GetCampaign, GetEvent, At, Fits, Lookups
  <2> QED BY <1>1, <1>2, <2>1, <2>2
<1>5. CASE UpdateCampaign(r)
  <2> DEFINE merged == MergeCampaign(campaigns[target[r]], req[r])
  <2>1. CASE \E err \in {"ErrNotFound", "ErrInvalidArgument"} : Return(r, err)
    BY <1>1, <1>2, <1>5, <2>1 DEF UpdateCampaign, At, Fits
  <2>2. CASE /\ entity' = [entity EXCEPT ![r] = merged]
             /\ Send(r, "write")
             /\ UNCHANGED <<tables, used, req, target, counted, history>>
    <3>1. CampaignPatched(merged, req[r])
      BY DEF MergeCampaign, Supplied, CampaignPatched
    <3> HIDE DEF merged
    <3>2. entity'[r] = merged /\ req[r].op = "UpdateCampaign"
      BY <1>5, <2>2 DEF Inv, TypeOK, UpdateCampaign, At
    <3> QED BY <1>1, <1>3, <2>2, <3>1, <3>2 DEF Inv, TypeOK, history
  <2> QED BY <1>5, <2>1, <2>2 DEF UpdateCampaign
<1>6. CASE UpdateEvent(r)
  <2> DEFINE merged == MergeEvent(events[target[r]], req[r])
  <2>1. CASE \E err \in {"ErrNotFound", "ErrInvalidArgument"} : Return(r, err)
    BY <1>1, <1>2, <1>6, <2>1 DEF UpdateEvent, At, Fits
  <2>2. CASE /\ events[target[r]] # Nil
             /\ entity' = [entity EXCEPT ![r] = merged]
             /\ Send(r, "write")
             /\ UNCHANGED <<tables, used, req, target, counted, history>>
    <3>1. events[target[r]] \in EventRow
      BY <1>6, <2>2 DEF UpdateEvent, At, Inv, RequestsHold, Holds, EventOps, TypeOK, Maybe
    <3>2. EventPatched(merged, req[r])
      BY <3>1, EventRowType DEF MergeEvent, Supplied, EventPatched
    <3> HIDE DEF merged
    <3>3. entity'[r] = merged /\ req[r].op = "UpdateEvent"
      BY <1>6, <2>2 DEF Inv, TypeOK, UpdateEvent, At
    <3> QED BY <1>1, <1>3, <2>2, <3>2, <3>3 DEF Inv, TypeOK, history
  <2> QED BY <1>6, <2>1, <2>2 DEF UpdateEvent
<1>7. CASE CountEvents(r)
  BY <1>1, <1>3, <1>7 DEF CountEvents, At, history
<1>8. CASE CreateEvent(r)
  <2>1. req[r].op = "CreateEvent"
    BY <1>8 DEF CreateEvent, At
  <2>2. CASE \E err \in {"ErrCampaignNotFound", "ErrInvalidArgument"} : Return(r, err)
    BY <1>1, <1>2, <2>1, <2>2 DEF Fits
  <2>3. ASSUME NEW e, NEW new, target' = [target EXCEPT ![r] = e],
               entity' = [entity EXCEPT ![r] = new], Send(r, "write"),
               UNCHANGED <<tables, req, counted, history>>
        PROVE  Alone(r) /\ Moves(r)
    BY <1>3, <2>1, <2>3 DEF Inv, TypeOK, history
  <2> QED BY <1>1, <1>8, <2>2, <2>3 DEF CreateEvent
<1> QED BY <1>4, <1>5, <1>6, <1>7, <1>8 DEF Read

LEMMA CommittedIsAlone ==
    ASSUME Inv, NEW r \in Slot, NEW ids, Committed(r, ids)
    PROVE  Alone(r)
BY DEF Inv, TypeOK, Committed, Reply, Alone, locals

LEMMA WriteShape ==
    ASSUME Inv, NEW r \in Slot, Write(r)
    PROVE  /\ Alone(r) /\ pc[r] # "answered"
           /\ (\E err : Refused(r, err)) \/ (\E ids : Wrote(r, ids))
<1> DEFINE c == target[r]
<1>1. pc[r] = "write"
  BY DEF Write, InsertCampaign, WriteCampaign, RemoveCampaign, InsertEvent, WriteEvent,
         RemoveEvent, At
<1>2. /\ req[r].op \in CampaignOps => c \in Cid
      /\ req[r].op \in EventOps => c \in Eid
  BY <1>1 DEF Inv, RequestsHold, Holds
<1>3. ASSUME NEW err, Return(r, err),
             Fits(req[r].op, err) \/ (err = "CheckViolation" /\ BreaksCheck(r))
      PROVE  Alone(r) /\ Refused(r, err)
  BY <1>1, <1>3, ReturnIsRefused
<1>4. ASSUME Committed(r, {c}), c \in Cid \cup Eid, req[r].op \notin Removes
      PROVE  Alone(r) /\ Wrote(r, {c})
  BY <1>1, <1>4, CommittedIsAlone DEF Wrote
<1>5. CASE InsertCampaign(r) \/ WriteCampaign(r)
  <2> DEFINE row == StoredCampaign(entity[r])
  <2>1. req[r].op \in {"CreateCampaign", "UpdateCampaign"} /\ c \in Cid
    BY <1>2, <1>5 DEF InsertCampaign, WriteCampaign, At, CampaignOps
  <2>2. CASE Committed(r, {c})
    BY <1>1, <1>4, <2>1, <2>2 DEF Removes
  <2>3. CASE ~ ChecksHold(row) /\ Return(r, "CheckViolation")
    BY <1>1, <1>3, <2>1, <2>3 DEF BreaksCheck
  <2>4. CASE WriteCampaign(r) /\ Return(r, "ErrNotFound")
    BY <1>1, <1>3, <2>4 DEF WriteCampaign, At, Fits
  <2> QED BY <1>5, <2>2, <2>3, <2>4 DEF InsertCampaign, WriteCampaign
<1>6. CASE RemoveCampaign(r)
  <2>1. req[r].op = "DeleteCampaign" /\ c \in Cid
    BY <1>2, <1>6 DEF RemoveCampaign, At, CampaignOps
  <2>2. CASE Return(r, "ErrNotFound")
    BY <1>1, <1>3, <2>1, <2>2 DEF Fits
  <2>3. CASE campaigns[c] # Nil /\ ~ Return(r, "ErrNotFound")
    <3>1. /\ campaigns' = [campaigns EXCEPT ![c] = Nil]
          /\ events' = [e \in Eid |-> IF e \in EventsOf(c) THEN Nil ELSE events[e]]
          /\ Committed(r, {c} \cup EventsOf(c))
      BY <1>6, <2>3 DEF RemoveCampaign
    <3>2. \A id \in {c} \cup EventsOf(c) : id \in Cid \cup Eid /\ Stored(id) /\ ~ Stored(id)'
      BY <2>1, <2>3, <3>1, SentinelAssumption DEF Stored, EventsOf, Inv, TypeOK
    <3>3. Wrote(r, {c} \cup EventsOf(c))
      BY <1>1, <3>1, <3>2 DEF Wrote
    <3> QED BY <1>1, <3>1, <3>3, CommittedIsAlone
  <2> QED BY <1>6, <2>2, <2>3 DEF RemoveCampaign
<1>7. CASE InsertEvent(r)
  <2>1. req[r].op = "CreateEvent" /\ c \in Eid
    BY <1>2, <1>7 DEF InsertEvent, At, EventOps
  <2>2. CASE Committed(r, {c})
    BY <1>1, <1>4, <2>1, <2>2 DEF Removes
  <2>3. CASE Return(r, "ErrCampaignNotFound")
    BY <1>1, <1>3, <2>1, <2>3 DEF Fits
  <2> QED BY <1>7, <2>2, <2>3 DEF InsertEvent
<1>8. CASE WriteEvent(r)
  <2>1. req[r].op = "UpdateEvent" /\ c \in Eid
    BY <1>2, <1>8 DEF WriteEvent, At, EventOps
  <2>2. CASE Committed(r, {c})
    BY <1>1, <1>4, <2>1, <2>2 DEF Removes
  <2>3. CASE Return(r, "ErrNotFound")
    BY <1>1, <1>3, <2>1, <2>3 DEF Fits
  <2> QED BY <1>8, <2>2, <2>3 DEF WriteEvent
<1>9. CASE RemoveEvent(r)
  <2>1. req[r].op = "DeleteEvent" /\ c \in Eid
    BY <1>2, <1>9 DEF RemoveEvent, At, EventOps
  <2>2. CASE Return(r, "ErrNotFound")
    BY <1>1, <1>3, <2>1, <2>2 DEF Fits
  <2>3. CASE events[c] # Nil /\ ~ Return(r, "ErrNotFound")
    <3>1. /\ events' = [events EXCEPT ![c] = Nil] /\ UNCHANGED campaigns
          /\ Committed(r, {c})
      BY <1>9, <2>3 DEF RemoveEvent
    <3>2. c \notin Cid /\ events[c] # Nil /\ events'[c] = Nil
      BY <2>1, <2>3, <3>1, SentinelAssumption DEF Inv, TypeOK
    <3>3. \A id \in {c} : id \in Cid \cup Eid /\ Stored(id) /\ ~ Stored(id)'
      BY <2>1, <3>2 DEF Stored
    <3>4. Wrote(r, {c})
      BY <1>1, <3>1, <3>3 DEF Wrote
    <3> QED BY <1>1, <3>1, <3>4, CommittedIsAlone
  <2> QED BY <1>9, <2>2, <2>3 DEF RemoveEvent
<1> QED BY <1>5, <1>6, <1>7, <1>8, <1>9 DEF Write

LEMMA FailShape ==
    ASSUME Inv, NEW r \in Slot, Fail(r)
    PROVE  Alone(r) /\ pc[r] # "answered"
BY DEF Inv, TypeOK, Fail, Reply, Alone, tables, locals

\* A step moves one request on, answers it with or without a write, or fails it.
LEMMA StepShape ==
    ASSUME Inv, Next
    PROVE  \E r \in Slot :
              /\ Alone(r) /\ pc[r] # "answered"
              /\ \/ Moves(r)
                 \/ \E err : Refused(r, err)
                 \/ \E ids : Wrote(r, ids)
                 \/ Fail(r)
BY ArriveShape, ReadShape, WriteShape, FailShape DEF Next

-----------------------------------------------------------------------------
(* The rows that are gone *)

\* In CampaignAggregate a spent identifier stays spent, and only one that is not spent
\* gets a row.
LEMMA AggregateKeepsGone ==
    ASSUME [Aggregate!Next]_Aggregate!vars, Inv
    PROVE  /\ Spent \subseteq Spent'
           /\ \A id \in Spent : Stored(id)' => Stored(id)
<1> USE DEF Spent, Stored, Inv, TypeOK
<1>1. CASE UNCHANGED Aggregate!vars
  BY <1>1 DEF Aggregate!vars
<1>2. CASE \E id \in Cid \cup Eid : Aggregate!Discard(id)
  BY <1>2 DEF Aggregate!Discard
<1>3. ASSUME NEW c \in Cid, Aggregate!InsertCampaign(c)
      PROVE  /\ Spent \subseteq Spent'
             /\ \A id \in Spent : Stored(id)' => Stored(id)
  BY <1>3 DEF Aggregate!InsertCampaign
<1>4. ASSUME NEW c \in Cid, Aggregate!OverwriteCampaign(c) \/ Aggregate!RemoveCampaign(c)
      PROVE  /\ Spent \subseteq Spent'
             /\ \A id \in Spent : Stored(id)' => Stored(id)
  BY <1>4 DEF Aggregate!OverwriteCampaign, Aggregate!RemoveCampaign
<1>5. ASSUME NEW e \in Eid, Aggregate!InsertEvent(e)
      PROVE  /\ Spent \subseteq Spent'
             /\ \A id \in Spent : Stored(id)' => Stored(id)
  BY <1>5 DEF Aggregate!InsertEvent
<1>6. ASSUME NEW e \in Eid, Aggregate!OverwriteEvent(e) \/ Aggregate!RemoveEvent(e)
      PROVE  /\ Spent \subseteq Spent'
             /\ \A id \in Spent : Stored(id)' => Stored(id)
  BY <1>6 DEF Aggregate!OverwriteEvent, Aggregate!RemoveEvent
<1> QED BY <1>1, <1>2, <1>3, <1>4, <1>5, <1>6 DEF Aggregate!Next

LEMMA GoneForGood ==
    ASSUME Inv, Next, NEW id, Gone(id)
    PROVE  Gone(id)'
BY NextImplements, AggregateKeepsGone DEF Gone

\* A stored row that a step takes away is gone for good.
LEMMA RemovalIsFinal ==
    ASSUME Inv, Next, NEW id \in Cid \cup Eid, Stored(id), ~ Stored(id)'
    PROVE  Gone(id)'
<1>1. id \in used
  BY DEF Inv, StoredIdsUsed
<1>2. id \notin InFlight
  BY InFlightIsCreating DEF Inv, InsertsAreFresh
<1> QED BY <1>1, <1>2, NextImplements, AggregateKeepsGone DEF Gone, Spent

-----------------------------------------------------------------------------
(* The codes *)

LEMMA FaultCodes ==
    ASSUME NEW op, NEW f \in Fault
    PROVE  CodeOf(op, f) \in {"Canceled", "DeadlineExceeded", "Internal"}
BY FaultAssumption DEF CodeOf

LEMMA FittingCodes ==
    ASSUME NEW op, NEW err, Fits(op, err)
    PROVE  \/ CodeOf(op, err) = "OK" /\ op \in Lookups
           \/ CodeOf(op, err) = "InvalidArgument"
           \/ CodeOf(op, err) = "NotFound" /\ op \notin {"CreateCampaign", "CreateEvent"}
           \/ CodeOf(op, err) = "FailedPrecondition" /\ op = "CreateEvent"
<1>1. CASE err = "none" /\ op \in Lookups
  BY <1>1 DEF CodeOf
<1>2. CASE err = "ErrInvalidArgument"
  BY <1>2 DEF CodeOf
<1>3. CASE err = "ErrNotFound" /\ op \notin {"CreateCampaign", "CreateEvent"}
  <2>1. CodeOf(op, err) = "NotFound"
    BY <1>3 DEF CodeOf
  <2> QED BY <1>3, <2>1
<1>4. CASE err = "ErrCampaignNotFound" /\ op = "CreateEvent"
  <2>1. CodeOf(op, err) = "FailedPrecondition"
    BY <1>4 DEF CodeOf
  <2> QED BY <1>4, <2>1
<1> QED BY <1>1, <1>2, <1>3, <1>4 DEF Fits

-----------------------------------------------------------------------------
(* AnswerInv *)

LEMMA InitAnswers == Init => AnswerInv
<1> SUFFICES ASSUME Init PROVE AnswerInv
  OBVIOUS
<1> USE DEF Init
<1>1. PatchesHeld /\ Unanswered
  BY DEF PatchesHeld, HoldsPatch, Unanswered, Untold
<1>2. AnswersTellTheOutcome
  <2>1. Nil \notin {"OK", "InvalidArgument", "NotFound", "FailedPrecondition"}
    BY CodesAssumption DEF Code
  <2> QED BY <2>1 DEF AnswersTellTheOutcome
<1>3. RemovedAreGone /\ RemovedOnce
  BY DEF RemovedAreGone, RemovedOnce
<1> QED BY <1>1, <1>2, <1>3 DEF AnswerInv

\* The shapes, in the terms of what is told and what is done.
LEMMA StepTold ==
    ASSUME Inv, NEW r \in Slot, Untold(r),
           \/ Moves(r)
           \/ \E err : Refused(r, err)
           \/ \E ids : Wrote(r, ids)
           \/ Fail(r)
    PROVE  /\ pc'[r] # "answered" => Untold(r)' /\ HoldsPatch(r)'
           /\ answer'[r] = "OK" /\ req'[r].op \notin Lookups => target'[r] \in touched'[r]
           /\ answer'[r] \in {"InvalidArgument", "NotFound", "FailedPrecondition"} =>
                 touched'[r] = {}
           /\ \/ touched'[r] = {}
              \/ /\ touched'[r] \in SUBSET (Cid \cup Eid) /\ req'[r] = req[r]
                 /\ req[r].op \in Removes =>
                       \A id \in touched'[r] : Stored(id) /\ ~ Stored(id)'
<1>1. CASE Moves(r)
  <2>1. answer'[r] = Nil /\ touched'[r] = {} /\ r \notin faulted'
    BY <1>1 DEF Moves, Untold
  <2>2. Nil \notin {"OK", "InvalidArgument", "NotFound", "FailedPrecondition"}
    BY CodesAssumption DEF Code
  <2> QED BY <1>1, <2>1, <2>2 DEF Moves, Untold
<1>2. ASSUME NEW err, Refused(r, err)
      PROVE  /\ pc'[r] = "answered" /\ touched'[r] = {}
             /\ answer'[r] = "OK" => req'[r].op \in Lookups
  <2>1. pc'[r] = "answered" /\ touched'[r] = {} /\ answer'[r] = CodeOf(req'[r].op, err)
    BY <1>2 DEF Refused, Untold
  <2>2. CASE Fits(req'[r].op, err)
    BY <2>1, <2>2, FittingCodes
  <2>3. CASE err = "CheckViolation"
    <3>1. CodeOf(req'[r].op, err) = "Internal"
      BY <2>3, FaultAssumption DEF CodeOf
    <3> QED BY <2>1, <3>1
  <2> QED BY <1>2, <2>1, <2>2, <2>3 DEF Refused
<1>3. ASSUME NEW ids, Wrote(r, ids)
      PROVE  /\ pc'[r] = "answered" /\ touched'[r] = ids /\ target'[r] \in ids
             /\ req'[r] = req[r]
             /\ ids \in SUBSET (Cid \cup Eid)
             /\ req[r].op \in Removes => \A id \in ids : Stored(id) /\ ~ Stored(id)'
             /\ answer'[r] \in {"OK", "Canceled", "DeadlineExceeded", "Internal"}
  <2>1. PICK err \in {"none"} \cup Fault : Reply(r, req[r].op, err)
    BY <1>3 DEF Wrote, Committed
  <2>2. CodeOf(req[r].op, err) \in {"OK", "Canceled", "DeadlineExceeded", "Internal"}
    <3>1. CASE err = "none"
      BY <3>1 DEF CodeOf
    <3>2. CASE err \in Fault
      BY <3>2, FaultCodes
    <3> QED BY <3>1, <3>2
  <2>3. pc'[r] = "answered" /\ answer'[r] = CodeOf(req[r].op, err)
    BY <2>1 DEF Reply, Inv, TypeOK
  <2> QED BY <1>3, <2>2, <2>3 DEF Wrote, Committed, locals, Inv, TypeOK
<1>4. CASE Fail(r)
  <2>1. PICK f \in Fault : Reply(r, req[r].op, f)
    BY <1>4 DEF Fail
  <2>2. pc'[r] = "answered" /\ answer'[r] = CodeOf(req[r].op, f) /\ touched'[r] = {}
    BY <1>4, <2>1 DEF Fail, Reply, Inv, TypeOK, Untold
  <2> QED BY <2>2, FaultCodes
<1> QED BY <1>1, <1>2, <1>3, <1>4

LEMMA NextAnswers ==
    ASSUME Inv, AnswerInv, Next
    PROVE  AnswerInv'
<1>1. PICK r \in Slot :
          /\ Alone(r) /\ pc[r] # "answered"
          /\ \/ Moves(r)
             \/ \E err : Refused(r, err)
             \/ \E ids : Wrote(r, ids)
             \/ Fail(r)
  BY StepShape
<1>2. Untold(r)
  BY <1>1 DEF AnswerInv, Unanswered
<1> DEFINE Told(k) == /\ pc[k] # "answered" => Untold(k) /\ HoldsPatch(k)
                      /\ answer[k] = "OK" /\ req[k].op \notin Lookups => target[k] \in touched[k]
                      /\ answer[k] \in {"InvalidArgument", "NotFound", "FailedPrecondition"} =>
                            touched[k] = {}
<1>3. \A k \in Slot \ {r} : Told(k)
  BY DEF AnswerInv, Unanswered, PatchesHeld, AnswersTellTheOutcome, Lookups
<1>4. \A k \in Slot \ {r} : Told(k)'
  BY <1>1, <1>3 DEF Alone, Untold, HoldsPatch
<1>5. Told(r)'
  BY <1>1, <1>2, StepTold
<1>6. (PatchesHeld /\ Unanswered /\ AnswersTellTheOutcome)'
  BY <1>4, <1>5 DEF PatchesHeld, HoldsPatch, Unanswered, AnswersTellTheOutcome, Lookups
<1> HIDE DEF Told
<1>7. \/ touched'[r] = {}
      \/ /\ touched'[r] \in SUBSET (Cid \cup Eid) /\ req'[r] = req[r]
         /\ req[r].op \in Removes => \A id \in touched'[r] : Stored(id) /\ ~ Stored(id)'
  BY <1>1, <1>2, StepTold
<1>8. RemovedAreGone'
  <2>1. ASSUME NEW id \in touched'[r], req'[r].op \in Removes
        PROVE  Gone(id)'
    BY <1>7, <2>1, RemovalIsFinal
  <2>2. ASSUME NEW k \in Slot \ {r}, pc'[k] = "answered", req'[k].op \in Removes,
               NEW id \in touched'[k]
        PROVE  Gone(id)'
    BY <1>1, <2>2, GoneForGood DEF Alone, AnswerInv, RemovedAreGone
  <2> QED BY <2>1, <2>2 DEF RemovedAreGone
<1>9. RemovedOnce'
  <2>1. ASSUME NEW k \in Slot \ {r}, pc'[k] = "answered", req'[k].op \in Removes,
               req'[r].op \in Removes
        PROVE  touched'[k] \cap touched'[r] = {}
    <3>1. \A id \in touched'[k] : ~ Stored(id)
      BY <1>1, <2>1 DEF Alone, AnswerInv, RemovedAreGone, Gone
    <3> QED BY <1>7, <2>1, <3>1
  <2>2. ASSUME NEW j \in Slot \ {r}, NEW k \in Slot \ {r}, j # k,
               pc'[j] = "answered", pc'[k] = "answered",
               req'[j].op \in Removes, req'[k].op \in Removes
        PROVE  touched'[j] \cap touched'[k] = {}
    BY <1>1, <2>2 DEF Alone, AnswerInv, RemovedOnce
  <2> QED BY <2>1, <2>2 DEF RemovedOnce
<1> QED BY <1>6, <1>8, <1>9 DEF AnswerInv

LEMMA StutterAnswers ==
    ASSUME AnswerInv, UNCHANGED vars
    PROVE  AnswerInv'
<1>1. UNCHANGED <<pc, req, target, entity, answer, touched, faulted, campaigns, events, used>>
  BY DEF vars
<1>2. Spent' = Spent /\ \A id : Stored(id)' <=> Stored(id)
  BY <1>1 DEF Spent, InFlight, Stored
<1>3. (PatchesHeld /\ Unanswered /\ AnswersTellTheOutcome)'
  BY <1>1 DEF AnswerInv, PatchesHeld, HoldsPatch, Unanswered, Untold, AnswersTellTheOutcome
<1>4. (RemovedAreGone /\ RemovedOnce)'
  BY <1>1, <1>2 DEF AnswerInv, RemovedAreGone, Gone, RemovedOnce
<1> QED BY <1>3, <1>4 DEF AnswerInv

-----------------------------------------------------------------------------
(* Theorems *)

\* However requests interleave and fail, what callers were told and what was done for
\* them stay in step.
THEOREM AnswersInvariance == Spec => []AnswerInv
<1>1. AnswerInv /\ Inv /\ [Next]_vars => AnswerInv'
  BY NextAnswers, StutterAnswers
<1> QED BY InitAnswers, <1>1, Invariance, PTL DEF Spec

\* A caller told OK got its write, and one told why it was refused changed nothing,
\* whatever runs between the statements of its request.
THEOREM AnswersAreTrue == Spec => []AnswersTellTheOutcome
<1>1. AnswerInv => AnswersTellTheOutcome
  BY DEF AnswerInv
<1> QED BY <1>1, AnswersInvariance, PTL

\* Of any deletes that race for a row, directly or by the cascade of its campaign, one
\* at most removes it.
THEOREM OneRemoves == Spec => []RemovedOnce
<1>1. AnswerInv => RemovedOnce
  BY DEF AnswerInv
<1> QED BY <1>1, AnswersInvariance, PTL

\* An update that reaches the table leaves every field its request carried in it, with
\* Clear before a value, whatever was written between its read and its write.
THEOREM PatchesArrive == Spec => PatchReachesTheRow
<1>1. ASSUME Inv, AnswerInv, NEW r \in Slot
      PROVE  PatchApplied(r)
  <2> DEFINE c == entity[r]
  <2>1. ASSUME pc[r] = "write"
        PROVE  touched[r] = {} /\ HoldsPatch(r)
    BY <1>1, <2>1 DEF AnswerInv, Unanswered, Untold, PatchesHeld
  <2>2. Truncated(Nil) = Nil
    BY SentinelAssumption DEF Truncated
  <2>3. ASSUME WriteCampaign(r), touched'[r] # {}
        PROVE  /\ campaigns'[target[r]] = StoredCampaign(c)
               /\ CampaignPatched(c, req[r]) /\ c \in CampaignRow
    <3>1. pc[r] = "write" /\ req[r].op = "UpdateCampaign"
      BY <2>3 DEF WriteCampaign, At
    <3>2. target[r] \in Cid /\ c \in CampaignRow
      BY <1>1, <3>1 DEF Inv, RequestsHold, Holds, CampaignOps
    <3>3. campaigns' = [campaigns EXCEPT ![target[r]] = StoredCampaign(c)]
      BY <2>1, <2>3, <3>1 DEF WriteCampaign, Return, history
    <3> QED BY <1>1, <2>1, <3>1, <3>2, <3>3 DEF HoldsPatch, Inv, TypeOK
  <2>4. ASSUME WriteEvent(r), touched'[r] # {}
        PROVE  /\ events'[target[r]].name = StoredEvent(c).name
               /\ events'[target[r]].occurredAt = StoredEvent(c).occurredAt
               /\ EventPatched(c, req[r]) /\ c \in EventRow
    <3>1. pc[r] = "write" /\ req[r].op = "UpdateEvent"
      BY <2>4 DEF WriteEvent, At
    <3>2. target[r] \in Eid /\ c \in EventRow
      BY <1>1, <3>1 DEF Inv, RequestsHold, Holds, EventOps
    <3>3. /\ events[target[r]] # Nil
          /\ events' = [events EXCEPT ![target[r]].name = StoredEvent(c).name,
                                      ![target[r]].occurredAt = StoredEvent(c).occurredAt]
      BY <2>1, <2>4, <3>1 DEF WriteEvent, Return, history
    <3>4. events[target[r]] \in EventRow
      BY <1>1, <3>2, <3>3 DEF Inv, TypeOK, Maybe
    <3> QED BY <1>1, <2>1, <3>1, <3>2, <3>3, <3>4, EventRowType DEF HoldsPatch, Inv, TypeOK
  <2>5. \A x \in CampaignRow :
           /\ StoredCampaign(x).name = x.name /\ StoredCampaign(x).status = x.status
           /\ StoredCampaign(x).startAt = Truncated(x.startAt)
           /\ StoredCampaign(x).endAt = Truncated(x.endAt)
    BY DEF CampaignRow, Campaign, StoredCampaign
  <2>6. \A x \in EventRow :
           /\ StoredEvent(x).name = x.name
           /\ StoredEvent(x).occurredAt = Truncated(x.occurredAt)
    BY EventRowType DEF StoredEvent
  <2> HIDE DEF c
  <2>7. WriteCampaign(r) /\ touched'[r] # {} =>
           LET q == req[r]
               row == campaigns'[target[r]]
           IN  /\ q.name # Nil => row.name = q.name
               /\ q.status # Nil => row.status = q.status
               /\ q.clearStartAt => row.startAt = Nil
               /\ ~ q.clearStartAt /\ q.startAt # Nil => row.startAt = Truncated(q.startAt)
               /\ q.clearEndAt => row.endAt = Nil
               /\ ~ q.clearEndAt /\ q.endAt # Nil => row.endAt = Truncated(q.endAt)
    BY <2>2, <2>3, <2>5 DEF CampaignPatched
  <2>8. WriteEvent(r) /\ touched'[r] # {} =>
           LET q == req[r]
               row == events'[target[r]]
           IN  /\ q.name # Nil => row.name = q.name
               /\ q.occurredAt # Nil => row.occurredAt = Truncated(q.occurredAt)
    BY <2>2, <2>4, <2>6 DEF EventPatched
  <2> QED BY <2>7, <2>8 DEF PatchApplied
<1>2. Inv /\ AnswerInv => \A r \in Slot : PatchApplied(r)
  BY <1>1
<1>3. Spec => []Inv /\ []AnswerInv
  BY Invariance, AnswersInvariance
<1> QED BY <1>2, <1>3, PTL DEF PatchReachesTheRow

\* A refusal fits its operation, that of a CHECK included.
LEMMA NextFits ==
    ASSUME Inv, AnswerInv, AnswersFitTheOperation, Next
    PROVE  AnswersFitTheOperation'
<1> DEFINE Fitting(k) ==
        \/ answer[k] \in {"OK", "InvalidArgument"}
        \/ answer[k] = "FailedPrecondition" /\ req[k].op = "CreateEvent"
        \/ answer[k] = "NotFound" /\ req[k].op \notin {"CreateCampaign", "CreateEvent"}
        \/ /\ answer[k] = "Internal"
           /\ req[k].op \in {"CreateCampaign", "UpdateCampaign"}
           /\ NarrowWindow(entity[k])
<1>1. PICK r \in Slot :
          /\ Alone(r) /\ pc[r] # "answered"
          /\ \/ Moves(r)
             \/ \E err : Refused(r, err)
             \/ \E ids : Wrote(r, ids)
             \/ Fail(r)
  BY StepShape
<1>2. ASSUME NEW k \in Slot \ {r}, k \notin faulted', pc'[k] = "answered"
      PROVE  Fitting(k)'
  BY <1>1, <1>2 DEF Alone, AnswersFitTheOperation
<1>3. ASSUME r \notin faulted', pc'[r] = "answered"
      PROVE  Fitting(r)'
  <2>1. CASE Moves(r) \/ Fail(r)
    BY <1>3, <2>1 DEF Moves, Fail
  <2>2. ASSUME NEW err, Refused(r, err)
        PROVE  Fitting(r)'
    <3>1. CASE Fits(req'[r].op, err)
      BY <2>2, <3>1, FittingCodes DEF Refused
    <3>2. CASE err = "CheckViolation" /\ BreaksCheck(r) /\ UNCHANGED locals
      <4>1. /\ req[r].op \in {"CreateCampaign", "UpdateCampaign"}
            /\ entity[r] \in CampaignRow /\ ~ ChecksHold(StoredCampaign(entity[r]))
        BY <3>2 DEF BreaksCheck, Inv, RequestsHold, Holds
      <4>2. NarrowWindow(entity[r])
        BY <4>1, ChecksRefuseNarrowWindows
      <4>3. req' = req /\ NarrowWindow(entity'[r])
        BY <3>2, <4>2 DEF locals
      <4>4. answer'[r] = "Internal"
        BY <2>2, <3>2 DEF Refused, CodeOf
      <4> QED BY <4>1, <4>3, <4>4
    <3> QED BY <2>2, <3>1, <3>2 DEF Refused
  <2>3. ASSUME NEW ids, Wrote(r, ids)
        PROVE  Fitting(r)'
    <3>1. Reply(r, req[r].op, "none")
      BY <1>3, <2>3 DEF Wrote, Committed
    <3>2. CodeOf(req[r].op, "none") = "OK"
      BY DEF CodeOf
    <3> QED BY <3>1, <3>2 DEF Reply, Inv, TypeOK
  <2> QED BY <1>1, <2>1, <2>2, <2>3
<1> QED BY <1>2, <1>3 DEF AnswersFitTheOperation

\* An operation that met no failure is answered with a code it documents, whatever it
\* raced with; Internal is for a window that is narrow to the columns, and only for that.
THEOREM AnswersFit == Spec => []AnswersFitTheOperation
<1>1. Init => AnswersFitTheOperation
  BY DEF Init, AnswersFitTheOperation
<1>2. Inv /\ AnswerInv /\ AnswersFitTheOperation /\ [Next]_vars => AnswersFitTheOperation'
  <2>1. ASSUME AnswersFitTheOperation, UNCHANGED vars
        PROVE  AnswersFitTheOperation'
    BY <2>1 DEF vars, AnswersFitTheOperation
  <2> QED BY <2>1, NextFits
<1>3. Spec => []Inv /\ []AnswerInv
  BY Invariance, AnswersInvariance
<1> QED BY <1>1, <1>2, <1>3, PTL DEF Spec
=============================================================================
