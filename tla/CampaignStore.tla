--------------------------- MODULE CampaignStore ---------------------------
(***************************************************************************)
(* The campaign domain of tehran: the handlers of internal/campaign/rpc.go,*)
(* the rules of internal/campaign/service.go, the repositories of          *)
(* internal/postgres and, as an external part, the two tables of the       *)
(* migration as PostgreSQL keeps them under READ COMMITTED.                *)
(*                                                                         *)
(* A slot is one request.  A request is a sequence of statements, and      *)
(* other requests run between any two of them; a statement, with the       *)
(* transaction GORM wraps around a single write, is one step.  DeleteCam-  *)
(* paign alone holds two statements in one transaction: its COUNT sees a   *)
(* snapshot of its own, and the DELETE, its cascade and the COMMIT are one *)
(* step because the row lock on the campaign keeps inserts of its events   *)
(* out between them.                                                       *)
(*                                                                         *)
(* Nil is Go's nil (an absent field, an unset timestamp) and the absent    *)
(* row; Empty is a zero value that is present ("", the zero time, the enum *)
(* value UNSPECIFIED).  description, type and payload have no rule of      *)
(* their own beyond what name shows, and created_at and updated_at are no  *)
(* property's business here; they are left out.                            *)
(***************************************************************************)
EXTENDS Integers, FiniteSets

CONSTANTS
    Cid, Eid,     \* the uuids campaigns and events can be given
    Slot,         \* requests in the run
    Name,         \* non-empty names
    Status,       \* the statuses of model.go, StatusDraft among them
    StatusDraft,
    Time,         \* instants, in nanoseconds
    Precision,    \* nanoseconds in one step of a timestamptz column
    Fault,        \* what a statement may fail with, beside its own answer
    Requests,     \* the requests clients send
    Nil, Empty

Maybe(S) == S \cup {Nil}

Request ==
    [op : {"CreateCampaign", "GetCampaign", "UpdateCampaign", "DeleteCampaign",
           "CreateEvent", "GetEvent", "UpdateEvent", "DeleteEvent"},
     id : Cid \cup Eid \cup {Empty},
     name : Name \cup {Nil, Empty}, status : Status \cup {Nil, Empty},
     startAt : Maybe(Time), endAt : Maybe(Time),
     clearStartAt : BOOLEAN, clearEndAt : BOOLEAN,
     occurredAt : Time \cup {Nil, Empty}]

EventOps == {"CreateEvent", "GetEvent", "UpdateEvent", "DeleteEvent"}

ASSUME SentinelAssumption ==
    /\ Nil # Empty
    /\ {Nil, Empty} \cap (Cid \cup Eid \cup Name \cup Status \cup Time) = {}
    /\ Cid \cap Eid = {}
    /\ \A r \in [campaign : Cid, name : Name, occurredAt : Time] : r # Nil
    /\ \A r \in [name : Name, status : Status,
                 startAt : Maybe(Time), endAt : Maybe(Time)] : r # Nil
ASSUME TimeAssumption ==
    /\ Time \subseteq Nat
    /\ Precision \in Nat \ {0}
    /\ \A t \in Time : t - (t % Precision) \in Time
ASSUME FiniteAssumption == IsFiniteSet(Eid)
ASSUME StatusAssumption == StatusDraft \in Status
ASSUME FaultAssumption == Fault \subseteq {"Canceled", "DeadlineExceeded", "Driver"}
ASSUME RequestsAssumption ==
    /\ Requests \subseteq Request
    /\ \A q \in Requests :
          \* name and status carry presence only in UpdateCampaignRequest and
          \* UpdateEventRequest
          /\ q.op \in {"CreateCampaign", "CreateEvent"} =>
                q.name # Nil /\ q.status # Nil
          /\ q.id \in IF q.op \in {"GetEvent", "UpdateEvent", "DeleteEvent"}
                     THEN Eid \cup {Empty} ELSE Cid \cup {Empty}

VARIABLES
    campaigns,    \* campaigns[c]: the row of table campaigns with id c, or Nil
    events,       \* events[e]: the row of table events with id e, or Nil
    used,         \* uuids drawn so far: uuid.NewString never repeats one
    pc,           \* pc[r]: the statement request r sends next
    req,          \* req[r]: the request's message
    target,       \* target[r]: the id of the row the request is about
    entity,       \* entity[r]: the *Campaign or *Event its handler holds
    counted,      \* counted[r]: deletedEvents of CampaignRepository.Delete
    answer,       \* answer[r]: the Connect code the caller got
    touched,      \* history: the ids of the rows r's committed write changed
    faulted       \* history: the requests one of whose statements failed

tables == <<campaigns, events>>
locals == <<req, target, entity, counted>>
history == <<touched, faulted>>
vars == <<campaigns, events, used, pc, req, target, entity, counted, answer,
          touched, faulted>>

-----------------------------------------------------------------------------
(* Entities and rows *)

Campaign == [name : Name \cup {Empty}, status : Status \cup {Empty},
             startAt : Maybe(Time), endAt : Maybe(Time)]

Event == [campaign : Cid, name : Name \cup {Empty},
          occurredAt : Time \cup {Empty}]

\* The window rule that Validate and campaigns_window_check both state.
WindowOpen(c) == c.startAt # Nil /\ c.endAt # Nil => c.endAt > c.startAt

\* Campaign.Validate, on the nanoseconds the handler holds.
ValidCampaign(c) ==
    /\ c.name # Empty
    /\ c.status \in Status
    /\ WindowOpen(c)

\* Event.Validate: campaign_id and the payload cannot fail here, because the id
\* was parsed and the payload came from a Struct.
ValidEvent(e) == e.name # Empty /\ e.occurredAt # Empty

CampaignRow == {c \in Campaign : ValidCampaign(c)}
EventRow == {e \in Event : ValidEvent(e)}

\* What a timestamptz column keeps of an instant.
Truncated(t) == IF t \in Time THEN t - (t % Precision) ELSE t

StoredCampaign(c) == [c EXCEPT !.startAt = Truncated(c.startAt),
                               !.endAt = Truncated(c.endAt)]
StoredEvent(e) == [e EXCEPT !.occurredAt = Truncated(e.occurredAt)]

\* campaigns_status_check and campaigns_window_check, on what the row would hold.
ChecksHold(row) == row.status \in Status /\ WindowOpen(row)

\* A window that opens and closes within one step of the columns.
NarrowWindow(c) ==
    /\ c.startAt # Nil /\ c.endAt # Nil
    /\ Truncated(c.startAt) = Truncated(c.endAt)

EventsOf(c) == {e \in Eid : events[e] # Nil /\ events[e].campaign = c}

Supplied(value, stored) == IF value = Nil THEN stored ELSE value

\* Faulty MergeCampaign: a value wins over Clear.
MergeValueFirst(c, q) ==
    [name |-> Supplied(q.name, c.name),
     status |-> Supplied(q.status, c.status),
     startAt |-> IF q.startAt # Nil THEN q.startAt
                 ELSE IF q.clearStartAt THEN Nil ELSE c.startAt,
     endAt |-> IF q.endAt # Nil THEN q.endAt
               ELSE IF q.clearEndAt THEN Nil ELSE c.endAt]

\* The merge of UpdateCampaign.
MergeCampaign(c, q) ==
    [name |-> Supplied(q.name, c.name),
     status |-> Supplied(q.status, c.status),
     startAt |-> IF q.clearStartAt THEN Nil ELSE Supplied(q.startAt, c.startAt),
     endAt |-> IF q.clearEndAt THEN Nil ELSE Supplied(q.endAt, c.endAt)]

\* The merge of UpdateEvent.
MergeEvent(e, q) ==
    [e EXCEPT !.name = Supplied(q.name, e.name),
              !.occurredAt = Supplied(q.occurredAt, e.occurredAt)]

-----------------------------------------------------------------------------
(* Answers *)

Code == {"OK", "InvalidArgument", "FailedPrecondition", "NotFound", "Canceled",
         "DeadlineExceeded", "Internal"}
ASSUME CodesAssumption == Nil \notin Code

\* toConnectError, with CreateEvent's override of a missing parent.
CodeOf(op, err) ==
    CASE err = "none" -> "OK"
      [] err = "ErrInvalidArgument" -> "InvalidArgument"
      [] err = "ErrCampaignNotFound" /\ op = "CreateEvent" -> "FailedPrecondition"
      [] err = "ErrCampaignNotFound" /\ op # "CreateEvent" -> "NotFound"
      [] err = "ErrNotFound" -> "NotFound"
      [] err \in {"Canceled", "DeadlineExceeded"} -> err
      [] OTHER -> "Internal"

At(r, op, statement) == pc[r] = statement /\ req[r].op = op

Send(r, statement) ==
    /\ pc' = [pc EXCEPT ![r] = statement]
    /\ UNCHANGED answer

Reply(r, op, err) ==
    /\ pc' = [pc EXCEPT ![r] = "answered"]
    /\ answer' = [answer EXCEPT ![r] = CodeOf(op, err)]

\* The request ends here, with nothing written.
Return(r, err) ==
    /\ Reply(r, req[r].op, err)
    /\ UNCHANGED <<campaigns, events, used, locals, history>>

\* The write committed and changed the rows ids.  The caller hears of it, or a
\* failure hides it: a deadline, a cancellation or a lost connection can come
\* between the server's COMMIT and the driver's answer.
Committed(r, ids) ==
    /\ touched' = [touched EXCEPT ![r] = ids]
    /\ \/ Reply(r, req[r].op, "none") /\ UNCHANGED faulted
       \/ \E f \in Fault :
             Reply(r, req[r].op, f) /\ faulted' = faulted \cup {r}
    /\ UNCHANGED <<used, locals>>

-----------------------------------------------------------------------------
Init ==
    /\ campaigns \in [Cid -> Maybe(CampaignRow)]
    /\ events \in [Eid -> Maybe(EventRow)]
    /\ \A e \in Eid : events[e] # Nil => campaigns[events[e].campaign] # Nil
    /\ used \in SUBSET (Cid \cup Eid)
    /\ \A c \in Cid : campaigns[c] # Nil => c \in used
    /\ \A e \in Eid : events[e] # Nil => e \in used
    /\ pc = [r \in Slot |-> "idle"]
    /\ req = [r \in Slot |-> Nil]
    /\ target = [r \in Slot |-> Empty]
    /\ entity = [r \in Slot |-> Nil]
    /\ counted = [r \in Slot |-> 0]
    /\ answer = [r \in Slot |-> Nil]
    /\ touched = [r \in Slot |-> {}]
    /\ faulted = {}

-----------------------------------------------------------------------------
(* A request arrives *)

\* Service.CreateCampaign up to the insert.
CreateCampaign(r, q) ==
    /\ pc[r] = "idle"
    /\ q.op = "CreateCampaign"
    /\ req' = [req EXCEPT ![r] = q]
    /\ \E c \in Cid \ used :
          LET new == [name |-> q.name,
                      status |-> IF q.status = Empty THEN StatusDraft ELSE q.status,
                      startAt |-> q.startAt, endAt |-> q.endAt]
          IN  /\ used' = used \cup {c}
              /\ target' = [target EXCEPT ![r] = c]
              /\ entity' = [entity EXCEPT ![r] = new]
              /\ IF ValidCampaign(new) THEN Send(r, "write")
                 ELSE Reply(r, q.op, "ErrInvalidArgument")
    /\ UNCHANGED <<tables, counted, history>>

\* The statement each of the other operations sends first.
FirstStatement(op) ==
    CASE op \in {"GetCampaign", "UpdateCampaign", "GetEvent", "UpdateEvent"} -> "read"
      [] op = "DeleteCampaign" -> "count"
      [] op = "CreateEvent" -> "exists"
      [] OTHER -> "write"

\* Every other handler starts with validateID.
Accept(r, q) ==
    /\ pc[r] = "idle"
    /\ q.op # "CreateCampaign"
    /\ req' = [req EXCEPT ![r] = q]
    /\ target' = [target EXCEPT ![r] = q.id]
    /\ IF q.id = Empty THEN Reply(r, q.op, "ErrInvalidArgument")
       ELSE Send(r, FirstStatement(q.op))
    /\ UNCHANGED <<tables, used, entity, counted, history>>

-----------------------------------------------------------------------------
(* Reads *)

GetCampaign(r) ==
    /\ At(r, "GetCampaign", "read")
    /\ Return(r, IF campaigns[target[r]] = Nil THEN "ErrNotFound" ELSE "none")

GetEvent(r) ==
    /\ At(r, "GetEvent", "read")
    /\ Return(r, IF events[target[r]] = Nil THEN "ErrNotFound" ELSE "none")

\* Faulty UpdateCampaign: the fields of the request are validated, not the merge.
ValidatePatchOnly(r) ==
    /\ At(r, "UpdateCampaign", "read")
    /\ LET c == campaigns[target[r]]
           merged == MergeCampaign(c, req[r])
       IN  IF c = Nil THEN Return(r, "ErrNotFound")
           ELSE IF req[r].name = Empty \/ ~ WindowOpen(req[r])
                THEN Return(r, "ErrInvalidArgument")
           ELSE /\ entity' = [entity EXCEPT ![r] = merged]
                /\ Send(r, "write")
                /\ UNCHANGED <<tables, used, req, target, counted, history>>

\* Faulty UpdateCampaign: the merge is not validated at all.
UpdateUnvalidated(r) ==
    /\ At(r, "UpdateCampaign", "read")
    /\ IF campaigns[target[r]] = Nil THEN Return(r, "ErrNotFound")
       ELSE /\ entity' = [entity EXCEPT ![r] = MergeCampaign(campaigns[target[r]], req[r])]
            /\ Send(r, "write")
            /\ UNCHANGED <<tables, used, req, target, counted, history>>

\* Service.UpdateCampaign: the read, the merge and the validation.
UpdateCampaign(r) ==
    /\ At(r, "UpdateCampaign", "read")
    /\ LET c == campaigns[target[r]]
           merged == MergeCampaign(c, req[r])
       IN  IF c = Nil THEN Return(r, "ErrNotFound")
           ELSE IF ~ ValidCampaign(merged) THEN Return(r, "ErrInvalidArgument")
           ELSE /\ entity' = [entity EXCEPT ![r] = merged]
                /\ Send(r, "write")
                /\ UNCHANGED <<tables, used, req, target, counted, history>>

\* Service.UpdateEvent: the read, the merge and the validation.
UpdateEvent(r) ==
    /\ At(r, "UpdateEvent", "read")
    /\ LET e == events[target[r]]
           merged == MergeEvent(e, req[r])
       IN  IF e = Nil THEN Return(r, "ErrNotFound")
           ELSE IF ~ ValidEvent(merged) THEN Return(r, "ErrInvalidArgument")
           ELSE /\ entity' = [entity EXCEPT ![r] = merged]
                /\ Send(r, "write")
                /\ UNCHANGED <<tables, used, req, target, counted, history>>

\* Service.CreateEvent: the Exists check, the clock, the validation.  An event
\* that is not stored leaves no trace of the uuid drawn for it.
CreateEvent(r) ==
    /\ At(r, "CreateEvent", "exists")
    /\ IF campaigns[target[r]] = Nil THEN Return(r, "ErrCampaignNotFound")
       ELSE \E e \in Eid \ used, now \in Time :
              LET new == [campaign |-> target[r], name |-> req[r].name,
                          occurredAt |-> Supplied(req[r].occurredAt, now)]
              IN  IF ~ ValidEvent(new) THEN Return(r, "ErrInvalidArgument")
                  ELSE /\ used' = used \cup {e}
                       /\ target' = [target EXCEPT ![r] = e]
                       /\ entity' = [entity EXCEPT ![r] = new]
                       /\ Send(r, "write")
                       /\ UNCHANGED <<tables, req, counted, history>>

\* The first statement of CampaignRepository.Delete's transaction.
CountEvents(r) ==
    /\ At(r, "DeleteCampaign", "count")
    /\ counted' = [counted EXCEPT ![r] = Cardinality(EventsOf(target[r]))]
    /\ Send(r, "write")
    /\ UNCHANGED <<tables, used, req, target, entity, history>>

-----------------------------------------------------------------------------
(* Writes *)

\* CampaignRepository.Create.
InsertCampaign(r) ==
    /\ At(r, "CreateCampaign", "write")
    /\ LET row == StoredCampaign(entity[r])
       IN  IF ~ ChecksHold(row) THEN Return(r, "CheckViolation")
           ELSE /\ campaigns' = [campaigns EXCEPT ![target[r]] = row]
                /\ Committed(r, {target[r]})
                /\ UNCHANGED events

\* Faulty WriteCampaign: an update that matches no row inserts one.
UpsertCampaign(r) ==
    /\ At(r, "UpdateCampaign", "write")
    /\ campaigns' = [campaigns EXCEPT ![target[r]] = StoredCampaign(entity[r])]
    /\ Committed(r, {target[r]})
    /\ UNCHANGED events

\* Faulty WriteCampaign: RowsAffected is not looked at.
IgnoreRowsAffected(r) ==
    /\ At(r, "UpdateCampaign", "write")
    /\ IF campaigns[target[r]] = Nil THEN Return(r, "none")
       ELSE /\ campaigns' = [campaigns EXCEPT ![target[r]] = StoredCampaign(entity[r])]
            /\ Committed(r, {target[r]})
            /\ UNCHANGED events

\* CampaignRepository.Update: every mutable column, whatever the request carried.
WriteCampaign(r) ==
    /\ At(r, "UpdateCampaign", "write")
    /\ LET row == StoredCampaign(entity[r])
       IN  IF campaigns[target[r]] = Nil THEN Return(r, "ErrNotFound")
           ELSE IF ~ ChecksHold(row) THEN Return(r, "CheckViolation")
           ELSE /\ campaigns' = [campaigns EXCEPT ![target[r]] = row]
                /\ Committed(r, {target[r]})
                /\ UNCHANGED events

\* The DELETE, its cascade and the COMMIT of CampaignRepository.Delete; a DELETE
\* that matches nothing rolls back.
RemoveCampaign(r) ==
    /\ At(r, "DeleteCampaign", "write")
    /\ LET c == target[r]
       IN  IF campaigns[c] = Nil THEN Return(r, "ErrNotFound")
           ELSE /\ campaigns' = [campaigns EXCEPT ![c] = Nil]
                /\ events' = [e \in Eid |-> IF e \in EventsOf(c) THEN Nil ELSE events[e]]
                /\ Committed(r, {c} \cup EventsOf(c))

\* Faulty InsertEvent: the events table has no foreign key.
InsertOrphan(r) ==
    /\ At(r, "CreateEvent", "write")
    /\ events' = [events EXCEPT ![target[r]] = StoredEvent(entity[r])]
    /\ Committed(r, {target[r]})
    /\ UNCHANGED campaigns

\* Faulty InsertEvent: the violation of the foreign key is passed on as it is.
UnnamedViolation(r) ==
    /\ At(r, "CreateEvent", "write")
    /\ IF campaigns[entity[r].campaign] = Nil THEN Return(r, "ForeignKeyViolation")
       ELSE /\ events' = [events EXCEPT ![target[r]] = StoredEvent(entity[r])]
            /\ Committed(r, {target[r]})
            /\ UNCHANGED campaigns

\* EventRepository.Create: the foreign key answers for a campaign that went away
\* after the Exists check, and its violation is renamed.
InsertEvent(r) ==
    /\ At(r, "CreateEvent", "write")
    /\ IF campaigns[entity[r].campaign] = Nil THEN Return(r, "ErrCampaignNotFound")
       ELSE /\ events' = [events EXCEPT ![target[r]] = StoredEvent(entity[r])]
            /\ Committed(r, {target[r]})
            /\ UNCHANGED campaigns

\* EventRepository.Update: campaign_id is not among the columns written.
WriteEvent(r) ==
    /\ At(r, "UpdateEvent", "write")
    /\ LET row == StoredEvent(entity[r])
       IN  IF events[target[r]] = Nil THEN Return(r, "ErrNotFound")
           ELSE /\ events' = [events EXCEPT ![target[r]].name = row.name,
                                           ![target[r]].occurredAt = row.occurredAt]
                /\ Committed(r, {target[r]})
                /\ UNCHANGED campaigns

\* Faulty RemoveEvent: a delete of nothing counts as a delete.
RemoveBlindly(r) ==
    /\ At(r, "DeleteEvent", "write")
    /\ events' = [events EXCEPT ![target[r]] = Nil]
    /\ Committed(r, {target[r]})
    /\ UNCHANGED campaigns

\* EventRepository.Delete.
RemoveEvent(r) ==
    /\ At(r, "DeleteEvent", "write")
    /\ IF events[target[r]] = Nil THEN Return(r, "ErrNotFound")
       ELSE /\ events' = [events EXCEPT ![target[r]] = Nil]
            /\ Committed(r, {target[r]})
            /\ UNCHANGED campaigns

\* A statement fails and the database keeps nothing of it: the deadline of the
\* request passes, the caller hangs up, or the driver reports an error.
Fail(r) ==
    /\ pc[r] \notin {"idle", "answered"}
    /\ \E f \in Fault : Reply(r, req[r].op, f)
    /\ faulted' = faulted \cup {r}
    /\ UNCHANGED <<tables, used, locals, touched>>

Arrive(r) == \E q \in Requests : CreateCampaign(r, q) \/ Accept(r, q)

Read(r) ==
    \/ GetCampaign(r) \/ UpdateCampaign(r) \/ CountEvents(r)
    \/ GetEvent(r) \/ CreateEvent(r) \/ UpdateEvent(r)

Write(r) ==
    \/ InsertCampaign(r) \/ WriteCampaign(r) \/ RemoveCampaign(r)
    \/ InsertEvent(r) \/ WriteEvent(r) \/ RemoveEvent(r)

Next == \E r \in Slot : Arrive(r) \/ Read(r) \/ Write(r) \/ Fail(r)

Spec == Init /\ [][Next]_vars

-----------------------------------------------------------------------------
(* Properties *)

\* The types of the state.  A stored campaign or event is one the domain accepts,
\* whatever interleaving of partial updates wrote it.
TypeOK ==
    /\ campaigns \in [Cid -> Maybe(CampaignRow)]
    /\ events \in [Eid -> Maybe(EventRow)]
    /\ used \in SUBSET (Cid \cup Eid)
    /\ pc \in [Slot -> {"idle", "read", "count", "exists", "write", "answered"}]
    /\ req \in [Slot -> Maybe(Requests)]
    /\ target \in [Slot -> Cid \cup Eid \cup {Empty}]
    /\ entity \in [Slot -> Maybe(Campaign \cup Event)]
    /\ counted \in [Slot -> Nat]
    /\ answer \in [Slot -> Maybe(Code)]
    /\ touched \in [Slot -> SUBSET (Cid \cup Eid)]
    /\ faulted \in SUBSET Slot

\* An event never outlives its campaign, although CreateEvent checks for the
\* campaign in one statement and inserts in another, and DeleteCampaign runs between
\* them.
NoOrphanEvents ==
    \A e \in Eid : events[e] # Nil => campaigns[events[e].campaign] # Nil

\* Where nothing failed, the code a caller gets is one its operation documents:
\* every race ends in NotFound, or in FailedPrecondition for a create under a
\* campaign that is gone.  Of what the service accepted, the table refuses, and the
\* caller is told Internal for, nothing but a window its columns cannot tell apart.
AnswersFitTheOperation ==
    \A r \in Slot \ faulted :
        pc[r] = "answered" =>
            \/ answer[r] \in {"OK", "InvalidArgument"}
            \/ answer[r] = "FailedPrecondition" /\ req[r].op = "CreateEvent"
            \/ answer[r] = "NotFound" /\ req[r].op \notin {"CreateCampaign", "CreateEvent"}
            \/ /\ answer[r] = "Internal"
               /\ req[r].op \in {"CreateCampaign", "UpdateCampaign"}
               /\ NarrowWindow(entity[r])

\* A caller told OK got its write; a caller told why it was refused changed
\* nothing.  Only the answers a failure produces leave the outcome open.
AnswersTellTheOutcome ==
    \A r \in Slot :
        /\ answer[r] = "OK" /\ req[r].op \notin {"GetCampaign", "GetEvent"} =>
              target[r] \in touched[r]
        /\ answer[r] \in {"InvalidArgument", "NotFound", "FailedPrecondition"} =>
              touched[r] = {}

Removes == {"DeleteCampaign", "DeleteEvent"}

\* No row is removed twice: of two deletes racing for a row, an event's own and its
\* campaign's cascade among them, one has it and the other is told NotFound.
RemovedOnce ==
    \A r, s \in Slot :
        r # s /\ pc[r] = "answered" /\ pc[s] = "answered"
              /\ req[r].op \in Removes /\ req[s].op \in Removes
        => touched[r] \cap touched[s] = {}

\* "Validate checks the invariants the database also checks" (Campaign.Validate): what
\* it let through, the CHECK constraints of the table accept.
ValidateCoversTheChecks ==
    \A r \in Slot :
        pc[r] = "write" /\ req[r].op \in {"CreateCampaign", "UpdateCampaign"} =>
            ChecksHold(StoredCampaign(entity[r]))

\* What a committed update of r leaves in the row it was for.
PatchApplied(r) ==
    LET q == req[r]
        c == campaigns'[target[r]]
        e == events'[target[r]]
    IN  /\ WriteCampaign(r) /\ touched'[r] # {} =>
              /\ q.name # Nil => c.name = q.name
              /\ q.status # Nil => c.status = q.status
              /\ q.clearStartAt => c.startAt = Nil
              /\ ~ q.clearStartAt /\ q.startAt # Nil => c.startAt = Truncated(q.startAt)
              /\ q.clearEndAt => c.endAt = Nil
              /\ ~ q.clearEndAt /\ q.endAt # Nil => c.endAt = Truncated(q.endAt)
        /\ WriteEvent(r) /\ touched'[r] # {} =>
              /\ q.name # Nil => e.name = q.name
              /\ q.occurredAt # Nil => e.occurredAt = Truncated(q.occurredAt)

\* An update that reaches the table leaves in it every field its request carried,
\* the cleared ones included, with Clear winning over a value.
PatchReachesTheRow == [][\A r \in Slot : PatchApplied(r)]_vars

\* The identifiers of rows on their way to their first insert.
InFlight ==
    {target[r] : r \in {s \in Slot : /\ pc[s] = "write"
                                    /\ req[s].op \in {"CreateCampaign", "CreateEvent"}}}

Aggregate == INSTANCE CampaignAggregate WITH spent <- used \ InFlight

\* The tables keep the promises of CampaignAggregate: no id is ever used for a second
\* row, so no update brings back a row that was deleted under it, no event changes
\* its campaign, and a campaign's events go in the same instant as it does.
AggregateKept == Aggregate!Spec

\* "A nil pointer field is left alone" (UpdateCampaignInput), "Only the fields the
\* request carries are applied" (Handler.UpdateCampaign).
AbsentFieldsLeftAlone ==
    [][\A r \in Slot :
        LET q == req[r]
            c == campaigns[target[r]]
        IN  WriteCampaign(r) /\ touched'[r] # {} =>
                /\ q.name = Nil => campaigns'[target[r]].name = c.name
                /\ q.status = Nil => campaigns'[target[r]].status = c.status
      ]_vars

\* "the count is the number of rows the delete actually removed rather than a number
\* that was true just before it" (CampaignRepository.Delete).
CountIsTheRowsRemoved ==
    \A r \in Slot :
        answer[r] = "OK" /\ req[r].op = "DeleteCampaign" =>
            counted[r] = Cardinality(touched[r] \cap Eid)
=============================================================================
