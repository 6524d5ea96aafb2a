------------------------ MODULE CampaignStoreProofs ------------------------
(***************************************************************************)
(* For every set of identifiers, names, instants and requests, and any     *)
(* number of requests at once, the tables that CampaignStore maintains     *)
(* hold only rows the domain accepts and no event without its campaign.    *)
(*                                                                         *)
(* Neither invariant is inductive alone: a write puts into the tables what *)
(* its request prepared statements earlier, so Inv also says what a request*)
(* holds while it is on its way to its write.                              *)
(***************************************************************************)
EXTENDS CampaignStore, FiniteSetTheorems, TLAPS

CampaignOps == {"CreateCampaign", "GetCampaign", "UpdateCampaign", "DeleteCampaign"}

\* The errors a request can end with, as the service's layers name them.
Errors ==
    {"none", "ErrInvalidArgument", "ErrNotFound", "ErrCampaignNotFound",
     "CheckViolation"} \cup Fault

Stored(id) ==
    \/ id \in Cid /\ campaigns[id] # Nil
    \/ id \in Eid /\ events[id] # Nil

\* A stored row's identifier has been drawn.
StoredIdsUsed == \A id \in Cid \cup Eid : Stored(id) => id \in used

\* Request r is about to insert a row.
Creating(r) ==
    pc[r] = "write" /\ req[r].op \in {"CreateCampaign", "CreateEvent"}

\* The identifier of a row about to be inserted was drawn for it alone, and no row
\* has it yet.
InsertsAreFresh ==
    \A r \in Slot : Creating(r) =>
        /\ target[r] \in used
        /\ ~ Stored(target[r])
        /\ \A k \in Slot \ {r} : Creating(k) => target[k] # target[r]

\* What request r holds when statement s is the next it sends.
Holds(r, s) ==
    /\ s \in {"read", "write", "count"} /\ req[r].op \in CampaignOps => target[r] \in Cid
    /\ s \in {"read", "write"} /\ req[r].op \in EventOps => target[r] \in Eid
    /\ s = "exists" => target[r] \in Cid
    /\ s = "write" /\ req[r].op \in {"CreateCampaign", "UpdateCampaign"} =>
          entity[r] \in CampaignRow
    /\ s = "write" /\ req[r].op \in {"CreateEvent", "UpdateEvent"} =>
          entity[r] \in EventRow

RequestsHold ==
    \A r \in Slot : pc[r] # "idle" => req[r] \in Requests /\ Holds(r, pc[r])

Inv ==
    /\ TypeOK
    /\ NoOrphanEvents
    /\ StoredIdsUsed
    /\ RequestsHold
    /\ InsertsAreFresh

-----------------------------------------------------------------------------
(* The helpers *)

LEMMA CampaignRowType ==
    CampaignRow = [name : Name, status : Status,
                   startAt : Maybe(Time), endAt : Maybe(Time)]
                  \cap {c \in Campaign : WindowOpen(c)}
BY SentinelAssumption DEF CampaignRow, Campaign, ValidCampaign, Maybe

LEMMA EventRowType == EventRow = [campaign : Cid, name : Name, occurredAt : Time]
BY SentinelAssumption DEF EventRow, Event, ValidEvent

\* No row is mistaken for the absence of one.
LEMMA RowIsNotNil ==
    /\ \A c \in CampaignRow : c # Nil
    /\ \A e \in EventRow : e # Nil
BY CampaignRowType, EventRowType, SentinelAssumption

LEMMA TruncatedType ==
    /\ \A t \in Time : Truncated(t) \in Time
    /\ \A t \in Maybe(Time) : Truncated(t) \in Maybe(Time)
BY TimeAssumption DEF Truncated, Maybe

\* A valid campaign that passes the table's checks is stored as a valid campaign.
LEMMA StoredCampaignType ==
    ASSUME NEW c \in CampaignRow, ChecksHold(StoredCampaign(c))
    PROVE  StoredCampaign(c) \in CampaignRow
BY TruncatedType DEF CampaignRow, Campaign, ValidCampaign, StoredCampaign, ChecksHold

LEMMA StoredEventType ==
    ASSUME NEW e \in EventRow
    PROVE  StoredEvent(e) \in EventRow
BY TruncatedType, EventRowType DEF StoredEvent

LEMMA MergeCampaignType ==
    ASSUME NEW c \in CampaignRow, NEW q \in Requests
    PROVE  MergeCampaign(c, q) \in Campaign
BY RequestsAssumption DEF CampaignRow, Campaign, MergeCampaign, Supplied, Request, Maybe

LEMMA MergeEventType ==
    ASSUME NEW e \in EventRow, NEW q \in Requests
    PROVE  MergeEvent(e, q) \in Event
BY RequestsAssumption DEF EventRow, Event, MergeEvent, Supplied, Request, Maybe

LEMMA CodeType ==
    ASSUME NEW op, NEW err \in Errors
    PROVE  CodeOf(op, err) \in Code
BY FaultAssumption DEF CodeOf, Errors, Code

LEMMA CountType == \A c : Cardinality(EventsOf(c)) \in Nat
<1> TAKE c
<1>1. EventsOf(c) \subseteq Eid
  BY DEF EventsOf
<1>2. IsFiniteSet(EventsOf(c))
  BY <1>1, FiniteAssumption, FS_Subset
<1> QED BY <1>2, FS_CardinalityType

-----------------------------------------------------------------------------
(* The steps that answer a request, and the state they leave *)

\* A request that stops holding anything disturbs no other.
LEMMA ReplyKeepsRequests ==
    ASSUME TypeOK, RequestsHold, NEW r \in Slot, pc[r] # "idle",
           pc' = [pc EXCEPT ![r] = "answered"],
           UNCHANGED <<req, target, entity>>
    PROVE  RequestsHold'
BY DEF RequestsHold, Holds, TypeOK

\* Nor does one that moves on, as long as it holds what its next statement needs.
LEMMA MoveKeepsRequests ==
    ASSUME TypeOK, RequestsHold, NEW r \in Slot,
           \A k \in Slot \ {r} : /\ pc'[k] = pc[k] /\ req'[k] = req[k]
                                /\ target'[k] = target[k] /\ entity'[k] = entity[k],
           req'[r] \in Requests, Holds(r, pc[r])'
    PROVE  RequestsHold'
BY DEF RequestsHold, Holds

\* While r moves, no other insert loses its identifier: nothing is stored under it,
\* and r draws none that is in use.
LEMMA MoveKeepsInsertsFresh ==
    ASSUME InsertsAreFresh, NEW r \in Slot,
           \A k \in Slot \ {r} : /\ pc'[k] = pc[k] /\ req'[k] = req[k]
                                /\ target'[k] = target[k],
           used \subseteq used',
           \A k \in Slot \ {r} : Creating(k) => ~ Stored(target[k])',
           Creating(r)' => /\ target'[r] \in used' \ used
                           /\ ~ Stored(target[r])'
    PROVE  InsertsAreFresh'
BY DEF InsertsAreFresh, Creating

LEMMA ReturnKeepsInv ==
    ASSUME Inv, NEW r \in Slot, pc[r] # "idle", NEW err \in Errors, Return(r, err)
    PROVE  Inv'
<1> USE DEF Inv, Return, Reply, locals, history
<1>0. CodeOf(req[r].op, err) \in Code
  BY CodeType
<1>1. TypeOK'
  BY <1>0 DEF TypeOK, Maybe
<1>2. NoOrphanEvents'
  BY DEF NoOrphanEvents
<1>3. StoredIdsUsed'
  BY DEF StoredIdsUsed, Stored
<1>4. RequestsHold'
  BY ReplyKeepsRequests
<1>5. InsertsAreFresh'
  BY DEF InsertsAreFresh, Creating, Stored, TypeOK
<1> QED BY <1>1, <1>2, <1>3, <1>4, <1>5

\* What a committed write leaves, apart from the tables.
LEMMA CommittedKeepsTheRest ==
    ASSUME TypeOK, RequestsHold, NEW r \in Slot, pc[r] # "idle",
           NEW ids \in SUBSET (Cid \cup Eid), Committed(r, ids),
           campaigns' \in [Cid -> Maybe(CampaignRow)],
           events' \in [Eid -> Maybe(EventRow)]
    PROVE  TypeOK' /\ RequestsHold' /\ UNCHANGED used
<1>1. PICK err \in Errors : Reply(r, req[r].op, err)
  BY DEF Committed, Errors
<1>0. CodeOf(req[r].op, err) \in Code
  BY CodeType
<1>2. TypeOK'
  BY <1>0, <1>1 DEF TypeOK, Maybe, Committed, Reply, locals
<1>3. RequestsHold'
  BY <1>1, ReplyKeepsRequests DEF Committed, Reply, locals
<1> QED BY <1>2, <1>3 DEF Committed

LEMMA FailKeepsInv ==
    ASSUME Inv, NEW r \in Slot, Fail(r)
    PROVE  Inv'
<1>1. PICK err \in Errors : Reply(r, req[r].op, err)
  BY DEF Fail, Errors
<1> USE DEF Inv, Fail, Reply, tables, locals
<1>0. CodeOf(req[r].op, err) \in Code
  BY CodeType
<1>2. TypeOK'
  BY <1>0, <1>1 DEF TypeOK, Maybe
<1>3. NoOrphanEvents' /\ StoredIdsUsed'
  BY DEF NoOrphanEvents, StoredIdsUsed, Stored
<1>4. RequestsHold'
  BY <1>1, ReplyKeepsRequests
<1>5. InsertsAreFresh'
  BY <1>1 DEF InsertsAreFresh, Creating, Stored, TypeOK
<1> QED BY <1>2, <1>3, <1>4, <1>5

-----------------------------------------------------------------------------
(* The actions *)

LEMMA CreateCampaignKeepsInv ==
    ASSUME Inv, NEW r \in Slot, NEW q \in Requests, CreateCampaign(r, q)
    PROVE  Inv'
<1> DEFINE new == [name |-> q.name,
                   status |-> IF q.status = Empty THEN StatusDraft ELSE q.status,
                   startAt |-> q.startAt, endAt |-> q.endAt]
<1>1. PICK c \in Cid \ used :
                       /\ used' = used \cup {c}
                       /\ target' = [target EXCEPT ![r] = c]
                       /\ entity' = [entity EXCEPT ![r] = new]
                       /\ IF ValidCampaign(new) THEN Send(r, "write")
                          ELSE Reply(r, q.op, "ErrInvalidArgument")
  BY DEF CreateCampaign
<1>2. new \in Campaign
  BY RequestsAssumption, StatusAssumption DEF Campaign, CreateCampaign, Request, Maybe
<1>3. CodeOf(q.op, "ErrInvalidArgument") \in Code
  BY CodeType DEF Errors
<1> HIDE DEF new
<1>4. TypeOK'
  BY <1>1, <1>2, <1>3
     DEF Inv, TypeOK, CreateCampaign, Send, Reply, tables, history, Maybe
<1>5. (NoOrphanEvents /\ StoredIdsUsed)'
  BY <1>1 DEF Inv, NoOrphanEvents, StoredIdsUsed, Stored, CreateCampaign, tables
<1>6. req'[r] = q /\ target'[r] = c /\ entity'[r] = new
  BY <1>1 DEF CreateCampaign, Inv, TypeOK
<1>7. \/ pc'[r] = "answered"
      \/ pc'[r] = "write" /\ new \in CampaignRow
  <2>1. CASE ValidCampaign(new)
    BY <1>1, <1>2, <2>1 DEF Inv, TypeOK, Send, CampaignRow
  <2>2. CASE ~ ValidCampaign(new)
    BY <1>1, <2>2 DEF Inv, TypeOK, Reply
  <2> QED BY <2>1, <2>2
<1>8. Holds(r, pc[r])'
  BY <1>6, <1>7 DEF Holds, CampaignOps, EventOps, CreateCampaign
<1>9. RequestsHold'
  BY <1>1, <1>6, <1>8, MoveKeepsRequests
     DEF Inv, TypeOK, CreateCampaign, Send, Reply
<1>10. InsertsAreFresh'
  <2>1. ~ Stored(c) /\ c \notin used
    BY <1>1 DEF Inv, StoredIdsUsed
  <2> QED BY <1>1, <1>6, <2>1, MoveKeepsInsertsFresh
          DEF Inv, TypeOK, InsertsAreFresh, Stored, CreateCampaign, Send, Reply, tables
<1> QED BY <1>4, <1>5, <1>9, <1>10 DEF Inv

LEMMA AcceptKeepsInv ==
    ASSUME Inv, NEW r \in Slot, NEW q \in Requests, Accept(r, q)
    PROVE  Inv'
<1>1. CodeOf(q.op, "ErrInvalidArgument") \in Code
  BY CodeType DEF Errors
<1>2. FirstStatement(q.op) \in {"read", "count", "exists", "write"}
  BY DEF FirstStatement
<1>3. q.id \in Cid \cup Eid \cup {Empty}
  BY RequestsAssumption DEF Request
<1>4. TypeOK'
  BY <1>1, <1>2, <1>3
     DEF Inv, TypeOK, Accept, Send, Reply, tables, history, Maybe
<1>5. (NoOrphanEvents /\ StoredIdsUsed)'
  BY DEF Inv, NoOrphanEvents, StoredIdsUsed, Stored, Accept, tables
<1>6. req'[r] = q /\ target'[r] = q.id
  BY DEF Accept, Inv, TypeOK
<1>7. \/ pc'[r] = "answered"
      \/ q.id # Empty /\ pc'[r] = FirstStatement(q.op)
  BY DEF Inv, TypeOK, Accept, Send, Reply
<1>8. Holds(r, pc[r])'
  BY <1>6, <1>7, RequestsAssumption
     DEF Holds, CampaignOps, EventOps, Accept, FirstStatement, Request
<1>9. RequestsHold'
  BY <1>6, <1>8, MoveKeepsRequests DEF Inv, TypeOK, Accept, Send, Reply
<1>10. InsertsAreFresh'
  BY <1>6, <1>7, MoveKeepsInsertsFresh
     DEF Inv, TypeOK, InsertsAreFresh, Creating, Stored, Accept, FirstStatement, Send,
         Reply, tables
<1> QED BY <1>4, <1>5, <1>9, <1>10 DEF Inv

LEMMA UpdateCampaignKeepsInv ==
    ASSUME Inv, NEW r \in Slot, UpdateCampaign(r)
    PROVE  Inv'
<1> DEFINE c == campaigns[target[r]]
           merged == MergeCampaign(c, req[r])
<1>1. pc[r] = "read" /\ req[r].op = "UpdateCampaign"
  BY DEF UpdateCampaign, At
<1>2. req[r] \in Requests /\ target[r] \in Cid
  BY <1>1 DEF Inv, RequestsHold, Holds, CampaignOps
<1>3. CASE \E err \in {"ErrNotFound", "ErrInvalidArgument"} : Return(r, err)
  BY <1>1, <1>3, ReturnKeepsInv DEF Errors
<1>4. CASE /\ c # Nil
           /\ ValidCampaign(merged)
           /\ entity' = [entity EXCEPT ![r] = merged]
           /\ Send(r, "write")
           /\ UNCHANGED <<tables, used, req, target, counted, history>>
  <2>1. merged \in Campaign
    BY <1>2, <1>4, MergeCampaignType DEF Inv, TypeOK, Maybe
  <2> HIDE DEF merged
  <2>2. TypeOK'
    BY <1>4, <2>1 DEF Inv, TypeOK, Send, tables, history, Maybe
  <2>3. (NoOrphanEvents /\ StoredIdsUsed)'
    BY <1>4 DEF Inv, NoOrphanEvents, StoredIdsUsed, Stored, tables
  <2>4. Holds(r, pc[r])'
    BY <1>1, <1>2, <1>4, <2>1
       DEF Inv, TypeOK, Send, Holds, CampaignOps, EventOps, CampaignRow
  <2>5. RequestsHold'
    BY <1>2, <1>4, <2>4, MoveKeepsRequests DEF Inv, TypeOK, Send
  <2>6. InsertsAreFresh'
    BY <1>1, <1>4, MoveKeepsInsertsFresh
       DEF Inv, TypeOK, InsertsAreFresh, Creating, Stored, Send, tables
  <2> QED BY <2>2, <2>3, <2>5, <2>6 DEF Inv
<1> QED BY <1>3, <1>4 DEF UpdateCampaign

LEMMA UpdateEventKeepsInv ==
    ASSUME Inv, NEW r \in Slot, UpdateEvent(r)
    PROVE  Inv'
<1> DEFINE e == events[target[r]]
           merged == MergeEvent(e, req[r])
<1>1. pc[r] = "read" /\ req[r].op = "UpdateEvent"
  BY DEF UpdateEvent, At
<1>2. req[r] \in Requests /\ target[r] \in Eid
  BY <1>1 DEF Inv, RequestsHold, Holds, EventOps
<1>3. CASE \E err \in {"ErrNotFound", "ErrInvalidArgument"} : Return(r, err)
  BY <1>1, <1>3, ReturnKeepsInv DEF Errors
<1>4. CASE /\ e # Nil
           /\ ValidEvent(merged)
           /\ entity' = [entity EXCEPT ![r] = merged]
           /\ Send(r, "write")
           /\ UNCHANGED <<tables, used, req, target, counted, history>>
  <2>1. merged \in Event
    BY <1>2, <1>4, MergeEventType DEF Inv, TypeOK, Maybe
  <2> HIDE DEF merged
  <2>2. TypeOK'
    BY <1>4, <2>1 DEF Inv, TypeOK, Send, tables, history, Maybe
  <2>3. (NoOrphanEvents /\ StoredIdsUsed)'
    BY <1>4 DEF Inv, NoOrphanEvents, StoredIdsUsed, Stored, tables
  <2>4. Holds(r, pc[r])'
    BY <1>1, <1>2, <1>4, <2>1
       DEF Inv, TypeOK, Send, Holds, CampaignOps, EventOps, EventRow
  <2>5. RequestsHold'
    BY <1>2, <1>4, <2>4, MoveKeepsRequests DEF Inv, TypeOK, Send
  <2>6. InsertsAreFresh'
    BY <1>1, <1>4, MoveKeepsInsertsFresh
       DEF Inv, TypeOK, InsertsAreFresh, Creating, Stored, Send, tables
  <2> QED BY <2>2, <2>3, <2>5, <2>6 DEF Inv
<1> QED BY <1>3, <1>4 DEF UpdateEvent

LEMMA CreateEventKeepsInv ==
    ASSUME Inv, NEW r \in Slot, CreateEvent(r)
    PROVE  Inv'
<1>1. pc[r] = "exists" /\ req[r].op = "CreateEvent"
  BY DEF CreateEvent, At
<1>2. req[r] \in Requests /\ target[r] \in Cid
  BY <1>1 DEF Inv, RequestsHold, Holds
<1>3. CASE \E err \in {"ErrCampaignNotFound", "ErrInvalidArgument"} : Return(r, err)
  BY <1>1, <1>3, ReturnKeepsInv DEF Errors
<1>4. ASSUME NEW e \in Eid \ used, NEW now \in Time, NEW new,
             new = [campaign |-> target[r], name |-> req[r].name,
                    occurredAt |-> Supplied(req[r].occurredAt, now)],
             ValidEvent(new),
             used' = used \cup {e},
             target' = [target EXCEPT ![r] = e],
             entity' = [entity EXCEPT ![r] = new],
             Send(r, "write"),
             UNCHANGED <<tables, req, counted, history>>
      PROVE  Inv'
  <2>1. new \in Event
    BY <1>1, <1>2, <1>4, RequestsAssumption DEF Event, Request, Supplied
  <2>2. TypeOK'
    BY <1>4, <2>1 DEF Inv, TypeOK, Send, tables, history, Maybe
  <2>3. (NoOrphanEvents /\ StoredIdsUsed)'
    BY <1>4 DEF Inv, NoOrphanEvents, StoredIdsUsed, Stored, tables
  <2>4. Holds(r, pc[r])'
    BY <1>1, <1>2, <1>4, <2>1
       DEF Inv, TypeOK, Send, Holds, CampaignOps, EventOps, EventRow
  <2>5. RequestsHold'
    BY <1>2, <1>4, <2>4, MoveKeepsRequests DEF Inv, TypeOK, Send
  <2>6. InsertsAreFresh'
    <3>1. ~ Stored(e)
      BY <1>4 DEF Inv, StoredIdsUsed
    <3>2. target'[r] = e /\ e \in used' \ used
      BY <1>4 DEF Inv, TypeOK
    <3> QED BY <1>4, <3>1, <3>2, MoveKeepsInsertsFresh
            DEF Inv, TypeOK, InsertsAreFresh, Stored, Send, tables
  <2> QED BY <2>2, <2>3, <2>5, <2>6 DEF Inv
<1>5. \/ \E err \in {"ErrCampaignNotFound", "ErrInvalidArgument"} : Return(r, err)
      \/ \E e \in Eid \ used, now \in Time :
            LET new == [campaign |-> target[r], name |-> req[r].name,
                        occurredAt |-> Supplied(req[r].occurredAt, now)]
            IN  /\ ValidEvent(new)
                /\ used' = used \cup {e}
                /\ target' = [target EXCEPT ![r] = e]
                /\ entity' = [entity EXCEPT ![r] = new]
                /\ Send(r, "write")
                /\ UNCHANGED <<tables, req, counted, history>>
  BY Zenon DEF CreateEvent
<1> QED BY <1>3, <1>4, <1>5, Zenon

LEMMA CountEventsKeepsInv ==
    ASSUME Inv, NEW r \in Slot, CountEvents(r)
    PROVE  Inv'
<1>1. pc[r] = "count" /\ req[r].op = "DeleteCampaign"
  BY DEF CountEvents, At
<1>2. Cardinality(EventsOf(target[r])) \in Nat
  BY CountType
<1>3. TypeOK'
  BY <1>2 DEF Inv, TypeOK, CountEvents, Send, tables, history
<1>4. (NoOrphanEvents /\ StoredIdsUsed)'
  BY DEF Inv, NoOrphanEvents, StoredIdsUsed, Stored, CountEvents, tables
<1>5. req[r] \in Requests /\ target[r] \in Cid
  BY <1>1 DEF Inv, RequestsHold, Holds, CampaignOps
<1>6. Holds(r, pc[r])'
  BY <1>1, <1>5 DEF Inv, TypeOK, CountEvents, Send, Holds, CampaignOps, EventOps
<1>7. RequestsHold'
  BY <1>5, <1>6, MoveKeepsRequests DEF Inv, TypeOK, CountEvents, Send
<1>8. InsertsAreFresh'
  BY <1>1, MoveKeepsInsertsFresh
     DEF Inv, TypeOK, InsertsAreFresh, Creating, Stored, CountEvents, Send, tables
<1> QED BY <1>3, <1>4, <1>7, <1>8 DEF Inv

\* A campaign's row is replaced by an accepted one.
LEMMA PutCampaignKeepsTables ==
    ASSUME Inv, NEW c \in Cid, NEW row \in CampaignRow, c \in used,
           campaigns' = [campaigns EXCEPT ![c] = row],
           UNCHANGED <<events, used>>
    PROVE  /\ campaigns' \in [Cid -> Maybe(CampaignRow)]
           /\ events' \in [Eid -> Maybe(EventRow)]
           /\ NoOrphanEvents'
           /\ StoredIdsUsed'
<1>1. row # Nil
  BY RowIsNotNil
<1>2. \A e \in Eid : events[e] # Nil => events[e].campaign \in Cid
  BY EventRowType DEF Inv, TypeOK, Maybe
<1> QED BY <1>1, <1>2 DEF Inv, TypeOK, NoOrphanEvents, StoredIdsUsed, Stored, Maybe

\* An event's row is replaced by an accepted one under a stored campaign.
LEMMA PutEventKeepsTables ==
    ASSUME Inv, NEW e \in Eid, NEW row \in EventRow, e \in used,
           campaigns[row.campaign] # Nil,
           events' = [events EXCEPT ![e] = row],
           UNCHANGED <<campaigns, used>>
    PROVE  /\ campaigns' \in [Cid -> Maybe(CampaignRow)]
           /\ events' \in [Eid -> Maybe(EventRow)]
           /\ NoOrphanEvents'
           /\ StoredIdsUsed'
BY DEF Inv, TypeOK, NoOrphanEvents, StoredIdsUsed, Stored, Maybe

LEMMA WriteCampaignKeepsInv ==
    ASSUME Inv, NEW r \in Slot, InsertCampaign(r) \/ WriteCampaign(r)
    PROVE  Inv'
<1> DEFINE row == StoredCampaign(entity[r])
<1>1. pc[r] = "write" /\ req[r].op \in {"CreateCampaign", "UpdateCampaign"}
  BY DEF InsertCampaign, WriteCampaign, At
<1>2. target[r] \in Cid /\ entity[r] \in CampaignRow
  BY <1>1 DEF Inv, RequestsHold, Holds, CampaignOps
<1>3. CASE \E err \in {"ErrNotFound", "CheckViolation"} : Return(r, err)
  BY <1>1, <1>3, ReturnKeepsInv DEF Errors
<1>4. CASE /\ ChecksHold(row)
           /\ campaigns' = [campaigns EXCEPT ![target[r]] = row]
           /\ Committed(r, {target[r]})
           /\ UNCHANGED events
           /\ Creating(r) \/ Stored(target[r])
  <2>1. row \in CampaignRow
    BY <1>2, <1>4, StoredCampaignType
  <2>2. UNCHANGED used
    BY <1>4 DEF Committed
  <2>3. /\ campaigns' \in [Cid -> Maybe(CampaignRow)]
        /\ events' \in [Eid -> Maybe(EventRow)]
        /\ NoOrphanEvents'
        /\ StoredIdsUsed'
    <3>1. target[r] \in used
      BY <1>2, <1>4 DEF Inv, InsertsAreFresh, StoredIdsUsed
    <3> QED BY <1>2, <1>4, <2>1, <2>2, <3>1, PutCampaignKeepsTables
  <2>4. TypeOK' /\ RequestsHold'
    BY <1>1, <1>2, <1>4, <2>3, CommittedKeepsTheRest DEF Inv
  <2>5. \A k \in Slot \ {r} : Creating(k) => target[k] # target[r]
    BY <1>4 DEF Inv, InsertsAreFresh
  <2>6. InsertsAreFresh'
    BY <1>2, <1>4, <2>2, <2>5, MoveKeepsInsertsFresh
       DEF Inv, TypeOK, InsertsAreFresh, Creating, Stored, Committed, Reply, locals
  <2> QED BY <2>3, <2>4, <2>6 DEF Inv
<1>5. \/ Creating(r)
      \/ req[r].op = "UpdateCampaign" /\ (Stored(target[r]) \/ campaigns[target[r]] = Nil)
  BY <1>1, <1>2 DEF Stored, Creating
<1> QED BY <1>1, <1>2, <1>3, <1>4, <1>5 DEF InsertCampaign, WriteCampaign, At

LEMMA WriteEventKeepsInv ==
    ASSUME Inv, NEW r \in Slot, InsertEvent(r) \/ WriteEvent(r)
    PROVE  Inv'
<1>1. pc[r] = "write" /\ req[r].op \in {"CreateEvent", "UpdateEvent"}
  BY DEF InsertEvent, WriteEvent, At
<1>2. target[r] \in Eid /\ entity[r] \in EventRow
  BY <1>1 DEF Inv, RequestsHold, Holds, EventOps
<1>3. CASE \E err \in {"ErrNotFound", "ErrCampaignNotFound"} : Return(r, err)
  BY <1>1, <1>3, ReturnKeepsInv DEF Errors
<1>4. ASSUME NEW row \in EventRow,
             campaigns[row.campaign] # Nil,
             Creating(r) \/ Stored(target[r]),
             events' = [events EXCEPT ![target[r]] = row],
             Committed(r, {target[r]}),
             UNCHANGED campaigns
      PROVE  Inv'
  <2>1. UNCHANGED used
    BY <1>4 DEF Committed
  <2>2. target[r] \in used
    BY <1>2, <1>4 DEF Inv, InsertsAreFresh, StoredIdsUsed
  <2>3. /\ campaigns' \in [Cid -> Maybe(CampaignRow)]
        /\ events' \in [Eid -> Maybe(EventRow)]
        /\ NoOrphanEvents'
        /\ StoredIdsUsed'
    BY <1>2, <1>4, <2>1, <2>2, PutEventKeepsTables
  <2>4. TypeOK' /\ RequestsHold'
    BY <1>1, <1>2, <1>4, <2>3, CommittedKeepsTheRest DEF Inv
  <2>5. \A k \in Slot \ {r} : Creating(k) => target[k] # target[r]
    BY <1>4 DEF Inv, InsertsAreFresh
  <2>6. InsertsAreFresh'
    BY <1>2, <1>4, <2>1, <2>5, MoveKeepsInsertsFresh
       DEF Inv, TypeOK, InsertsAreFresh, Creating, Stored, Committed, Reply, locals
  <2> QED BY <2>3, <2>4, <2>6 DEF Inv
<1>5. CASE InsertEvent(r) /\ campaigns[entity[r].campaign] # Nil
  <2>1. StoredEvent(entity[r]) \in EventRow
    BY <1>2, StoredEventType
  <2>2. StoredEvent(entity[r]).campaign = entity[r].campaign
    BY <1>2, EventRowType DEF StoredEvent
  <2> QED BY <1>1, <1>4, <1>5, <2>1, <2>2 DEF InsertEvent, At, Creating
<1>6. CASE WriteEvent(r) /\ events[target[r]] # Nil
  <2> DEFINE old == events[target[r]]
             new == StoredEvent(entity[r])
             row == [old EXCEPT !.name = new.name, !.occurredAt = new.occurredAt]
  <2>1. new \in EventRow
    BY <1>2, StoredEventType
  <2>2. old \in EventRow /\ campaigns[old.campaign] # Nil
    BY <1>2, <1>6 DEF Inv, TypeOK, NoOrphanEvents, Maybe
  <2>3. row \in EventRow /\ row.campaign = old.campaign
    BY <2>1, <2>2, EventRowType
  <2>4. events' = [events EXCEPT ![target[r]] = row]
    BY <1>2, <1>6, <2>2, EventRowType DEF WriteEvent, Inv, TypeOK
  <2>5. Stored(target[r]) /\ Committed(r, {target[r]}) /\ UNCHANGED campaigns
    BY <1>2, <1>6 DEF Stored, WriteEvent
  <2> QED BY <1>4, <2>2, <2>3, <2>4, <2>5
<1> QED BY <1>3, <1>5, <1>6 DEF InsertEvent, WriteEvent

LEMMA RemoveCampaignKeepsInv ==
    ASSUME Inv, NEW r \in Slot, RemoveCampaign(r)
    PROVE  Inv'
<1>1. pc[r] = "write" /\ req[r].op = "DeleteCampaign"
  BY DEF RemoveCampaign, At
<1>2. target[r] \in Cid
  BY <1>1 DEF Inv, RequestsHold, Holds, CampaignOps
<1>3. CASE Return(r, "ErrNotFound")
  BY <1>1, <1>3, ReturnKeepsInv DEF Errors
<1>4. CASE /\ campaigns' = [campaigns EXCEPT ![target[r]] = Nil]
           /\ events' = [e \in Eid |-> IF e \in EventsOf(target[r]) THEN Nil ELSE events[e]]
           /\ Committed(r, {target[r]} \cup EventsOf(target[r]))
  <2>1. UNCHANGED used
    BY <1>4 DEF Committed
  <2>2. /\ campaigns' \in [Cid -> Maybe(CampaignRow)]
        /\ events' \in [Eid -> Maybe(EventRow)]
    BY <1>4 DEF Inv, TypeOK, Maybe
  <2>3. NoOrphanEvents'
    BY <1>2, <1>4, EventRowType DEF Inv, TypeOK, NoOrphanEvents, EventsOf, Maybe
  <2>4. \A id \in Cid \cup Eid : Stored(id)' => Stored(id)
    BY <1>2, <1>4 DEF Inv, TypeOK, Stored
  <2>5. StoredIdsUsed'
    BY <2>1, <2>4 DEF Inv, StoredIdsUsed
  <2>6. TypeOK' /\ RequestsHold'
    <3>1. {target[r]} \cup EventsOf(target[r]) \in SUBSET (Cid \cup Eid)
      BY <1>2 DEF EventsOf
    <3> QED BY <1>1, <1>4, <2>2, <3>1, CommittedKeepsTheRest DEF Inv
  <2>7. \A k \in Slot \ {r} : Creating(k) => ~ Stored(target[k])'
    BY <1>2, <1>4 DEF Inv, TypeOK, InsertsAreFresh, Stored, Committed, locals
  <2>8. InsertsAreFresh'
    BY <1>4, <2>1, <2>7, MoveKeepsInsertsFresh
       DEF Inv, TypeOK, Creating, Committed, Reply, locals
  <2> QED BY <2>3, <2>5, <2>6, <2>8 DEF Inv
<1> QED BY <1>3, <1>4 DEF RemoveCampaign

LEMMA RemoveEventKeepsInv ==
    ASSUME Inv, NEW r \in Slot, RemoveEvent(r)
    PROVE  Inv'
<1>1. pc[r] = "write" /\ req[r].op = "DeleteEvent"
  BY DEF RemoveEvent, At
<1>2. target[r] \in Eid
  BY <1>1 DEF Inv, RequestsHold, Holds, EventOps
<1>3. CASE Return(r, "ErrNotFound")
  BY <1>1, <1>3, ReturnKeepsInv DEF Errors
<1>4. CASE /\ events' = [events EXCEPT ![target[r]] = Nil]
           /\ Committed(r, {target[r]})
           /\ UNCHANGED campaigns
  <2>1. UNCHANGED used
    BY <1>4 DEF Committed
  <2>2. /\ campaigns' \in [Cid -> Maybe(CampaignRow)]
        /\ events' \in [Eid -> Maybe(EventRow)]
    BY <1>4 DEF Inv, TypeOK, Maybe
  <2>3. NoOrphanEvents'
    BY <1>2, <1>4 DEF Inv, TypeOK, NoOrphanEvents
  <2>4. \A id \in Cid \cup Eid : Stored(id)' => Stored(id)
    BY <1>2, <1>4 DEF Inv, TypeOK, Stored
  <2>5. StoredIdsUsed'
    BY <2>1, <2>4 DEF Inv, StoredIdsUsed
  <2>6. TypeOK' /\ RequestsHold'
    BY <1>1, <1>2, <1>4, <2>2, CommittedKeepsTheRest DEF Inv
  <2>7. \A k \in Slot \ {r} : Creating(k) => ~ Stored(target[k])'
    BY <1>2, <1>4 DEF Inv, TypeOK, InsertsAreFresh, Stored, Committed, locals
  <2>8. InsertsAreFresh'
    BY <1>4, <2>1, <2>7, MoveKeepsInsertsFresh
       DEF Inv, TypeOK, Creating, Committed, Reply, locals
  <2> QED BY <2>3, <2>5, <2>6, <2>8 DEF Inv
<1> QED BY <1>3, <1>4 DEF RemoveEvent

LEMMA NextKeepsInv ==
    ASSUME Inv, [Next]_vars
    PROVE  Inv'
<1>1. ASSUME NEW r \in Slot, Arrive(r)
      PROVE  Inv'
  BY <1>1, CreateCampaignKeepsInv, AcceptKeepsInv DEF Arrive
<1>2. ASSUME NEW r \in Slot, Read(r)
      PROVE  Inv'
  <2>1. CASE GetCampaign(r) \/ GetEvent(r)
    <3>1. \E err \in {"ErrNotFound", "none"} : Return(r, err)
      BY <2>1 DEF GetCampaign, GetEvent
    <3> QED BY <2>1, <3>1, ReturnKeepsInv DEF GetCampaign, GetEvent, At, Errors
  <2> QED BY <1>2, <2>1, UpdateCampaignKeepsInv, CountEventsKeepsInv, CreateEventKeepsInv,
             UpdateEventKeepsInv DEF Read
<1>3. ASSUME NEW r \in Slot, Write(r)
      PROVE  Inv'
  BY <1>3, WriteCampaignKeepsInv, RemoveCampaignKeepsInv, WriteEventKeepsInv,
     RemoveEventKeepsInv DEF Write
<1>4. CASE UNCHANGED vars
  <2>1. (TypeOK /\ NoOrphanEvents /\ StoredIdsUsed)'
    BY <1>4 DEF vars, Inv, TypeOK, NoOrphanEvents, StoredIdsUsed, Stored
  <2>2. RequestsHold'
    BY <1>4 DEF vars, Inv, RequestsHold, Holds
  <2>3. InsertsAreFresh'
    BY <1>4 DEF vars, Inv, InsertsAreFresh, Creating, Stored
  <2> QED BY <2>1, <2>2, <2>3 DEF Inv
<1> QED BY <1>1, <1>2, <1>3, <1>4, FailKeepsInv DEF Next

LEMMA InitEstablishesInv == Init => Inv
<1> SUFFICES ASSUME Init PROVE Inv
  OBVIOUS
<1>1. TypeOK
  BY DEF Init, TypeOK, Maybe
<1>2. NoOrphanEvents
  BY DEF Init, NoOrphanEvents
<1>3. StoredIdsUsed
  BY DEF Init, StoredIdsUsed, Stored
<1>4. RequestsHold /\ InsertsAreFresh
  BY DEF Init, RequestsHold, InsertsAreFresh, Creating
<1> QED BY <1>1, <1>2, <1>3, <1>4 DEF Inv

-----------------------------------------------------------------------------
(* Theorems *)

\* However requests interleave and fail, Inv holds.
THEOREM Invariance == Spec => []Inv
BY InitEstablishesInv, NextKeepsInv, PTL DEF Spec

\* The state keeps its types: in particular every row UpdateCampaign, CreateCampaign,
\* CreateEvent and UpdateEvent leave in the tables is one the domain accepts.
THEOREM TypeCorrect == Spec => []TypeOK
<1>1. Inv => TypeOK
  BY DEF Inv
<1> QED BY <1>1, Invariance, PTL

\* No interleaving of CreateEvent and DeleteCampaign leaves an event whose campaign
\* is gone.
THEOREM NoOrphans == Spec => []NoOrphanEvents
<1>1. Inv => NoOrphanEvents
  BY DEF Inv
<1> QED BY <1>1, Invariance, PTL

\* A column keeps the order of two instants, or makes them one.
LEMMA TruncationKeepsOrder ==
    ASSUME NEW s \in Time, NEW t \in Time, s < t
    PROVE  /\ Truncated(s) \in Nat /\ Truncated(t) \in Nat
           /\ Truncated(s) <= Truncated(t)
<1> DEFINE P == Precision
           m == s \div P
           n == t \div P
<1>1. s \in Nat /\ t \in Nat /\ P \in Nat /\ P > 0
  BY TimeAssumption
<1>2. /\ m \in Nat /\ (s % P) \in 0 .. P - 1 /\ s = P * m + (s % P)
      /\ n \in Nat /\ (t % P) \in 0 .. P - 1 /\ t = P * n + (t % P)
  BY <1>1
<1>3. Truncated(s) = P * m /\ Truncated(t) = P * n
  BY <1>1, <1>2 DEF Truncated
<1>4. ~ (n + 1 <= m)
  <2> SUFFICES ASSUME n + 1 <= m PROVE FALSE
    OBVIOUS
  <2>1. P * (n + 1) <= P * m
    BY <1>1, <1>2
  <2>2. P * (n + 1) = P * n + P
    BY <1>1, <1>2
  <2> QED BY <1>1, <1>2, <2>1, <2>2
<1>5. P * m <= P * n
  BY <1>1, <1>2, <1>4
<1> QED BY <1>1, <1>2, <1>3, <1>5

\* Of the campaigns Validate accepts, the CHECK constraints refuse the narrow ones, and
\* no other.
LEMMA ChecksRefuseNarrowWindows ==
    ASSUME NEW c \in CampaignRow
    PROVE  ChecksHold(StoredCampaign(c)) <=> ~ NarrowWindow(c)
<1>1. /\ c \in Campaign /\ ValidCampaign(c)
      /\ c.startAt \in Maybe(Time) /\ c.endAt \in Maybe(Time)
  BY DEF CampaignRow, Campaign
<1>2. /\ StoredCampaign(c).status = c.status
      /\ StoredCampaign(c).startAt = Truncated(c.startAt)
      /\ StoredCampaign(c).endAt = Truncated(c.endAt)
  BY <1>1 DEF Campaign, StoredCampaign
<1>3. \A t \in Maybe(Time) : Truncated(t) = Nil <=> t = Nil
  BY TruncatedType, SentinelAssumption DEF Truncated, Maybe
<1>4. ChecksHold(StoredCampaign(c)) <=>
         (c.startAt # Nil /\ c.endAt # Nil => Truncated(c.endAt) > Truncated(c.startAt))
  BY <1>1, <1>2, <1>3 DEF ChecksHold, WindowOpen, ValidCampaign
<1>5. CASE c.startAt = Nil \/ c.endAt = Nil
  BY <1>4, <1>5 DEF NarrowWindow
<1>6. CASE c.startAt # Nil /\ c.endAt # Nil
  <2>1. c.startAt \in Time /\ c.endAt \in Time /\ c.startAt < c.endAt
    BY <1>1, <1>6, TimeAssumption DEF Maybe, ValidCampaign, WindowOpen
  <2>2. /\ Truncated(c.startAt) \in Nat /\ Truncated(c.endAt) \in Nat
        /\ Truncated(c.startAt) <= Truncated(c.endAt)
    BY <2>1, TruncationKeepsOrder
  <2>3. Truncated(c.endAt) > Truncated(c.startAt)
           <=> Truncated(c.startAt) # Truncated(c.endAt)
    BY <2>2
  <2> QED BY <1>4, <1>6, <2>3 DEF NarrowWindow
<1> QED BY <1>5, <1>6

\* What a request is about to write is refused by a CHECK exactly when it is a campaign
\* whose window lies within one step of the columns: nothing else that Campaign.Validate
\* accepts is, and all of that is.
THEOREM OnlyNarrowWindowsFail ==
    Spec => [](\A r \in Slot :
                 pc[r] = "write" /\ req[r].op \in {"CreateCampaign", "UpdateCampaign"} =>
                   (ChecksHold(StoredCampaign(entity[r])) <=> ~ NarrowWindow(entity[r])))
<1>1. Inv => \A r \in Slot :
                pc[r] = "write" /\ req[r].op \in {"CreateCampaign", "UpdateCampaign"} =>
                  (ChecksHold(StoredCampaign(entity[r])) <=> ~ NarrowWindow(entity[r]))
  BY ChecksRefuseNarrowWindows DEF Inv, RequestsHold, Holds
<1> QED BY <1>1, Invariance, PTL

-----------------------------------------------------------------------------
(* CampaignStore implements CampaignAggregate *)

Spent == used \ InFlight

LEMMA InFlightIsCreating == InFlight = {target[r] : r \in {k \in Slot : Creating(k)}}
BY DEF InFlight, Creating

\* When a request that is not about to insert leaves the tables alone, what it did is
\* at most to draw an identifier and let it go.
LEMMA MoveDiscardsAtMost ==
    ASSUME Inv, NEW r \in Slot, ~ Creating(r),
           \A k \in Slot \ {r} : /\ pc'[k] = pc[k] /\ req'[k] = req[k]
                                /\ target'[k] = target[k],
           UNCHANGED tables,
           \/ used' = used /\ ~ Creating(r)'
           \/ \E id \in (Cid \cup Eid) \ used :
                 used' = used \cup {id} /\ (Creating(r)' => target'[r] = id)
    PROVE  [Aggregate!Next]_Aggregate!vars
<1>1. \A k \in Slot \ {r} : Creating(k)' = Creating(k)
  BY DEF Creating
<1>2. InFlight \subseteq used
  BY InFlightIsCreating DEF Inv, InsertsAreFresh
<1>3. CASE used' = used /\ ~ Creating(r)'
  <2>1. InFlight' = InFlight
    BY <1>1, <1>3, InFlightIsCreating DEF InFlight, Creating
  <2> QED BY <1>3, <2>1 DEF Aggregate!vars, tables
<1>4. ASSUME NEW id \in (Cid \cup Eid) \ used, used' = used \cup {id},
             Creating(r)' => target'[r] = id
      PROVE  [Aggregate!Next]_Aggregate!vars
  <2>1. CASE Creating(r)'
    <3>1. InFlight' = InFlight \cup {id}
      BY <1>1, <1>4, <2>1 DEF InFlight, Creating
    <3>2. Spent' = Spent
      BY <1>2, <1>4, <3>1 DEF Spent
    <3> QED BY <3>2 DEF Spent, Aggregate!vars, tables
  <2>2. CASE ~ Creating(r)'
    <3>1. InFlight' = InFlight
      BY <1>1, <2>2 DEF InFlight, Creating
    <3>2. Spent' = Spent \cup {id} /\ id \notin Spent
      BY <1>2, <1>4, <3>1 DEF Spent
    <3>3. Aggregate!Discard(id)
      BY <3>2 DEF Spent, Aggregate!Discard, tables
    <3> QED BY <3>3 DEF Aggregate!Next
  <2> QED BY <2>1, <2>2
<1> QED BY <1>3, <1>4

\* A request that ends gives up the identifier it held for an insert, and no other
\* changes hands.
LEMMA ReplySpends ==
    ASSUME Inv, NEW r \in Slot, pc' = [pc EXCEPT ![r] = "answered"],
           UNCHANGED <<req, target, used>>
    PROVE  IF Creating(r) THEN target[r] \notin Spent /\ Spent' = Spent \cup {target[r]}
           ELSE Spent' = Spent
<1>1. \A k \in Slot : Creating(k)' <=> k # r /\ Creating(k)
  BY DEF Creating, Inv, TypeOK
<1>2. CASE Creating(r)
  <2>1. InFlight' = InFlight \ {target[r]}
    BY <1>1, <1>2 DEF InFlight, Creating, Inv, InsertsAreFresh
  <2>2. target[r] \in InFlight /\ target[r] \in used
    BY <1>2 DEF InFlight, Creating, Inv, InsertsAreFresh
  <2> QED BY <1>2, <2>1, <2>2 DEF Spent
<1>3. CASE ~ Creating(r)
  <2>1. InFlight' = InFlight
    BY <1>1, <1>3 DEF InFlight, Creating
  <2> QED BY <1>3, <2>1 DEF Spent
<1> QED BY <1>2, <1>3

LEMMA AnswerImplements ==
    ASSUME Inv, NEW r \in Slot, pc[r] # "idle", pc' = [pc EXCEPT ![r] = "answered"],
           UNCHANGED <<campaigns, events, req, target, used>>
    PROVE  [Aggregate!Next]_Aggregate!vars
<1>1. CASE Creating(r)
  <2>1. target[r] \in Cid \cup Eid
    BY <1>1 DEF Creating, Inv, RequestsHold, Holds, CampaignOps, EventOps
  <2>2. Aggregate!Discard(target[r])
    BY <1>1, ReplySpends DEF Spent, Aggregate!Discard
  <2> QED BY <2>1, <2>2 DEF Aggregate!Next
<1>2. CASE ~ Creating(r)
  BY <1>2, ReplySpends DEF Spent, Aggregate!vars
<1> QED BY <1>1, <1>2

LEMMA ReturnImplements ==
    ASSUME Inv, NEW r \in Slot, pc[r] # "idle", NEW err, Return(r, err)
    PROVE  [Aggregate!Next]_Aggregate!vars
BY AnswerImplements DEF Return, Reply, locals

LEMMA ArriveImplements ==
    ASSUME Inv, NEW r \in Slot, Arrive(r)
    PROVE  [Aggregate!Next]_Aggregate!vars
<1>1. PICK q \in Requests : CreateCampaign(r, q) \/ Accept(r, q)
  BY DEF Arrive
<1>2. pc[r] = "idle" /\ ~ Creating(r)
  BY <1>1 DEF CreateCampaign, Accept, Creating
<1>3. /\ UNCHANGED tables
      /\ \A k \in Slot \ {r} : /\ pc'[k] = pc[k] /\ req'[k] = req[k]
                              /\ target'[k] = target[k]
  BY <1>1 DEF CreateCampaign, Accept, Send, Reply, Inv, TypeOK
<1>4. CASE CreateCampaign(r, q)
  <2>1. PICK c \in Cid \ used :
             used' = used \cup {c} /\ target' = [target EXCEPT ![r] = c]
    BY <1>4 DEF CreateCampaign
  <2>2. target'[r] = c
    BY <2>1 DEF Inv, TypeOK
  <2> QED BY <1>2, <1>3, <2>1, <2>2, MoveDiscardsAtMost
<1>5. CASE Accept(r, q)
  <2>1. used' = used
    BY <1>5 DEF Accept
  <2>2. ~ Creating(r)'
    BY <1>5 DEF Accept, Creating, FirstStatement, Send, Reply, Inv, TypeOK
  <2> QED BY <1>2, <1>3, <2>1, <2>2, MoveDiscardsAtMost
<1> QED BY <1>1, <1>4, <1>5

LEMMA ReadImplements ==
    ASSUME Inv, NEW r \in Slot, Read(r)
    PROVE  [Aggregate!Next]_Aggregate!vars
<1>1. pc[r] \in {"read", "count", "exists"} /\ ~ Creating(r)
  BY DEF Read, GetCampaign, UpdateCampaign, CountEvents, GetEvent, CreateEvent,
         UpdateEvent, At, Creating
<1>2. CASE \E err \in {"none", "ErrNotFound", "ErrInvalidArgument", "ErrCampaignNotFound"} :
            Return(r, err)
  BY <1>1, <1>2, ReturnImplements
<1>3. CASE /\ Send(r, "write")
           /\ UNCHANGED <<tables, used, req, target>>
           /\ req[r].op # "CreateEvent" /\ req[r].op # "CreateCampaign"
  <2>1. ~ Creating(r)'
    BY <1>3 DEF Creating
  <2> QED BY <1>1, <1>3, <2>1, MoveDiscardsAtMost DEF Send, Inv, TypeOK
<1>4. ASSUME NEW e \in Eid \ used, used' = used \cup {e},
             target' = [target EXCEPT ![r] = e], Send(r, "write"),
             UNCHANGED <<tables, req>>
      PROVE  [Aggregate!Next]_Aggregate!vars
  <2>1. target'[r] = e
    BY <1>4 DEF Inv, TypeOK
  <2> QED BY <1>1, <1>4, <2>1, MoveDiscardsAtMost DEF Send, Inv, TypeOK
<1>5. CASE GetCampaign(r) \/ GetEvent(r)
  BY <1>2, <1>5 DEF GetCampaign, GetEvent
<1>6. CASE UpdateCampaign(r) \/ UpdateEvent(r) \/ CountEvents(r)
  BY <1>2, <1>3, <1>6 DEF UpdateCampaign, UpdateEvent, CountEvents, At
<1>7. CASE CreateEvent(r)
  BY <1>2, <1>4, <1>7 DEF CreateEvent
<1> QED BY <1>5, <1>6, <1>7 DEF Read

LEMMA WriteImplements ==
    ASSUME Inv, NEW r \in Slot, Write(r)
    PROVE  [Aggregate!Next]_Aggregate!vars
<1> DEFINE c == target[r]
<1>1. pc[r] = "write"
  BY DEF Write, InsertCampaign, WriteCampaign, RemoveCampaign, InsertEvent, WriteEvent,
         RemoveEvent, At
<1>2. CASE \E err \in {"ErrNotFound", "ErrCampaignNotFound", "CheckViolation"} : Return(r, err)
  BY <1>1, <1>2, ReturnImplements
<1>3. ASSUME NEW ids, Committed(r, ids)
      PROVE  IF Creating(r) THEN c \notin Spent /\ Spent' = Spent \cup {c}
             ELSE Spent' = Spent
  BY <1>3, ReplySpends DEF Committed, Reply, locals
<1>4. CASE InsertCampaign(r) \/ WriteCampaign(r)
  <2> DEFINE row == StoredCampaign(entity[r])
  <2>1. c \in Cid /\ entity[r] \in CampaignRow
    BY <1>1, <1>4 DEF InsertCampaign, WriteCampaign, At, Inv, RequestsHold, Holds, CampaignOps
  <2>2. CASE ~ ChecksHold(row) \/ \E err \in {"ErrNotFound"} : Return(r, err)
    BY <1>2, <1>4, <2>2 DEF InsertCampaign, WriteCampaign
  <2>3. CASE /\ ChecksHold(row)
             /\ campaigns' = [campaigns EXCEPT ![c] = row]
             /\ Committed(r, {c})
             /\ UNCHANGED events
    <3>1. row \in CampaignRow
      BY <2>1, <2>3, StoredCampaignType
    <3>2. CASE InsertCampaign(r)
      <4>1. Aggregate!InsertCampaign(c)
        BY <1>1, <1>3, <2>3, <3>1, <3>2
           DEF InsertCampaign, At, Creating, Spent, Aggregate!InsertCampaign
      <4> QED BY <2>1, <4>1 DEF Aggregate!Next
    <3>3. CASE WriteCampaign(r) /\ campaigns[c] # Nil
      <4>1. Aggregate!OverwriteCampaign(c)
        BY <1>3, <2>3, <3>1, <3>3
           DEF WriteCampaign, At, Creating, Spent, Aggregate!OverwriteCampaign
      <4> QED BY <2>1, <4>1 DEF Aggregate!Next
    <3>4. CASE WriteCampaign(r) /\ campaigns[c] = Nil
      BY <1>2, <3>4 DEF WriteCampaign
    <3> QED BY <1>4, <3>2, <3>3, <3>4
  <2> QED BY <1>4, <2>2, <2>3 DEF InsertCampaign, WriteCampaign
<1>5. CASE RemoveCampaign(r) /\ campaigns[c] # Nil
  <2>1. c \in Cid
    BY <1>1, <1>5 DEF RemoveCampaign, At, Inv, RequestsHold, Holds, CampaignOps
  <2>2. Aggregate!RemoveCampaign(c)
    BY <1>3, <1>5 DEF RemoveCampaign, At, Creating, Spent, EventsOf,
                      Aggregate!RemoveCampaign, Aggregate!EventsOf
  <2> QED BY <2>1, <2>2 DEF Aggregate!Next
<1>6. CASE InsertEvent(r) /\ campaigns[entity[r].campaign] # Nil
  <2>1. c \in Eid /\ entity[r] \in EventRow
    BY <1>1, <1>6 DEF InsertEvent, At, Inv, RequestsHold, Holds, EventOps
  <2>2. /\ StoredEvent(entity[r]) \in EventRow
        /\ StoredEvent(entity[r]).campaign = entity[r].campaign
    BY <2>1, StoredEventType, EventRowType DEF StoredEvent
  <2>3. Aggregate!InsertEvent(c)
    BY <1>1, <1>3, <1>6, <2>2 DEF InsertEvent, At, Creating, Spent, Aggregate!InsertEvent
  <2> QED BY <2>1, <2>3 DEF Aggregate!Next
<1>7. CASE WriteEvent(r) /\ events[c] # Nil
  <2> DEFINE old == events[c]
             new == StoredEvent(entity[r])
             row == [old EXCEPT !.name = new.name, !.occurredAt = new.occurredAt]
  <2>1. c \in Eid /\ entity[r] \in EventRow
    BY <1>1, <1>7 DEF WriteEvent, At, Inv, RequestsHold, Holds, EventOps
  <2>2. new \in EventRow /\ old \in EventRow
    BY <1>7, <2>1, StoredEventType DEF Inv, TypeOK, Maybe
  <2>3. row \in EventRow /\ row.campaign = old.campaign
    BY <2>2, EventRowType
  <2>4. events' = [events EXCEPT ![c] = row]
    BY <1>7, <2>1, <2>2, EventRowType DEF WriteEvent, Inv, TypeOK
  <2>5. Aggregate!OverwriteEvent(c)
    BY <1>3, <1>7, <2>3, <2>4
       DEF WriteEvent, At, Creating, Spent, Aggregate!OverwriteEvent
  <2> QED BY <2>1, <2>5 DEF Aggregate!Next
<1>8. CASE RemoveEvent(r) /\ events[c] # Nil
  <2>1. c \in Eid
    BY <1>1, <1>8 DEF RemoveEvent, At, Inv, RequestsHold, Holds, EventOps
  <2>2. Aggregate!RemoveEvent(c)
    BY <1>3, <1>8 DEF RemoveEvent, At, Creating, Spent, Aggregate!RemoveEvent
  <2> QED BY <2>1, <2>2 DEF Aggregate!Next
<1> QED BY <1>2, <1>4, <1>5, <1>6, <1>7, <1>8
        DEF Write, RemoveCampaign, InsertEvent, WriteEvent, RemoveEvent

LEMMA NextImplements ==
    ASSUME Inv, [Next]_vars
    PROVE  [Aggregate!Next]_Aggregate!vars
<1>1. ASSUME NEW r \in Slot, Fail(r)
      PROVE  [Aggregate!Next]_Aggregate!vars
  <2>1. /\ pc[r] # "idle" /\ pc' = [pc EXCEPT ![r] = "answered"]
        /\ UNCHANGED <<campaigns, events, req, target, used>>
    BY <1>1 DEF Fail, Reply, tables, locals
  <2> QED BY <2>1, AnswerImplements
<1>2. CASE UNCHANGED vars
  BY <1>2 DEF vars, Aggregate!vars, InFlight
<1> QED BY <1>1, <1>2, ArriveImplements, ReadImplements, WriteImplements DEF Next

\* The tables under the service behave as CampaignAggregate says: an id is stored
\* once, an update never brings a deleted row back, an event never changes its
\* campaign, and a campaign goes together with exactly its events.
THEOREM Implementation == Spec => AggregateKept
<1>1. Init => Aggregate!Init
  <2> SUFFICES ASSUME Init PROVE Aggregate!Init
    OBVIOUS
  <2>1. InFlight = {}
    BY DEF Init, InFlight
  <2> QED BY <2>1 DEF Init, Maybe, Aggregate!Init, Aggregate!NoOrphanEvents,
                      Aggregate!StoredIds
<1> QED BY <1>1, Invariance, NextImplements, PTL
        DEF Spec, AggregateKept, Aggregate!Spec

=============================================================================
