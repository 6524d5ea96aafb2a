---------------------------- MODULE KeysetPaging ----------------------------
(***************************************************************************)
(* A client walks a list page by page: ListCampaigns, or ListEvents of one *)
(* campaign, with the token of each page in the request for the next.  The *)
(* table changes between its requests, and between the two statements of   *)
(* one ListEvents.                                                         *)
(*                                                                         *)
(* A row is its sort key: created_at for campaigns, which no statement     *)
(* changes after the insert, and occurred_at for events, which UpdateEvent *)
(* may move.  Ids are compared as PostgreSQL compares uuids, times as the  *)
(* columns hold them, so that a cursor read back from its token is the     *)
(* cursor that was encoded: RFC 3339 keeps every digit of it.              *)
(***************************************************************************)
EXTENDS Integers, FiniteSets

CONSTANTS
    Id,               \* uuids of rows, in their order
    Time,             \* instants
    DefaultPageSize, MaxPageSize,
    Sizes,            \* the page_size values clients send
    Nil

ASSUME KeyAssumption == Id \subseteq Nat /\ Time \subseteq Nat
ASSUME SizesAssumption ==
    /\ Sizes \subseteq Int
    /\ DefaultPageSize \in Nat \ {0} /\ MaxPageSize \in Nat \ {0}
    /\ DefaultPageSize <= MaxPageSize
ASSUME NilAssumption == Nil # "OK" /\ \A k \in [time : Time, id : Id] : k # Nil

Key == [time : Time, id : Id]

VARIABLES
    list,         \* which list is walked: "campaigns" or "events"
    mangles,      \* the client damages every token it sends
    exists,       \* the campaign whose events are walked is there
    rows,         \* the keys in the table
    used,         \* ids drawn so far
    pc,           \* the client's request
    limit,        \* Page.Size of the request being served
    cursor,       \* Page.Cursor of the next request; Nil on the first
    page,         \* the keys of the last page the client got
    answer,       \* the code of the last answer
    seen,         \* history: the keys of the pages before it
    still,        \* history: the keys in the table, unmoved, since the walk began
    known         \* history: the campaign was there when the request came

table == <<exists, rows, used, still>>
walk == <<pc, limit, cursor, page, answer, seen, known>>
vars == <<list, mangles, table, walk>>

\* ORDER BY time DESC, id DESC: a comes before b.
Newer(a, b) == a.time > b.time \/ (a.time = b.time /\ a.id > b.id)

\* Faulty Matches: the predicate compares the times alone.
MatchesTime(k) == cursor = Nil \/ cursor.time > k.time

\* Faulty Matches: the row of the cursor comes again.
MatchesInclusive(k) == cursor = Nil \/ Newer(cursor, k) \/ cursor = k

\* WHERE (time, id) < (cursor.time, cursor.id).
Matches(k) == cursor = Nil \/ Newer(cursor, k)

\* Faulty ClampPageSize: no cap.
ClampUnsetOnly(size) == IF size <= 0 THEN DefaultPageSize ELSE size

ClampPageSize(size) ==
    IF size <= 0 THEN DefaultPageSize
    ELSE IF size > MaxPageSize THEN MaxPageSize ELSE size

Matching == {k \in rows : Matches(k)}

\* Faulty Limited: the row asked for beyond the page is not cut off.
LimitedUncut(n) ==
    {k \in Matching : Cardinality({m \in Matching : Newer(m, k)}) <= n}

\* ORDER BY and LIMIT n over the rows that match.
Limited(n) ==
    {k \in Matching : Cardinality({m \in Matching : Newer(m, k)}) < n}

Init ==
    /\ list \in {"campaigns", "events"}
    /\ mangles \in BOOLEAN
    /\ exists \in BOOLEAN
    /\ list = "campaigns" => exists
    /\ rows \in SUBSET Key /\ IsFiniteSet(rows)
    /\ \A k, m \in rows : k.id = m.id => k = m
    /\ ~ exists => rows = {}
    /\ used \in SUBSET Id
    /\ \A k \in rows : k.id \in used
    /\ pc = "ready"
    /\ limit = 0
    /\ cursor = Nil
    /\ page = {}
    /\ answer = Nil
    /\ seen = {}
    /\ still = rows
    /\ known = FALSE

-----------------------------------------------------------------------------
(* The walk *)

End(code) ==
    /\ answer' = code
    /\ pc' = "ended"

\* Faulty Request: a token that does not parse starts from the top.
RequestFromTop ==
    /\ pc = "ready"
    /\ cursor' = IF mangles THEN Nil ELSE cursor
    /\ known' = exists
    /\ \E size \in Sizes : limit' = ClampPageSize(size)
    /\ pc' = IF list = "events" THEN "exists" ELSE "list"
    /\ UNCHANGED <<list, mangles, table, page, answer, seen>>

Damaged == mangles /\ cursor # Nil

\* ListCampaigns or ListEvents, up to its first statement.  A damaged token does not
\* parse, or it does and what it has for an id is no uuid, which DecodeCursor leaves to
\* the database to find out.
Request ==
    /\ pc = "ready"
    /\ known' = exists
    /\ \/ Damaged /\ End("InvalidArgument") /\ UNCHANGED limit
       \/ /\ \E size \in Sizes : limit' = ClampPageSize(size)
          /\ pc' = IF list = "events" THEN "exists" ELSE "list"
          /\ UNCHANGED answer
    /\ UNCHANGED <<list, mangles, table, cursor, page, seen>>

\* Faulty CheckCampaign: an unknown campaign has an empty list.
SkipCheck ==
    /\ pc = "exists"
    /\ pc' = "list"
    /\ UNCHANGED <<list, mangles, table, limit, cursor, page, answer, seen, known>>

\* The Exists statement of ListEvents.
CheckCampaign ==
    /\ pc = "exists"
    /\ IF exists THEN pc' = "list" /\ UNCHANGED answer ELSE End("NotFound")
    /\ UNCHANGED <<list, mangles, table, limit, cursor, page, seen, known>>

\* The database takes no other string for a uuid.
RefuseCursor ==
    /\ pc = "list" /\ Damaged
    /\ End("Internal")
    /\ UNCHANGED <<list, mangles, table, limit, cursor, page, seen, known>>

\* List or ListByCampaign: LIMIT asks for one row more than the page, so more than
\* limit rows come exactly when more match; the last row kept becomes the cursor.
ListPage ==
    /\ pc = "list" /\ ~ Damaged
    /\ seen' = seen \cup page
    /\ IF Cardinality(Matching) <= limit
       THEN /\ page' = Matching
            /\ End("OK")
            /\ UNCHANGED cursor
       ELSE /\ page' = Limited(limit)
            /\ \E last \in Limited(limit) :
                  /\ \A k \in Limited(limit) : k = last \/ Newer(k, last)
                  /\ cursor' = last
            /\ answer' = "OK"
            /\ pc' = "ready"
    /\ UNCHANGED <<list, mangles, table, limit, known>>

-----------------------------------------------------------------------------
(* The table, while the client walks *)

\* CreateCampaign or CreateEvent, with any time: an event's is the client's, and a
\* campaign's is stamped before its insert is visible.
Insert ==
    /\ exists
    /\ \E i \in Id \ used, t \in Time :
          /\ rows' = rows \cup {[time |-> t, id |-> i]}
          /\ used' = used \cup {i}
    /\ UNCHANGED <<list, mangles, exists, still, walk>>

Delete ==
    /\ \E k \in rows : rows' = rows \ {k} /\ still' = still \ {k}
    /\ UNCHANGED <<list, mangles, exists, used, walk>>

\* Faulty MoveEvent: a campaign's key moves too.
MoveAny ==
    /\ \E k \in rows : \E t \in Time \ {k.time} :
          /\ rows' = (rows \ {k}) \cup {[k EXCEPT !.time = t]}
          /\ still' = still \ {k}
    /\ UNCHANGED <<list, mangles, exists, used, walk>>

\* UpdateEvent with an occurred_at.
MoveEvent ==
    /\ list = "events"
    /\ \E k \in rows : \E t \in Time \ {k.time} :
          /\ rows' = (rows \ {k}) \cup {[k EXCEPT !.time = t]}
          /\ still' = still \ {k}
    /\ UNCHANGED <<list, mangles, exists, used, walk>>

\* DeleteCampaign of the campaign whose events are walked.
DeleteParent ==
    /\ list = "events" /\ exists
    /\ exists' = FALSE
    /\ rows' = {}
    /\ still' = {}
    /\ UNCHANGED <<list, mangles, used, walk>>

Client == Request \/ CheckCampaign \/ RefuseCursor \/ ListPage

Writers == Insert \/ Delete \/ MoveEvent \/ DeleteParent

Next == Client \/ Writers

\* The client goes on, and its statements are answered.
Spec == Init /\ [][Next]_vars /\ WF_vars(Client)

-----------------------------------------------------------------------------
(* Properties *)

\* The types of the state; no page size goes past the cap.
TypeOK ==
    /\ list \in {"campaigns", "events"} /\ mangles \in BOOLEAN
    /\ exists \in BOOLEAN /\ known \in BOOLEAN
    /\ rows \in SUBSET Key /\ used \in SUBSET Id
    /\ pc \in {"ready", "exists", "list", "ended"}
    /\ limit \in 0 .. MaxPageSize
    /\ cursor \in Key \cup {Nil}
    /\ page \in SUBSET Key /\ seen \in SUBSET Key /\ still \in SUBSET Key
    /\ answer \in {Nil, "OK", "InvalidArgument", "NotFound", "Internal"}

Complete == pc = "ended" /\ answer = "OK"

\* The pages descend: every row of a page comes after every row of the pages before,
\* whatever was inserted, deleted or moved between them.
PagesDescend == \A k \in seen, m \in page : Newer(k, m)

\* A page never holds more rows than its size, and one that comes with a token holds
\* as many: the row fetched to see whether more follow is in neither.
PagesAreFull ==
    /\ pc \in {"ready", "ended"} /\ answer = "OK" => Cardinality(page) <= limit
    /\ pc = "ready" /\ cursor # Nil => Cardinality(page) = limit

\* A walk that reaches the end has delivered every row that was there, at the same
\* place, from its beginning; pages that descend deliver it once.
NothingStillIsSkipped == Complete => still \subseteq seen \cup page

\* No campaign comes twice, on one page or on two.
NoCampaignTwice ==
    list = "campaigns" =>
        \A k, m \in seen \cup page : k.id = m.id => k = m

\* A campaign that was not there when the request came is reported, and never answered
\* with a page.
UnknownCampaignIsReported ==
    pc \in {"ready", "ended"} /\ answer = "OK" => known

\* What a page says of the request it answers: the campaign was there, no row beyond
\* the size it was given came along, and a token comes with a full page only.
PagesFitTheRequest == UnknownCampaignIsReported /\ PagesAreFull

\* A walk ends, also while rows keep coming and for a client that damages its tokens.
WalkEnds == <>(pc = "ended")

\* "a cursor on the pair (which is unique, since ID is) cannot skip or repeat a row"
\* (Cursor), said of the keys of both lists.
CursorNeverRepeats == \A k, m \in seen \cup page : k.id = m.id => k = m
=============================================================================
