-------------------------- MODULE MCCampaignStore --------------------------
(***************************************************************************)
(* Small instances of CampaignStore: three requests over one stored        *)
(* campaign with one event, with ids left for one more campaign and two    *)
(* more events.  Every run starts from states CampaignStore's Init allows. *)
(***************************************************************************)
EXTENDS CampaignStore, TLC

CONSTANTS c1, c2, e1, e2, e3, n1, n2, draft, active

Plain(op, id) ==
    [op |-> op, id |-> id, name |-> Nil, status |-> Nil,
     startAt |-> Nil, endAt |-> Nil, clearStartAt |-> FALSE, clearEndAt |-> FALSE,
     occurredAt |-> Nil]

New(op, id) == [Plain(op, id) EXCEPT !.name = n1, !.status = Empty]

Creates ==
    {[New("CreateCampaign", Empty) EXCEPT !.startAt = 1, !.endAt = 2],
     [New("CreateCampaign", Empty) EXCEPT !.startAt = 0, !.endAt = 1],
     [New("CreateCampaign", Empty) EXCEPT !.startAt = 1, !.endAt = 1],
     New("CreateEvent", c1),
     [New("CreateEvent", c1) EXCEPT !.name = Empty]}

Updates ==
    {[Plain("UpdateCampaign", c1) EXCEPT !.name = n2],
     [Plain("UpdateCampaign", c1) EXCEPT !.startAt = 1],
     [Plain("UpdateCampaign", c1) EXCEPT !.endAt = 1],
     [Plain("UpdateCampaign", c1) EXCEPT !.startAt = 1, !.endAt = 2, !.clearStartAt = TRUE],
     [Plain("UpdateCampaign", c1) EXCEPT !.startAt = 2, !.clearEndAt = TRUE],
     [Plain("UpdateCampaign", c1) EXCEPT !.status = Empty],
     [Plain("UpdateCampaign", c1) EXCEPT !.name = Empty],
     [Plain("UpdateEvent", e1) EXCEPT !.name = n2],
     [Plain("UpdateEvent", e1) EXCEPT !.occurredAt = 1]}

Deletes == {Plain("DeleteCampaign", c1), Plain("DeleteEvent", e1)}

Gets == {Plain("GetCampaign", c1), Plain("GetCampaign", Empty), Plain("GetEvent", e1)}

AllRequests == Creates \cup Updates \cup Deletes \cup Gets

\* Updates of one campaign by two callers, each carrying one field.
TwoFields ==
    {[Plain("UpdateCampaign", c1) EXCEPT !.name = n2],
     [Plain("UpdateCampaign", c1) EXCEPT !.status = active]}

\* A delete among the event requests that change how many rows it removes.
DeleteAndCreate == {Plain("DeleteCampaign", c1), New("CreateEvent", c1)}

\* Windows one nanosecond wide, created and updated.
NarrowWindows ==
    {[New("CreateCampaign", Empty) EXCEPT !.startAt = 2, !.endAt = 3],
     [Plain("UpdateCampaign", c1) EXCEPT !.endAt = 1]}

StartCampaign == [name |-> n1, status |-> draft, startAt |-> 0, endAt |-> 2]

MCInit ==
    /\ campaigns = (c1 :> StartCampaign @@ c2 :> Nil)
    /\ events = (e1 :> [campaign |-> c1, name |-> n1, occurredAt |-> 0]
                 @@ e2 :> Nil @@ e3 :> Nil)
    /\ used = {c1, e1}
    /\ Init

MCSpec == MCInit /\ [][Next]_vars

Slots == Permutations(Slot)
=============================================================================
