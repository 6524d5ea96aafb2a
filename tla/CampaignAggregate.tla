------------------------- MODULE CampaignAggregate -------------------------
(***************************************************************************)
(* What the campaign service promises of its two tables, with no mention   *)
(* of requests, statements or failures: a campaign row comes into being    *)
(* once, under an id that was never used before; whatever is written over  *)
(* it is a row the domain accepts; an event exists only under a campaign,  *)
(* stays under the one it was created in, and goes when that campaign goes.*)
(* CampaignStore, which models internal/campaign over internal/postgres,   *)
(* is shown to implement this specification.                               *)
(***************************************************************************)

CONSTANTS
    Cid,          \* identifiers campaigns can be given
    Eid,          \* identifiers events can be given
    CampaignRow,  \* the campaign rows the domain accepts
    EventRow,     \* the event rows the domain accepts; row.campaign is the parent
    Nil           \* no row

VARIABLES
    campaigns,    \* campaigns[c]: the row stored under c, or Nil
    events,       \* events[e]: the row stored under e, or Nil
    spent         \* identifiers that can no longer be given to a new row

vars == <<campaigns, events, spent>>

EventsOf(c) == {e \in Eid : events[e] # Nil /\ events[e].campaign = c}

NoOrphanEvents ==
    \A e \in Eid : events[e] # Nil => campaigns[events[e].campaign] # Nil

StoredIds ==
    {c \in Cid : campaigns[c] # Nil} \cup {e \in Eid : events[e] # Nil}

\* The tables hold anything earlier requests can have left in them.
Init ==
    /\ campaigns \in [Cid -> CampaignRow \cup {Nil}]
    /\ events \in [Eid -> EventRow \cup {Nil}]
    /\ NoOrphanEvents
    /\ spent \in SUBSET (Cid \cup Eid)
    /\ StoredIds \subseteq spent

\* An identifier is drawn for a row that is then never stored.
Discard(id) ==
    /\ id \notin spent
    /\ spent' = spent \cup {id}
    /\ UNCHANGED <<campaigns, events>>

InsertCampaign(c) ==
    /\ c \notin spent
    /\ \E row \in CampaignRow : campaigns' = [campaigns EXCEPT ![c] = row]
    /\ spent' = spent \cup {c}
    /\ UNCHANGED events

OverwriteCampaign(c) ==
    /\ campaigns[c] # Nil
    /\ \E row \in CampaignRow : campaigns' = [campaigns EXCEPT ![c] = row]
    /\ UNCHANGED <<events, spent>>

\* A campaign and every event under it go in the same instant.
RemoveCampaign(c) ==
    /\ campaigns[c] # Nil
    /\ campaigns' = [campaigns EXCEPT ![c] = Nil]
    /\ events' = [e \in Eid |-> IF e \in EventsOf(c) THEN Nil ELSE events[e]]
    /\ UNCHANGED spent

InsertEvent(e) ==
    /\ e \notin spent
    /\ \E row \in EventRow :
          /\ campaigns[row.campaign] # Nil
          /\ events' = [events EXCEPT ![e] = row]
    /\ spent' = spent \cup {e}
    /\ UNCHANGED campaigns

OverwriteEvent(e) ==
    /\ events[e] # Nil
    /\ \E row \in EventRow :
          /\ row.campaign = events[e].campaign
          /\ events' = [events EXCEPT ![e] = row]
    /\ UNCHANGED <<campaigns, spent>>

RemoveEvent(e) ==
    /\ events[e] # Nil
    /\ events' = [events EXCEPT ![e] = Nil]
    /\ UNCHANGED <<campaigns, spent>>

Next ==
    \/ \E id \in Cid \cup Eid : Discard(id)
    \/ \E c \in Cid : InsertCampaign(c) \/ OverwriteCampaign(c) \/ RemoveCampaign(c)
    \/ \E e \in Eid : InsertEvent(e) \/ OverwriteEvent(e) \/ RemoveEvent(e)

Spec == Init /\ [][Next]_vars
=============================================================================
