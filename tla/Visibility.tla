----------------------------- MODULE Visibility -----------------------------
(***************************************************************************)
(* Whom an event waits on, which lists name it to whom, and who may read   *)
(* its stage and its history.  Each list and each read decides for itself, *)
(* over its own copy of the statuses: routes in TypeScript, the work queue *)
(* view, the search, the safety list and the history's row policy in SQL.  *)
(* Everything here is a function of the rows one request reads, so an      *)
(* initial state is one event and one caller.                              *)
(***************************************************************************)
EXTENDS FiniteSets, Permissions, NoValue

CONSTANT People     \* accounts

ASSUME NoneIsNobody == None \notin People \cup Roles

VARIABLES watched,  \* a row of public.events, with what the lists join to it
          caller    \* the account asking, the role it acts as, all it holds

visibilityVars == <<watched, caller>>

Organiser  == "event_organiser"
Holder     == "event_coordinator"
Lead       == "event_coordinator_lead"
Officer    == "safety_officer"
VenueStaff == "venue_staff"

Submittable == {"draft", "rejected", "needs_clarification"}
Requestable == {"approved", "planning", "awaiting_safety_check"}
Settled     == {"completed", "cancelled", "rejected"}
Held        == {"submitted", "under_review", "needs_clarification", "safety_rejected",
                "preparation", "confirmed"} \cup Requestable
Assignable  == Held \cup {"unassigned"}
Statuses    == Assignable \cup Submittable \cup Settled

-----------------------------------------------------------------------------
(* The stage: the role an event waits on and what that role is to do. *)

WaitingOn(status) ==
  CASE status \in {"draft", "needs_clarification"}   -> <<Organiser, "submit">>
    [] status = "unassigned"                         -> <<Lead, "assign">>
    [] status \in {"submitted", "under_review"}      -> <<Holder, "review">>
    [] status \in {"approved", "planning"}           -> <<Holder, "arrange">>
    [] status = "awaiting_safety_check"              -> <<Officer, "check">>
    [] status = "safety_rejected"                    -> <<Holder, "rework">>
    [] status = "preparation"                        -> <<Holder, "confirm">>
    [] OTHER                                         -> <<None, None>>

(* The account the stage names; a Lead and a Safety Officer are a team. *)
WaitingAccount(e) == CASE WaitingOn(e.status)[1] = Organiser -> e.organiser
                       [] WaitingOn(e.status)[1] = Holder    -> e.coordinator
                       [] OTHER                              -> None

Awaited(c, e) == /\ c.role = WaitingOn(e.status)[1]
                 /\ WaitingAccount(e) \in {None, c.account}

(* The statuses in which the route for that action goes ahead. *)
Accepts(action) == CASE action = "submit"  -> Submittable
                     [] action = "assign"  -> Assignable
                     [] action = "review"  -> {"submitted", "under_review"}
                     [] action = "arrange" -> Requestable
                     [] action = "check"   -> {"awaiting_safety_check"}
                     [] action = "rework"  -> {"safety_rejected"}
                     [] action = "confirm" -> {"preparation"}

-----------------------------------------------------------------------------
(* The relationship rule, written twice. *)

SAFETY_STATUSES ==
  {"awaiting_safety_check", "safety_rejected", "preparation", "confirmed", "completed"}

HasEventRelationship(role, account, e) ==
  CASE role = Organiser  -> e.organiser = account
    [] role = Holder     -> e.coordinator = account
    [] role = Lead       -> e.status # "draft"
    [] role = Officer    -> e.status \in SAFETY_STATUSES
    [] role = VenueStaff -> e.venue # "none"
    [] role = Technical  -> e.equipment # "none"
    [] OTHER             -> FALSE

(* The database asks, besides, that the account hold the role. *)
RelationshipExists(role, c, e) ==
  /\ role \in c.roles
  /\ \/ role = Organiser  /\ e.organiser = c.account
     \/ role = Holder     /\ e.coordinator = c.account
     \/ role = Lead       /\ e.status # "draft"
     \/ role = VenueStaff /\ e.venue \in {"pending", "decided", "booked", "clashing"}
     \/ role = Technical  /\ e.equipment \in {"pending", "decided", "reserved"}
     \/ role = Officer    /\ e.status \in {"awaiting_safety_check", "safety_rejected",
                                           "preparation", "confirmed", "completed"}

ReadsStage(c, e) == c.role # "attendee" /\ HasEventRelationship(c.role, c.account, e)

(* Which entries of the history a caller gets: the planning notes are kept *)
(* from the client's side.  The route looks at the role acted as, the row  *)
(* policy of the table at each role the account holds.                     *)
RouteHistory(c, e) ==
  IF c.role = "attendee" \/ ~HasEventRelationship(c.role, c.account, e) THEN {}
  ELSE IF c.role \in Internal THEN {"planning_notes", "other"} ELSE {"other"}

TableHistory(c, e) ==
  {entry \in {"planning_notes", "other"} :
     \E role \in c.roles : /\ RelationshipExists(role, c, e)
                           /\ entry = "planning_notes" => role \in Internal}

-----------------------------------------------------------------------------
(* The lists that name an event. *)

(* An organiser sees the events of the organisation; a colleague's only to read. *)
OrganisationList(c, e) == c.role = Organiser /\ c.colleague
OwnList(c, e)          == OrganisationList(c, e) /\ e.organiser = c.account

(* MUTANT of InternalWorkItems: without the rejected by Safety.            *)
InternalWorkItemsUntilChecked(audience, e) ==
  \/ audience = Holder /\ e.status \in Assignable \ {"safety_rejected"}
  \/ /\ e.status \in Assignable \ {"needs_clarification"}
     /\ \/ audience = VenueStaff /\ e.venue = "pending"
        \/ audience = Technical  /\ e.equipment \in {"pending", "reserved"}

(* The view has a row per event, pending venue request and open equipment  *)
(* request, each for an audience; a coordinator reads the events they hold. *)
InternalWorkItems(audience, e) ==
  \/ /\ audience = Holder
     /\ \/ e.status \in {"unassigned", "submitted", "under_review", "needs_clarification"}
        \/ e.coordinator # None /\ e.status \in Assignable
  \/ /\ e.status \in Assignable \ {"needs_clarification"}
     /\ \/ audience = VenueStaff /\ e.venue = "pending"
        \/ audience = Technical  /\ e.equipment \in {"pending", "reserved"}

WorkQueue(c, e) == /\ c.role \in {Holder, VenueStaff, Technical}
                   /\ InternalWorkItems(c.role, e)
                   /\ c.role = Holder => e.coordinator = c.account

UnassignedQueue(c, e) == c.role = Lead /\ e.status = "unassigned" /\ e.coordinator = None
Overview(c, e)        == c.role = Lead /\ e.supervisor = c.account /\ e.status \in Held
SafetyCheckQueue(c, e) == c.role = Officer /\ e.status = "awaiting_safety_check"

SearchEvents(c, e) ==
  c.role \in Internal /\ e.status # "draft" /\ RelationshipExists(c.role, c, e)

(* MUTANT of ClashesFor: a coordinator sees the others' rows too.          *)
ClashesForAnyone(c, e) ==
  /\ e.venue = "clashing"
  /\ \/ c.role = VenueStaff
     \/ c.role = Holder /\ c.account \in {e.coordinator, e.beside}

(* Two bookings that clash are one row each way.  A coordinator sees the   *)
(* rows of bookings of their own, and the other side only when it is too.  *)
ClashesFor(c, e) ==
  /\ e.venue = "clashing"
  /\ \/ c.role = VenueStaff
     \/ c.role = Holder /\ e.coordinator = c.account
     \/ c.role = Holder /\ e.beside = c.account /\ e.coordinator = c.account

(* What a request overlaps is shown to a coordinator without its event. *)
ConflictsFor(c, e) ==
  /\ e.venue \in {"booked", "clashing"}
  /\ c.role = Holder => e.coordinator = c.account
  /\ c.role \in {VenueStaff, Holder}

Arrangements(c, e) == c.role = Holder /\ e.coordinator = c.account
Confirmation(c, e) ==
  /\ e.status \in {"confirmed", "completed"}
  /\ c.role \in {Organiser, Holder}
  /\ c.account = IF c.role = Organiser THEN e.organiser ELSE e.coordinator

Queued(c, e) == \/ OwnList(c, e) \/ WorkQueue(c, e)
                \/ UnassignedQueue(c, e) \/ SafetyCheckQueue(c, e)

Named(c, e) == \/ Queued(c, e) \/ Overview(c, e) \/ SearchEvents(c, e) \/ ClashesFor(c, e)
               \/ ConflictsFor(c, e) \/ Arrangements(c, e) \/ Confirmation(c, e)

-----------------------------------------------------------------------------
(* Rows the program can hold: EventRequests proves that nobody holds an     *)
(* event exactly while it is a draft or unassigned; a venue and equipment   *)
(* are asked for once it is approved (bound: one or the other).             *)
Early == {"unassigned", "submitted", "under_review"} \cup Submittable

Rows ==
  {e \in [status : Statuses, organiser : People, coordinator : People \cup {None},
          supervisor : People \cup {None}, beside : People \cup {None},
          venue : {"none", "pending", "decided", "booked", "clashing"},
          equipment : {"none", "pending", "decided", "reserved"}] :
     /\ e.coordinator = None <=> e.status \in {"draft", "unassigned"}
     /\ e.supervisor # None => e.coordinator # None
     /\ e.beside # None => e.venue = "clashing"
     /\ "none" \in {e.venue, e.equipment}
     /\ e.status \in Early => {e.venue, e.equipment} = {"none"}}

(* An account of one role or two (bound); an organisation is never changed, *)
(* so an organiser stays a colleague of their own event.                    *)
Callers(e) ==
  {c \in [account : People, role : Roles, colleague : BOOLEAN,
          roles : {{r, s} : r, s \in Roles}] :
     c.role \in c.roles /\ (c.account = e.organiser => c.colleague)}

VisibilityInit == watched \in Rows /\ caller \in Callers(watched)

-----------------------------------------------------------------------------
(* Whoever the stage says an event waits on finds the event in a queue of   *)
(* their own, may open its stage, and has a route that goes ahead in the    *)
(* event's status; and while it waits on a coordinator a Lead can hand it   *)
(* to another one, should that coordinator have lost the role.              *)
WaitingIsServed ==
  LET action == WaitingOn(watched.status)[2] IN
    /\ Awaited(caller, watched) => /\ Queued(caller, watched) /\ ReadsStage(caller, watched)
                                 /\ watched.status \in Accepts(action)
    /\ WaitingOn(watched.status)[1] = Holder /\ caller.role = Lead =>
         ReadsStage(caller, watched) /\ watched.status \in Accepts("assign")

(* The reads agree: an event named to someone is one whose stage and        *)
(* history they may open, no role reads through a route what the table      *)
(* would keep from the account, and an account of one role reads the same   *)
(* through both ("the two must change together").                           *)
ReadersAgree ==
  /\ Named(caller, watched) => ReadsStage(caller, watched) /\ RouteHistory(caller, watched) # {}
  /\ RouteHistory(caller, watched) \subseteq TableHistory(caller, watched)
  /\ caller.roles = {caller.role} =>
       RouteHistory(caller, watched) = TableHistory(caller, watched)
=============================================================================
