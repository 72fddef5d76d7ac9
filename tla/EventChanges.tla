---------------------------- MODULE EventChanges ----------------------------
(***************************************************************************)
(* The later life of one event as its details change: planning edits and   *)
(* accepted change requests, the rechecks both leave outstanding, the      *)
(* Safety Officer's review with its flags, the venues and the equipment    *)
(* requested meanwhile, and the confirmation.  A route reads the event,    *)
(* decides, and writes in a later database call; the database functions it *)
(* calls lock the event row and are one step each, their triggers          *)
(* included.  Holds, blocks and changes of one booking for another are     *)
(* VenueBooking's.                                                         *)
(***************************************************************************)
CONSTANTS Bookings,  \* venue requests there can be
          Loans,     \* equipment requests there can be
          Versions,  \* what the details a safety review shows may be
          Equipped,  \* those of them that ask for equipment, all for the same
          NoVersion, \* none of them
          Requests,  \* change requests of the event
          Calls      \* slots for the routes in flight at one time

ASSUME TwoKinds == Bookings \cap Loans = {}

VARIABLES event,       \* the row of public.events
          arranged,    \* the status of each venue and equipment request
          flagged,     \* the requests with an open row in safety_rereviews
          decision,    \* the latest safety decision, and the details it was made on
          requests,    \* rows of event_change_requests, with whether applied
          calls,       \* the routes in flight
          current      \* calls whose safety_check_revision is still the event's

vars == <<event, arranged, flagged, decision, requests, calls, current>>

Changeable        == {"approved", "planning", "awaiting_safety_check", "preparation",
                      "confirmed"}
ReturnsToPlanning == {"awaiting_safety_check", "preparation", "confirmed"}
Unplannable       == {"cancelled", "completed", "rejected"}
Locked            == {"preparation", "confirmed"}
Arrangeable       == {"approved", "planning", "awaiting_safety_check"}
Decidable         == {"approved", "planning"}
Lendable        == {"approved", "planning", "confirmed"}
Status            == Changeable \cup {"safety_rejected", "completed", "cancelled"}

(* A withdrawn, released or called off request is as none; an approved loan *)
(* is reserved and has its place, an unplaced one is only reserved.         *)
Slots     == Bookings \cup Loans
Arranged  == {"none", "pending", "rejected", "unplaced", "approved"}
Kinds     == {"venue", "equipment"}
KindOf(a) == IF a \in Bookings THEN "venue" ELSE "equipment"

(* The recheck keys: one per kind of arrangement for a changed event, and   *)
(* one per kind the Safety Officer may name, "other" among them.            *)
Recheck(kind) == [for |-> "change", of |-> kind]
Safety(named) == [for |-> "safety", of |-> named]
Keys          == {Recheck(k) : k \in Kinds} \cup {Safety(n) : n \in Kinds \cup {"other"}}

Live(a) == arranged[a] \notin {"none", "rejected"}

(* What is arranged for the event already. *)
Facts == {KindOf(a) : a \in {x \in Slots : Live(x)}}

-----------------------------------------------------------------------------
(* The triggers of public.events. *)

VenuesInPlace(all) ==
  /\ \E b \in Bookings : all[b] # "none"
  /\ \A b \in Bookings : all[b] \in {"none", "approved"}

EquipmentInPlace(shown, all) ==
  /\ \A l \in Loans : all[l] \in {"none", "approved"}
  /\ shown \in Equipped => \E l \in Loans : all[l] # "none"

Ready(row, all) ==
  /\ row.rechecks = {}
  /\ VenuesInPlace(all)
  /\ EquipmentInPlace(row.shown, all)

Refreshed(row, all) ==
  CASE row.status \in {"approved", "planning"} /\ Ready(row, all) ->
         [row EXCEPT !.status = "awaiting_safety_check"]
    [] row.status = "awaiting_safety_check" /\ ~Ready(row, all) ->
         [row EXCEPT !.status = "planning"]
    [] OTHER -> row

(* MUTANT of Refreshes: the trigger as it was, on changed rechecks alone.   *)
RefreshesOnRechecks(old, new) == new.rechecks # old.rechecks

(* A write of the row is followed by the refresh when the rechecks or the   *)
(* equipment asked for changed.                                             *)
Refreshes(old, new) == \/ new.rechecks # old.rechecks
                       \/ (new.shown \in Equipped) # (old.shown \in Equipped)

Awaits(row) == row.status = "awaiting_safety_check"

(* MUTANT of Revised: changed details are no new revision.                 *)
RevisedOnMoveOnly(old, new) == Awaits(old) # Awaits(new)

(* safety_check_revision only grows, so of a review it matters only whether *)
(* the event still has the revision the review was read with.               *)
Revised(old, new) == \/ Awaits(old) # Awaits(new)
                     \/ Awaits(new) /\ new.shown # old.shown

(* A write of the event row, with the refresh it brings or the call asks for. *)
Saved(row, asked) ==
  LET refreshed == asked \/ Refreshes(event, row)
      end       == IF refreshed THEN Refreshed(row, arranged) ELSE row IN
    /\ event' = end
    /\ current' = IF Revised(event, row) \/ Revised(row, end) \/ (refreshed /\ Awaits(end))
                    THEN {} ELSE current

(* A write of an arrangement: the event is refreshed, and one that stays in *)
(* the check is another revision of it.                                     *)
ArrangementSaved(all, row) ==
  /\ arranged' = all
  /\ event' = Refreshed(row, all)
  /\ current' = IF Awaits(event) \/ Awaits(event') THEN {} ELSE current

-----------------------------------------------------------------------------
(* A route in flight: what it does, with which input, and what it read. *)

Call(kind, at, input, status, rechecks, shown) ==
  [kind |-> kind, at |-> at, input |-> input,
   status |-> status, rechecks |-> rechecks, shown |-> shown]

Idle == Call("none", "none", {}, "none", {}, NoVersion)

Begin(c, call)    == calls[c] = Idle /\ calls' = [calls EXCEPT ![c] = call]
At(c, kind, at)   == calls[c].kind = kind /\ calls[c].at = at
Goes(c, at)       == calls' = [calls EXCEPT ![c].at = at]
Ends(c)           == calls' = [calls EXCEPT ![c] = Idle]
RowKept           == UNCHANGED <<event, current>>
ArrangementsKept  == UNCHANGED <<arranged, flagged, decision>>

-----------------------------------------------------------------------------
(* The coordinator's planning edit.  A date or a larger attendance affects  *)
(* what is arranged already, the other answers do not.                      *)

PlanningUpdates == [field : {"date", "answer"}, to : Versions]

Affected(edit) ==
  IF edit.field = "date" /\ edit.to # event.shown THEN {Recheck(k) : k \in Facts} ELSE {}

(* What it will write is settled here: the rechecks it read and its own when *)
(* it has any, and Planning when it has any or the event was approved.  The  *)
(* details of a locked event may be sent again as they are, no others.       *)
EditRead(c) ==
  \E edit \in PlanningUpdates :
    LET impact == Affected(edit) IN
      /\ event.status \notin Unplannable
      /\ event.status \in Locked => edit.to = event.shown
      /\ Begin(c, Call("edit", "write", {},
                       IF impact # {} \/ event.status = "approved" THEN "planning" ELSE "none",
                       IF impact # {} THEN event.rechecks \cup impact ELSE {},
                       edit.to))
      /\ UNCHANGED requests /\ RowKept /\ ArrangementsKept

(* Written over whatever the event is by then, the equipment it asks for    *)
(* included: only the assignment is a condition.  A trigger refuses to move *)
(* a cancelled event.                                                       *)
EditWrite(c) ==
  /\ At(c, "edit", "write")
  /\ LET call   == calls[c]
         edited == [event EXCEPT !.shown = call.shown,
                                 !.rechecks = IF call.rechecks # {} THEN call.rechecks ELSE @,
                                 !.status = IF call.status # "none" THEN call.status ELSE @] IN
       IF event.status = "cancelled" /\ call.status # "none"
         THEN RowKept
         ELSE Saved(edited, FALSE)
  /\ Ends(c)
  /\ UNCHANGED requests /\ ArrangementsKept

Edit(c) == EditRead(c) \/ EditWrite(c)

-----------------------------------------------------------------------------
(* Change requests: raised by the organiser, decided by the coordinator.    *)

Raise(r) ==
  /\ event.status \notin {"cancelled", "rejected", "completed"}
  /\ requests[r].state = "none"
  /\ \E to \in Versions \ {event.shown}, significant \in BOOLEAN :
       /\ (to \in Equipped) # (event.shown \in Equipped) => significant
       /\ requests' = [requests EXCEPT ![r] = [state |-> "pending", to |-> to,
                                               significant |-> significant, applied |-> FALSE]]
  /\ UNCHANGED calls /\ RowKept /\ ArrangementsKept

(* A significant change affects whatever is arranged, a new name nothing.   *)
Impact(r) == IF requests[r].significant THEN Facts ELSE {}

AcceptRead(c) ==
  \E r \in Requests :
    /\ requests[r].state = "pending"
    /\ event.status \in Changeable
    /\ Begin(c, Call("accept", "apply", {r}, event.status,
                     {Recheck(k) : k \in Impact(r)}, NoVersion))
    /\ UNCHANGED requests /\ RowKept /\ ArrangementsKept

(* What the Safety Officer approved is no longer so. *)
ApprovalWithdrawn(r) ==
  requests[r].significant /\ requests[r].to # event.shown /\ event.status \in Locked

Applied(r, added) ==
  [event EXCEPT !.shown = requests[r].to,
                !.rechecks = @ \cup added,
                !.status = IF \/ added # {} /\ @ \in ReturnsToPlanning \cup {"approved"}
                              \/ ApprovalWithdrawn(r)
                             THEN "planning" ELSE @]

(* Applying looks at the status it expects, never at the request's own.     *)
AcceptApply(c) ==
  /\ At(c, "accept", "apply")
  /\ \E r \in calls[c].input :
       LET added == calls[c].rechecks IN
         IF event.status = calls[c].status
           THEN /\ Saved(Applied(r, added), ApprovalWithdrawn(r) /\ added = {})
                /\ requests' = [requests EXCEPT ![r].applied = TRUE]
                /\ Goes(c, "record")
           ELSE Ends(c) /\ RowKept /\ UNCHANGED requests
  /\ ArrangementsKept

(* The decision is recorded in a call of its own, whose refusal is ignored. *)
AcceptRecord(c) ==
  /\ At(c, "accept", "record")
  /\ requests' = [r \in Requests |->
                    IF r \in calls[c].input /\ requests[r].state = "pending"
                      THEN [requests[r] EXCEPT !.state = "accepted"] ELSE requests[r]]
  /\ Ends(c)
  /\ RowKept /\ ArrangementsKept

Accept(c) == AcceptRead(c) \/ AcceptApply(c) \/ AcceptRecord(c)

(* A request with the history line of an accepted one is refused no more.   *)
Refuse(r) ==
  /\ requests[r].state = "pending"
  /\ ~requests[r].applied
  /\ requests' = [requests EXCEPT ![r].state = "refused"]
  /\ UNCHANGED calls /\ RowKept /\ ArrangementsKept

-----------------------------------------------------------------------------
(* Settling a recheck.  The arrangements are compared with the event as it  *)
(* was read before; settle_arrangement_recheck looks only at the key and    *)
(* the open flags, and leaves a key that has gone meanwhile.                *)

KindsOf(these) == {KindOf(a) : a \in these}

Settle(key) ==
  /\ key \in event.rechecks
  /\ ~(key.for = "safety" /\ key.of \in KindsOf(flagged))
  /\ Saved([event EXCEPT !.rechecks = @ \ {key}], FALSE)
  /\ UNCHANGED <<requests, calls>> /\ ArrangementsKept

-----------------------------------------------------------------------------
(* The Safety Officer.  A review is a revision of the event and of what it  *)
(* shows; the decision is refused on any other revision.                    *)

ReviewRead(c) ==
  /\ Awaits(event)
  /\ Begin(c, Call("review", "decide", {}, "none", {}, event.shown))
  /\ current' = current \cup {c}
  /\ UNCHANGED <<event, requests>> /\ ArrangementsKept

Outcome(kind) == CASE kind = "approve" -> "preparation"
                   [] kind = "reject"  -> "safety_rejected"
                   [] OTHER            -> "planning"

(* Naming a kind flags its live requests.  One request holds one open flag: *)
(* naming it again while it does fails.                                     *)
SafetyDecision(c) ==
  /\ At(c, "review", "decide")
  /\ IF Awaits(event) /\ c \in current
       THEN \E kind \in {"approve", "reject", "request_changes"},
               named \in SUBSET ((Kinds \ KindsOf(flagged)) \cup {"other"}) :
              /\ (kind = "request_changes") <=> (named # {})
              /\ decision' = [kind |-> kind, shown |-> calls[c].shown]
              /\ flagged' = flagged \cup {a \in Slots : Live(a) /\ KindOf(a) \in named}
              /\ Saved([event EXCEPT !.status = Outcome(kind),
                                     !.rechecks = @ \cup {Safety(n) : n \in named}], FALSE)
       ELSE RowKept /\ UNCHANGED <<decision, flagged>>
  /\ Ends(c)
  /\ UNCHANGED <<arranged, requests>>

Review(c) == ReviewRead(c) \/ SafetyDecision(c)

Rework ==
  /\ event.status = "safety_rejected"
  /\ Saved([event EXCEPT !.status = "planning",
                         !.rechecks = @ \cup {Safety("other")}], FALSE)
  /\ UNCHANGED <<requests, calls>> /\ ArrangementsKept

(* Keys of the Safety Officer that no open flag holds any more. *)
Settleable(open) == {Safety(k) : k \in Kinds \ KindsOf(open)}

ConfirmAgain(a) ==
  /\ a \in flagged
  /\ flagged' = flagged \ {a}
  /\ Saved([event EXCEPT !.rechecks = @ \ Settleable(flagged')], FALSE)
  /\ UNCHANGED <<arranged, decision, requests, calls>>

-----------------------------------------------------------------------------
(* Venues.  The coordinator's request is a route: the event was read as one *)
(* a venue can be requested for, whatever it is when the request is         *)
(* inserted.                                                                *)

RequestRead(c) ==
  /\ event.status \in Arrangeable
  /\ Begin(c, Call("request", "insert", {}, "none", {}, NoVersion))
  /\ UNCHANGED requests /\ RowKept /\ ArrangementsKept

RequestInsert(c) ==
  /\ At(c, "request", "insert")
  /\ \E b \in Bookings : /\ arranged[b] = "none"
                         /\ ArrangementSaved([arranged EXCEPT ![b] = "pending"], event)
  /\ Ends(c)
  /\ UNCHANGED <<flagged, decision, requests>>

AskForVenue(c) == RequestRead(c) \/ RequestInsert(c)

VenueApproved(b) ==
  /\ event.status \in Decidable
  /\ arranged[b] = "pending"
  /\ ArrangementSaved([arranged EXCEPT ![b] = "approved"], event)
  /\ UNCHANGED <<flagged, decision, requests, calls>>

(* A request that ends takes its flag, and the keys no other flag holds,    *)
(* with it.                                                                 *)
Ended(these, as, row) ==
  /\ flagged' = flagged \ these
  /\ ArrangementSaved([a \in Slots |-> IF a \in these THEN as ELSE arranged[a]],
       [row EXCEPT !.rechecks = IF flagged' # flagged THEN @ \ Settleable(flagged') ELSE @])
  /\ UNCHANGED <<decision, requests, calls>>

(* Only an approval looks at the event's status. *)
VenueRefused(b) == arranged[b] = "pending" /\ Ended({b}, "rejected", event)

Withdrawn(b) == arranged[b] \in {"pending", "rejected"} /\ Ended({b}, "none", event)

(* Bookings that are not over, as those of a completed event are: released  *)
(* from an event past the check, they send it back.                         *)
Released(these) ==
  /\ these # {} /\ \A b \in these : arranged[b] = "approved"
  /\ event.status # "completed"
  /\ Ended(these, "none",
           IF event.status \in Locked
             THEN [event EXCEPT !.status = "planning", !.rechecks = @ \cup {Recheck("venue")}]
             ELSE event)

(* Equipment.  Each is one database function, under the lock of the event.  *)

LoanRequested(l) ==
  /\ event.status \in Arrangeable
  /\ arranged[l] = "none"
  /\ ArrangementSaved([arranged EXCEPT ![l] = "pending"], event)
  /\ UNCHANGED <<flagged, decision, requests, calls>>

(* Reserved, with a place given before or not. *)
LoanReserved(l) ==
  /\ event.status \in Lendable
  /\ arranged[l] = "pending"
  /\ \E as \in {"unplaced", "approved"} :
       ArrangementSaved([arranged EXCEPT ![l] = as], event)
  /\ UNCHANGED <<flagged, decision, requests, calls>>

(* A reserved one is given a place, at a venue requested for the event, or  *)
(* has it taken away.                                                       *)
LoanPlaced(l) ==
  /\ event.status \in Arrangeable
  /\ arranged[l] \in {"unplaced", "approved"}
  /\ \E as \in {"unplaced", "approved"} :
       /\ as = "approved" => \E b \in Bookings : arranged[b] \in {"pending", "approved"}
       /\ ArrangementSaved([arranged EXCEPT ![l] = as], event)
  /\ UNCHANGED <<flagged, decision, requests, calls>>

-----------------------------------------------------------------------------
(* The end. *)

ConfirmEvent ==
  /\ event.status = "preparation"
  /\ decision.kind = "approve"
  /\ VenuesInPlace(arranged) /\ EquipmentInPlace(event.shown, arranged)
  /\ \A k \in Kinds : Recheck(k) \notin event.rechecks
  /\ Saved([event EXCEPT !.status = "confirmed"], FALSE)
  /\ UNCHANGED <<requests, calls>> /\ ArrangementsKept

Complete ==
  /\ event.status \in Locked
  /\ Saved([event EXCEPT !.status = "completed"], FALSE)
  /\ UNCHANGED <<requests, calls>> /\ ArrangementsKept

(* A refused venue request and reserved equipment keep their status; the    *)
(* rest is called off, and what is called off takes its flag with it.       *)
CalledOff == {b \in Bookings : arranged[b] \in {"pending", "approved"}}
             \cup {l \in Loans : arranged[l] = "pending"}

Cancel ==
  /\ event.status \notin Unplannable
  /\ arranged' = [a \in Slots |-> IF a \in CalledOff THEN "none" ELSE arranged[a]]
  /\ flagged' = flagged \ CalledOff
  /\ event' = [event EXCEPT !.status = "cancelled",
                            !.rechecks = IF flagged' = flagged THEN @ ELSE @ \ Settleable(flagged')]
  /\ current' = {}
  /\ UNCHANGED <<decision, requests, calls>>

CallLost(c) ==
  /\ calls[c] # Idle
  /\ Ends(c) /\ current' = current \ {c}
  /\ UNCHANGED <<event, requests>> /\ ArrangementsKept

-----------------------------------------------------------------------------
NothingUnderWay ==
  /\ arranged = [a \in Slots |-> "none"]
  /\ flagged = {}
  /\ decision = [kind |-> "none", shown |-> NoVersion]
  /\ requests = [r \in Requests |-> [state |-> "none", to |-> NoVersion,
                                     significant |-> FALSE, applied |-> FALSE]]
  /\ calls = [c \in Calls |-> Idle]
  /\ current = {}

ApprovedEvent(shown) == [status |-> "approved", rechecks |-> {}, shown |-> shown]

Init == (\E v \in Versions : event = ApprovedEvent(v)) /\ NothingUnderWay

Next ==
  \/ \E c \in Calls : \/ Edit(c) \/ Accept(c) \/ Review(c) \/ AskForVenue(c) \/ CallLost(c)
  \/ \E key \in Keys : Settle(key)
  \/ \E r \in Requests : Raise(r) \/ Refuse(r)
  \/ \E b \in Bookings : VenueApproved(b) \/ VenueRefused(b) \/ Withdrawn(b)
  \/ \E these \in SUBSET Bookings : Released(these)
  \/ \E l \in Loans : LoanRequested(l) \/ LoanReserved(l) \/ LoanPlaced(l)
  \/ \E a \in Slots : ConfirmAgain(a)
  \/ Rework \/ ConfirmEvent \/ Complete \/ Cancel

Spec == Init /\ [][Next]_vars
-----------------------------------------------------------------------------
(* Types: every variable stays in its domain. *)
Event == [status : Status, rechecks : SUBSET Keys, shown : Versions]

Decision == [kind : {"none", "approve", "reject", "request_changes"},
             shown : Versions \cup {NoVersion}]

Request == [state : {"none", "pending", "accepted", "refused"},
            to : Versions \cup {NoVersion}, significant : BOOLEAN, applied : BOOLEAN]

CallRecord == [kind : {"none", "edit", "accept", "review", "request"},
               at : {"none", "write", "apply", "record", "decide", "insert"},
               input : SUBSET Requests, status : Status \cup {"none"},
               rechecks : SUBSET Keys, shown : Versions \cup {NoVersion}]

TypeOK == /\ event \in Event
          /\ arranged \in [Slots -> Arranged]
          /\ flagged \subseteq Slots
          /\ decision \in Decision
          /\ requests \in [Requests -> Request]
          /\ calls \in [Calls -> CallRecord]
          /\ current \subseteq Calls

(* What was approved for an event and stays so: it has no recheck, a venue,  *)
(* and its equipment in place.                                              *)
StillInPlace(row, all) ==
  /\ row.rechecks = {}
  /\ \E b \in Bookings : all[b] = "approved"
  /\ \A l \in Loans : all[l] \in {"none", "approved"}

(* An event in the safety check has everything in place, whatever late      *)
(* routes write to it or to its requests.  Past the check it keeps what was *)
(* approved; all that a route which read it before can leave outstanding is *)
(* another venue request, or equipment asked for that nobody requested.     *)
(* "The events refresh trigger also fires on equipment_requirements, so a   *)
(* coordinator who changes the text ... re-evaluates the hand-off at once"  *)
(* (202610290001).                                                          *)
CheckedStaysInPlace ==
  /\ Awaits(event) => Ready(event, arranged)
  /\ event.status \in Locked => StillInPlace(event, arranged)

(* The Safety Officer decides on the details the event has: a review read   *)
(* before a change is refused, however often the event left the check and   *)
(* came back meanwhile (safety_check_revision).                             *)
DecidedAsReviewed ==
  [][decision' # decision => decision'.shown = event.shown]_vars
=============================================================================
