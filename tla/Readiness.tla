----------------------------- MODULE Readiness -----------------------------
(***************************************************************************)
(* Which arrangements still stand between an event and its confirmation,   *)
(* computed twice: for the coordinator's panel from six separate reads     *)
(* (arrangementReadiness.ts), and by confirm_event.  The rows are those of *)
(* one event; they do not change here.                                     *)
(***************************************************************************)
EXTENDS Integers, FiniteSets, NoValue

VARIABLES eventRow,     \* the event: status, decision, needed, rechecks
          venueRows,    \* its venue requests, with the booking each led to
          equipmentRows \* its equipment requests, with their receipts

readinessVars == <<eventRow, venueRows, equipmentRows>>

-----------------------------------------------------------------------------
(* The rows the program writes.  A booking is reached from its request, or  *)
(* from the hold that was converted for it, and may have been cancelled     *)
(* since or be affected by a block of its venue.                            *)

VenueRows ==
  {v \in [status : {"pending", "rejected", "approved", "cancelled"}, direct : BOOLEAN,
          held : BOOLEAN, booking : {None, "confirmed", "cancelled"}, affected : BOOLEAN] :
     \/ v.status # "approved" /\ v.booking = None /\ ~v.direct /\ ~v.affected
     \/ v.status = "approved" /\ v.booking = "confirmed" /\ v.direct # v.held
     \/ /\ v.status \in {"approved", "cancelled"}
        /\ v.booking = "cancelled" /\ v.direct # v.held /\ ~v.affected}

EquipmentRows ==
  {q \in [status : {"pending", "approved", "cancelled"}, shortfall : {None, 0, 1},
          placed : BOOLEAN, receipt : BOOLEAN] :
     /\ q.receipt <=> q.status = "approved"
     /\ q.status = "approved" => q.shortfall = 0}

-----------------------------------------------------------------------------
(* The panel.  The facts are assembled first: which requests have a booking *)
(* that is still confirmed, which have a receipt.                           *)

ConfirmedBookings == {v \in venueRows : v.booking = "confirmed"}

EventArrangementFacts ==
  [venue_requests     |-> {[status |-> v.status, of |-> v,
                            booked |-> (v.direct \/ v.held) /\ v \in ConfirmedBookings] :
                             v \in venueRows},
   affected_bookings  |-> Cardinality({v \in ConfirmedBookings : v.affected}),
   equipment_requests |-> {[status |-> q.status, shortfall |-> q.shortfall, of |-> q,
                            placed |-> q.placed, reserved |-> q.receipt] : q \in equipmentRows}]

IsLive(request) == request.status \notin {"rejected", "cancelled"}

VenueTally(requests, affected) ==
  LET needed        == {v \in requests : v.status # "cancelled"}
      Count(status) == Cardinality({v \in needed : v.status = status}) IN
    [needed   |-> Cardinality(needed),
     approved |-> Count("approved"), pending |-> Count("pending"), rejected |-> Count("rejected"),
     unbooked |-> Cardinality({v \in needed : v.status = "approved" /\ ~v.booked}),
     affected |-> affected]

(* MUTANT of ComputeVenue: an approved request without booking passes.     *)
ComputeVenueApproved(facts) ==
  LET t == VenueTally(facts.venue_requests, facts.affected_bookings) IN
    IF t.needed > 0 /\ t.pending = 0 /\ t.rejected = 0 /\ t.affected = 0
      THEN "ready" ELSE "outstanding"

ComputeVenue(facts) ==
  LET t == VenueTally(facts.venue_requests, facts.affected_bookings) IN
    IF t.needed > 0 /\ t.pending = 0 /\ t.rejected = 0 /\ t.affected = 0 /\ t.unbooked = 0
      THEN "ready" ELSE "outstanding"

ComputeEquipment(facts, needed) ==
  LET live    == {q \in facts.equipment_requests : IsLive(q)}
      inPlace == {q \in live : q.reserved /\ q.placed /\ q.shortfall = 0} IN
    CASE live = {} /\ needed  -> "outstanding"
      [] live = {} /\ ~needed -> "not_required"
      [] OTHER -> IF inPlace = live THEN "ready" ELSE "outstanding"

(* Unset registration settings hold nothing up. *)
ComputeRegistration == "ready"

IsSafetyApproved == eventRow.status \in {"preparation", "confirmed"} /\ eventRow.decision = "approve"

ComputeSafety == IF IsSafetyApproved THEN "ready" ELSE "outstanding"

(* Registration is outstanding only through its recheck; a safety recheck   *)
(* names venue, equipment or other.                                         *)
ComputeArrangementReadiness ==
  LET facts == EventArrangementFacts
      Rechecked(key) == {<<"change", key>>, <<"safety", key>>} \cap eventRow.rechecks # {}
      State(key) == CASE Rechecked(key)      -> "outstanding"
                      [] key = "venue"        -> ComputeVenue(facts)
                      [] key = "equipment"    -> ComputeEquipment(facts, eventRow.needed)
                      [] key = "registration" -> ComputeRegistration
                      [] key = "safety"       -> ComputeSafety IN
    {key \in {"venue", "equipment", "registration", "safety"} : State(key) = "outstanding"}

-----------------------------------------------------------------------------
(* The database's own rules, over the rows themselves. *)

EquipmentPlaced(q) == q.placed /\ q.shortfall = 0 /\ q.receipt

VenueUnready ==
  \/ \A v \in venueRows : v.status = "cancelled"
  \/ \E v \in venueRows : v.status \in {"pending", "rejected"}
  \/ \E v \in venueRows : v.status = "approved" /\ v.booking # "confirmed"
  \/ \E v \in venueRows : v.booking = "confirmed" /\ v.affected

EquipmentUnready ==
  \/ \E q \in equipmentRows : IsLive(q) /\ ~EquipmentPlaced(q)
  \/ eventRow.needed /\ ~\E q \in equipmentRows : IsLive(q)

Confirmable == {"approved", "planning", "awaiting_safety_check", "safety_rejected", "preparation"}

ConfirmEventOutstanding ==
  {key \in {"venue", "equipment", "registration"} : <<"change", key>> \in eventRow.rechecks}
  \cup (IF VenueUnready THEN {"venue"} ELSE {})
  \cup (IF EquipmentUnready THEN {"equipment"} ELSE {})
  \cup (IF IsSafetyApproved THEN {} ELSE {"safety"})

-----------------------------------------------------------------------------
(* An event is in the safety check or past it with its rechecks settled     *)
(* (CheckedStaysInPlace of EventChanges), in Preparation by an approval.    *)
Rechecks == {{}} \cup {{<<by, key>>} : by \in {"change", "safety"},
                                       key \in {"venue", "equipment", "other"}}
                 \cup {{<<"change", "registration">>, <<"safety", "venue">>}}

EventRows ==
  {[status |-> status, decision |-> decision, needed |-> needed, rechecks |-> rechecks] :
     status \in {"planning", "safety_rejected"}, decision \in {None, "approve", "request_changes"},
     needed \in BOOLEAN, rechecks \in Rechecks \ {{<<"change", "other">>}}}
  \cup {[status |-> status, decision |-> "approve", needed |-> needed, rechecks |-> {}] :
     status \in {"preparation", "confirmed"}, needed \in BOOLEAN}

AtMostTwo(S) == {{}} \cup {{a, b} : a, b \in S}

ReadinessInit ==
  /\ eventRow \in EventRows
  /\ \/ venueRows \in AtMostTwo(VenueRows) /\ equipmentRows = {}
     \/ /\ venueRows = {v \in VenueRows : v.direct /\ v.booking = "confirmed" /\ ~v.affected}
        /\ equipmentRows \in AtMostTwo(EquipmentRows)

(* "the panel and the Confirm action never disagree" (arrangementReadiness.ts): *)
(* the panel says an event can be confirmed exactly when confirm_event finds    *)
(* nothing outstanding, whichever way its bookings and receipts are reached.    *)
PanelAgreesWithGate ==
  eventRow.status \in Confirmable =>
    (ComputeArrangementReadiness = {} <=> ConfirmEventOutstanding = {})
=============================================================================
