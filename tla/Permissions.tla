---------------------------- MODULE Permissions ----------------------------
(***************************************************************************)
(* Who may ask for what: the permissions of the routes, and the roles the  *)
(* database functions behind them check for themselves.                    *)
(***************************************************************************)
Technical == "technical_support_staff"

(* From the least privileged to the most. *)
DefaultOrder == <<"attendee", "event_organiser", "safety_officer", "event_coordinator_lead",
                  "event_coordinator", "venue_staff", Technical>>

Roles == {DefaultOrder[i] : i \in DOMAIN DefaultOrder}

-----------------------------------------------------------------------------
(* The two tables that have to agree: the permissions of the routes that    *)
(* end in a database function with a role check of its own, and that check. *)

Grants(role, actions) == {<<action, role>> : action \in actions}

Internal == {"event_coordinator", "venue_staff", Technical, "event_coordinator_lead", "safety_officer"}

PERMISSIONS ==
  Grants("event_coordinator",
    {"venue_bookings.release", "venue_booking.withdraw", "event_request.confirm",
     "event_request.cancel", "notifications.reminders.manage", "venues.holds.read",
     "equipment_requirements.read", "equipment_requirements.request"})
  \cup Grants("venue_staff",
    {"venue_booking.decide", "venues.holds.read", "venues.holds.manage"})
  \cup Grants(Technical,
    {"users.role.update", "venues.holds.read", "equipment.reservations.manage",
     "equipment_requirements.read", "equipment_requirements.arrange"})
  \cup Grants("safety_officer", {"equipment_requirements.read", "safety_checks.read"})
  \cup Grants("event_organiser", {"event_request.cancellation.request"})
  \cup Grants("attendee", {"events.registrable.read", "events.register",
                           "registrations.mine.read", "registrations.withdraw"})
  \cup {<<"events.search", role>> : role \in Internal}

Actions == {grant[1] : grant \in PERMISSIONS}

FunctionRoles(action) ==
  CASE action \in {"venue_bookings.release", "venue_booking.withdraw", "event_request.confirm",
                   "event_request.cancel", "notifications.reminders.manage",
                   "equipment_requirements.request"}              -> {"event_coordinator"}
    [] action \in {"venue_booking.decide", "venues.holds.manage"} -> {"venue_staff"}
    [] action = "venues.holds.read"           -> {"venue_staff", "event_coordinator", Technical}
    [] action = "equipment_requirements.read" -> {"event_coordinator", Technical, "safety_officer"}
    [] action \in {"users.role.update", "equipment.reservations.manage",
                   "equipment_requirements.arrange"}              -> {Technical}
    [] action = "safety_checks.read"                              -> {"safety_officer"}
    [] action = "event_request.cancellation.request"              -> {"event_organiser"}
    [] action = "events.search"                                   -> Internal
    [] OTHER                                                      -> {"attendee"}

(* MUTANT of PermissionsFor: a Lead has those of coordinators.             *)
PermissionsInherited(role) ==
  {action \in Actions : \/ <<action, role>> \in PERMISSIONS
                        \/ /\ role = "event_coordinator_lead"
                           /\ <<action, "event_coordinator">> \in PERMISSIONS}

PermissionsFor(role) == {action \in Actions : <<action, role>> \in PERMISSIONS}

=============================================================================
