----------------------------- MODULE EventLife -----------------------------
(***************************************************************************)
(* What one event request promises its organiser and ConnectSphere, said   *)
(* over its status and its coordinator alone: a request goes out only from *)
(* its organiser's hands, nobody decides one that was not opened, a        *)
(* request returned or rejected keeps its coordinator, a coordinator can   *)
(* be replaced but only an assignment that never got into the history is   *)
(* taken back, and a completed or cancelled event stays so.  EventRequests *)
(* implements it (see ImplementsEventLife there).                          *)
(***************************************************************************)
CONSTANTS Coordinators, Nobody

VARIABLES status, coordinator

lifeVars == <<status, coordinator>>

WithOrganiser == {"draft", "rejected", "needs_clarification"}
Arranging     == {"planning", "awaiting_safety_check", "safety_rejected",
                  "preparation", "confirmed"}
Live          == {"submitted", "under_review", "needs_clarification",
                  "approved"} \cup Arranging

LifeInit == status = "absent" /\ coordinator = Nobody

(* The status moves from one of a set to another; the coordinator stays. *)
Moves(from, to) == /\ status \in from
                   /\ status' \in to
                   /\ UNCHANGED coordinator

Created == Moves({"absent"}, {"draft"})
Deleted == Moves({"draft"}, {"deleted"})

Submitted == Moves(WithOrganiser,
                   {IF coordinator = Nobody THEN "unassigned" ELSE "submitted"})

Assigned == /\ status = "unassigned" /\ coordinator = Nobody
            /\ status' = "submitted" /\ coordinator' \in Coordinators

Reassigned == /\ status \in Live /\ coordinator # Nobody
              /\ coordinator' \in Coordinators
              /\ UNCHANGED status

TakenBack == /\ status = "submitted" /\ coordinator # Nobody
             /\ status' = "unassigned" /\ coordinator' = Nobody

Opened   == coordinator # Nobody /\ Moves({"submitted"}, {"under_review"})
Returned == coordinator # Nobody /\ Moves({"under_review"}, {"needs_clarification"})
Resumed  == coordinator # Nobody /\ Moves({"needs_clarification"}, {"under_review"})
Decided  == coordinator # Nobody /\ Moves({"under_review"}, {"approved", "rejected"})
Arranged == coordinator # Nobody /\ Moves({"approved"} \cup Arranging, Arranging)

Completed == coordinator # Nobody
             /\ Moves({"preparation", "confirmed"}, {"completed"})
Cancelled == coordinator # Nobody /\ Moves(Live, {"cancelled"})

LifeNext == \/ Created \/ Deleted \/ Submitted
            \/ Assigned \/ Reassigned \/ TakenBack
            \/ Opened \/ Returned \/ Resumed \/ Decided
            \/ Arranged \/ Completed \/ Cancelled

LifeSpec == LifeInit /\ [][LifeNext]_lifeVars
=============================================================================
