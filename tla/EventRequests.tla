--------------------------- MODULE EventRequests ---------------------------
(***************************************************************************)
(* The early life of one event: the organiser drafts, submits, answers and *)
(* resubmits it (server/src/events), the Lead gives it a coordinator, the  *)
(* coordinator opens, returns and decides it, and it ends completed or     *)
(* cancelled.  The handlers run concurrently and none holds a lock: each   *)
(* is a sequence of separate database calls (server/src/db), so a handler  *)
(* is here a call in flight that holds what it read.  Every write is one   *)
(* guarded UPDATE, and a call may die before any of its database calls.    *)
(***************************************************************************)
EXTENDS FiniteSets

CONSTANTS Coordinators,  \* accounts holding event_coordinator, not the organiser
          Leads,         \* accounts holding event_coordinator_lead
          Calls,         \* slots for the requests in flight at one time
          Nobody         \* a null account id

ASSUME RequestConstants == Nobody \notin Coordinators \cup Leads

VARIABLES event,         \* the row of public.events
          calls          \* the requests in flight: [Calls -> call record]

vars == <<event, calls>>

Editable    == {"draft"}
Submittable == {"draft", "rejected", "needs_clarification"}
Completable == {"preparation", "confirmed"}
Closed      == {"completed", "cancelled", "rejected"}
Arrangement == {"planning", "awaiting_safety_check", "safety_rejected"} \cup Completable
Assignable  == {"unassigned", "submitted", "under_review", "needs_clarification",
                "approved"} \cup Arrangement
Overseen    == Assignable \ {"unassigned"}
EventStatus == Submittable \cup Assignable \cup Closed
NoRow       == {"absent", "deleted"}

-----------------------------------------------------------------------------
(* A call in flight: what it does, the database call it is about to make,  *)
(* who makes it, the coordinator it assigns, and the row as it read it.    *)

Call(kind, at, who, to, row) ==
  [kind |-> kind, at |-> at, who |-> who, to |-> to, status |-> row.status,
   coordinator |-> row.coordinator, supervisor |-> Nobody]

Unread == [status |-> "absent", coordinator |-> Nobody]
Idle   == Call("none", "none", Nobody, Nobody, Unread)

Begin(c, call)   == calls[c] = Idle /\ calls' = [calls EXCEPT ![c] = call]
At(c, kind, at)  == calls[c].kind = kind /\ calls[c].at = at
Goes(c, at)      == calls' = [calls EXCEPT ![c].at = at]
Ends(c)          == calls' = [calls EXCEPT ![c] = Idle]

(* A guarded UPDATE: the row becomes `row` and the call goes on to `next`; *)
(* when the guard matches no row the handler answers and nothing is written. *)
Write(c, guard, row, next) ==
  IF guard THEN event' = row /\ Goes(c, next)
           ELSE Ends(c) /\ UNCHANGED event

(* The last database calls of a handler write history and notices only. *)
Tells(c, kind, at, next) == At(c, kind, at) /\ Goes(c, next) /\ UNCHANGED event
Answers(c, kind, at)     == At(c, kind, at) /\ Ends(c) /\ UNCHANGED event

-----------------------------------------------------------------------------
(* The organiser's draft. *)

(* Whether every required field is filled in is all that is kept of the *)
(* nine fields; a draft may leave any of them blank. *)
NewDraft(complete) ==
  [status |-> "draft", coordinator |-> Nobody, supervisor |-> Nobody,
   complete |-> complete, asked |-> FALSE]

CreateDraft(c) ==
  /\ calls[c] = Idle
  /\ event.status = "absent"
  /\ \E complete \in BOOLEAN : event' = NewDraft(complete)
  /\ UNCHANGED calls

UpdateDraftRead(c) ==
  /\ event.status \in Editable
  /\ Begin(c, Call("update", "write", Nobody, Nobody, Unread))
  /\ UNCHANGED event

(* The database function replaces the whole row while it is a draft or back *)
(* with the organiser: blank values are accepted. *)
UpdateDraftWrite(c) ==
  /\ At(c, "update", "write")
  /\ IF event.status \in {"draft", "needs_clarification"}
       THEN \E complete \in BOOLEAN : event' = [event EXCEPT !.complete = complete]
       ELSE UNCHANGED event
  /\ Ends(c)

UpdateDraft(c) == UpdateDraftRead(c) \/ UpdateDraftWrite(c)

DeleteDraftRead(c) ==
  /\ event.status = "draft"
  /\ Begin(c, Call("delete", "write", Nobody, Nobody, Unread))
  /\ UNCHANGED event

DeleteDraftWrite(c) ==
  /\ At(c, "delete", "write")
  /\ event' = IF event.status = "draft"
                THEN [event EXCEPT !.status = "deleted", !.complete = FALSE]
                ELSE event
  /\ Ends(c)

DeleteDraft(c) == DeleteDraftRead(c) \/ DeleteDraftWrite(c)

-----------------------------------------------------------------------------
(* Submission: two guarded writes, tried one after the other. *)

SubmitRead(c) ==
  /\ event.status \in Submittable
  /\ event.complete
  /\ Begin(c, Call("submit", "unheld", Nobody, Nobody, Unread))
  /\ UNCHANGED event

SubmitUnheld(c) ==
  /\ At(c, "submit", "unheld")
  /\ IF event.status \in Submittable /\ event.coordinator = Nobody
       THEN /\ event' = [event EXCEPT !.status = "unassigned"]
            /\ Goes(c, "record")
       ELSE Goes(c, "held") /\ UNCHANGED event

(* MUTANT of SubmitHeld: only a draft goes back to its coordinator.        *)
SubmitHeldDraft(c) ==
  /\ At(c, "submit", "held")
  /\ Write(c, event.status = "draft" /\ event.coordinator # Nobody,
           [event EXCEPT !.status = "submitted"], "record")

SubmitHeld(c) ==
  /\ At(c, "submit", "held")
  /\ Write(c, event.status \in Submittable /\ event.coordinator # Nobody,
           [event EXCEPT !.status = "submitted"], "record")

SubmitTells(c) == \/ Tells(c, "submit", "record", "notify")
                  \/ Answers(c, "submit", "notify")

Submit(c) == SubmitRead(c) \/ SubmitUnheld(c) \/ SubmitHeld(c) \/ SubmitTells(c)

-----------------------------------------------------------------------------
(* The coordinator's review.  The coordinator and the status are conditions *)
(* of the write itself. *)

OpenReview(c) ==
  \E who \in Coordinators :
    /\ event.coordinator = who
    /\ event.status = "submitted"
    /\ Begin(c, Call("review", "record", who, Nobody, Unread))
    /\ event' = [event EXCEPT !.status = "under_review"]

StartReview(c) == OpenReview(c) \/ Answers(c, "review", "record")

DecideWrite(c) ==
  \E who \in Coordinators, decision \in {"approved", "rejected"} :
    /\ event.coordinator = who
    /\ event.status = "under_review"
    /\ Begin(c, Call("decide", "record", who, Nobody, Unread))
    /\ event' = [event EXCEPT !.status = decision]

Decide(c) == \/ DecideWrite(c)
             \/ Tells(c, "decide", "record", "notify")
             \/ Answers(c, "decide", "notify")

(* A message in the clarification thread.  Posted by the coordinator of an  *)
(* event read under review it first returns the event to its organiser; any *)
(* other message only joins the thread. *)
ClarifyRead(c) ==
  \E who \in Coordinators :
    /\ event.coordinator = who
    /\ Begin(c, Call("clarify",
                     IF event.status = "under_review" THEN "write" ELSE "message",
                     who, Nobody, Unread))
    /\ UNCHANGED event

(* MUTANT of ClarifyWrite: the notice's kind is written as the status.     *)
ClarifyWriteNoticeKind(c) ==
  /\ At(c, "clarify", "write")
  /\ Write(c, event.coordinator = calls[c].who /\ event.status = "under_review",
           [event EXCEPT !.status = "clarification_requested"], "record")

ClarifyWrite(c) ==
  /\ At(c, "clarify", "write")
  /\ Write(c, event.coordinator = calls[c].who /\ event.status = "under_review",
           [event EXCEPT !.status = "needs_clarification"], "record")

Clarify(c) == \/ ClarifyRead(c) \/ ClarifyWrite(c)
              \/ Tells(c, "clarify", "record", "notify")
              \/ Tells(c, "clarify", "notify", "message")
              \/ Answers(c, "clarify", "message")

-----------------------------------------------------------------------------
(* The Lead's assignment.  An assignment whose history rows cannot be       *)
(* written is undone by a second guarded write, whose outcome nobody reads. *)

FirstAssignment(call) == call.status = "unassigned"

AssignRead(c) ==
  \E lead \in Leads, to \in Coordinators :
    /\ event.status \in Assignable
    /\ event.coordinator # to
    /\ Begin(c, Call("assign", "supervisor", lead, to, event))
    /\ UNCHANGED event

AssignSupervisor(c) ==
  /\ At(c, "assign", "supervisor")
  /\ calls' = [calls EXCEPT ![c].at = "write", ![c].supervisor = event.supervisor]
  /\ UNCHANGED event

(* UPDATE ... SET coordinator, assigned_by [, status = to] WHERE the status *)
(* is `from`, or any assignable one, AND the coordinator is `expected`.     *)
AssignEventCoordinator(c, coordinator, by, expected, moves, from, to, next) ==
  Write(c, /\ IF moves THEN event.status = from ELSE event.status \in Assignable
           /\ event.coordinator = expected,
        [event EXCEPT !.coordinator = coordinator,
                      !.supervisor = IF coordinator = Nobody THEN Nobody ELSE by,
                      !.status = IF moves THEN to ELSE event.status],
        next)

AssignWrite(c) ==
  /\ At(c, "assign", "write")
  /\ LET call == calls[c] IN
       AssignEventCoordinator(c, call.to, call.who, call.coordinator,
                              FirstAssignment(call), "unassigned", "submitted", "record")

AssignRecord(c) == \/ Tells(c, "assign", "record", "notify")
                   \/ Tells(c, "assign", "record", "undo")

(* MUTANT of AssignUndo: the status it was moved to is left.               *)
AssignUndoStatusKept(c) ==
  /\ At(c, "assign", "undo")
  /\ LET call == calls[c] IN
       AssignEventCoordinator(c, call.coordinator, call.supervisor, call.to,
                              FALSE, "submitted", "unassigned", "failed")

AssignUndo(c) ==
  /\ At(c, "assign", "undo")
  /\ LET call == calls[c] IN
       AssignEventCoordinator(c, call.coordinator, call.supervisor, call.to,
                              FirstAssignment(call), "submitted", "unassigned", "failed")

Assign(c) == \/ AssignRead(c) \/ AssignSupervisor(c) \/ AssignWrite(c)
             \/ AssignRecord(c) \/ AssignUndo(c)
             \/ Answers(c, "assign", "notify") \/ Answers(c, "assign", "failed")

(* The coordinator accepts a change the organiser asked for while the       *)
(* request is back with them: its value, never a blank one, is written and  *)
(* the request returns to review, or waits to be resubmitted.  One database *)
(* function, under the event's lock; what the route read decides nothing.   *)
AcceptOnClarification ==
  /\ event.status = "needs_clarification"
  /\ event.coordinator \in Coordinators
  /\ \E next \in {"under_review", "needs_clarification"}, complete \in {event.complete, TRUE} :
       event' = [event EXCEPT !.status = next, !.complete = complete]
  /\ UNCHANGED calls

-----------------------------------------------------------------------------
(* The end of the event. *)

RequestCancellation ==
  /\ event.status \notin NoRow \cup Closed \cup {"draft"}
  /\ ~event.asked
  /\ event' = [event EXCEPT !.asked = TRUE]
  /\ UNCHANGED calls

CancelEvent ==
  /\ event.coordinator \in Coordinators
  /\ event.status \notin Closed
  /\ event.asked
  /\ event' = [event EXCEPT !.status = "cancelled"]
  /\ UNCHANGED calls

CompleteRead(c) ==
  \E who \in Coordinators :
    /\ event.coordinator = who
    /\ event.status \in Completable
    /\ Begin(c, Call("complete", "write", who, Nobody, event))
    /\ UNCHANGED event

(* MUTANT of CompleteWrite: whatever the event has become.                 *)
CompleteWriteUnpinned(c) ==
  /\ At(c, "complete", "write")
  /\ Write(c, event.coordinator = calls[c].who,
           [event EXCEPT !.status = "completed"], "record")

(* The bookings are over.  Written only over the status read, and its history row may be lost. *)
CompleteWrite(c) ==
  /\ At(c, "complete", "write")
  /\ Write(c, event.coordinator = calls[c].who /\ event.status = calls[c].status,
           [event EXCEPT !.status = "completed"], "record")

Complete(c) == CompleteRead(c) \/ CompleteWrite(c) \/ Answers(c, "complete", "record")

(* The arrangements move an approved event between the later statuses: the  *)
(* modules about them say when.  Here any of those moves may happen.        *)
ArrangementsMove ==
  /\ event.status \in {"approved"} \cup Arrangement
  /\ \E to \in Arrangement : event' = [event EXCEPT !.status = to]
  /\ UNCHANGED calls

(* A database call fails or the server dies: the handler answers 503 or not *)
(* at all, and what it has not written yet is never written.                *)
CallLost(c) == calls[c] # Idle /\ Ends(c) /\ UNCHANGED event

-----------------------------------------------------------------------------
Init == /\ event = [status |-> "absent", coordinator |-> Nobody,
                    supervisor |-> Nobody, complete |-> FALSE, asked |-> FALSE]
        /\ calls = [c \in Calls |-> Idle]

Next == \/ \E c \in Calls :
             \/ CreateDraft(c) \/ UpdateDraft(c) \/ DeleteDraft(c)
             \/ Submit(c) \/ StartReview(c) \/ Decide(c) \/ Clarify(c)
             \/ Assign(c) \/ Complete(c) \/ CallLost(c)
        \/ AcceptOnClarification
        \/ RequestCancellation \/ CancelEvent \/ ArrangementsMove

Spec == Init /\ [][Next]_vars

-----------------------------------------------------------------------------
(* What each screen's read returns of the event. *)

OnAssignmentQueue    == event.status = "unassigned" /\ event.coordinator = Nobody
OfferedForAssignment == event.status \in Assignable

(* MUTANT of OnWorkQueue: not while its organiser is to answer.            *)
OnWorkQueueUntilAnswered(who) ==
  event.coordinator = who /\ event.status \in Assignable \ {"needs_clarification"}

OnWorkQueue(who) == event.coordinator = who /\ event.status \in Assignable

InOverview(lead) == event.supervisor = lead /\ event.status \in Overseen

-----------------------------------------------------------------------------
(* Types: every variable stays in its domain. *)
Row == [status : EventStatus \cup NoRow, coordinator : Coordinators \cup {Nobody},
        supervisor : Leads \cup {Nobody}, complete : BOOLEAN, asked : BOOLEAN]

CallRecord ==
  [kind : {"none", "update", "delete", "submit", "review", "decide", "clarify",
           "assign", "complete"},
   at : {"none", "write", "unheld", "held", "record", "notify", "message",
         "supervisor", "undo", "failed"},
   who : Coordinators \cup Leads \cup {Nobody}, to : Coordinators \cup {Nobody},
   status : EventStatus \cup NoRow, coordinator : Coordinators \cup {Nobody},
   supervisor : Leads \cup {Nobody}]

TypeOK == event \in Row /\ calls \in [Calls -> CallRecord]

(* An event has no coordinator exactly while it is a draft or waits for the *)
(* Lead, whatever assignments, undone assignments, submissions and reviews  *)
(* overlap: db/eventRequests.ts says an assignment undone without its       *)
(* status would leave one "in `submitted` with no coordinator".             *)
Unheld(row) == row.status \in NoRow \cup {"draft", "unassigned"}

HeldUnlessUnassigned == Unheld(event) <=> event.coordinator = Nobody

(* No event on its way is out of everybody's sight: it is on the Lead's     *)
(* assignment queue, or on the work queue of the coordinator who holds it,  *)
(* while its organiser is to answer too.                                    *)
SomebodySeesIt ==
  event.status \in Assignable =>
    OnAssignmentQueue \/ \E who \in Coordinators : OnWorkQueue(who)

(* A submission is refused after its second write only because the event    *)
(* has left the organiser's hands meanwhile: db/eventRequests.ts lists, as  *)
(* a known gap, a coordinator cleared between the two writes, which would   *)
(* strand the request in the status it was submitted from.                  *)
RefusedOnlyWhenBeaten ==
  [][\A c \in Calls :
       SubmitHeld(c) /\ calls'[c] = Idle => event.status \notin Submittable]_vars

(* "only once every SUBMISSION_REQUIRED_FIELDS value (SG2-28) is filled in" *)
(* (events/submit.ts): an event leaves its organiser's hands complete.      *)
SubmittedComplete ==
  event.status \notin NoRow \cup Submittable => event.complete

(* The handlers implement what EventLife promises. *)
Life == INSTANCE EventLife WITH status <- event.status, coordinator <- event.coordinator

ImplementsEventLife == Life!LifeSpec
=============================================================================
