----------------------- MODULE EventRequestsProofs -----------------------
(***************************************************************************)
(* Theorems about EventRequests for any number of coordinators, Leads and  *)
(* calls in flight.  The inductive invariant adds to the types and to the  *)
(* agreement of status and coordinator what a call in flight knows: an     *)
(* assignment read a row that agreed too, and a submission on its second   *)
(* write has left the drafts behind.                                       *)
(***************************************************************************)
EXTENDS EventRequests, TLAPS

(* The row an assignment read agreed, and it assigns a real coordinator;   *)
(* a completion read a completable event.                                  *)
ReadsAgree ==
  \A c \in Calls :
    /\ calls[c].kind = "assign" =>
         /\ calls[c].who \in Leads
         /\ calls[c].to \in Coordinators
         /\ calls[c].status \in Assignable
         /\ calls[c].status = "unassigned" <=> calls[c].coordinator = Nobody
    /\ calls[c].kind = "complete" => calls[c].status \in Completable

(* Drafts are created once: a submission in flight has its event, and one  *)
(* on its second write has no draft before it.                             *)
SubmissionsPast ==
  \A c \in Calls :
    calls[c].kind = "submit" =>
      /\ event.status # "absent"
      /\ calls[c].at = "held" => event.status # "draft"

IInv == TypeOK /\ HeldUnlessUnassigned /\ ReadsAgree /\ SubmissionsPast

USE DEF Editable, Submittable, Completable, Closed, Arrangement, Assignable,
        EventStatus, NoRow, Unheld

LEMMA InitInv == Init => IInv
  BY RequestConstants
  DEF Init, IInv, TypeOK, HeldUnlessUnassigned, ReadsAgree, SubmissionsPast,
      Row, CallRecord, Idle, Call, Unread

(* What a step must show of the row alone: its type, the agreement, and    *)
(* that it never goes back to be absent or a draft.                        *)
Forward == /\ event' \in Row
           /\ HeldUnlessUnassigned'
           /\ event'.status = "absent" => event.status = "absent"
           /\ event'.status = "draft" => event.status \in {"absent", "draft"}
           /\ event.status = "absent" => event'.status \in {"absent", "draft"}

(* A call record a step leaves in a slot. *)
Fit(call) ==
  /\ call \in CallRecord
  /\ call.kind = "assign" =>
       /\ call.who \in Leads
       /\ call.to \in Coordinators
       /\ call.status \in Assignable
       /\ call.status = "unassigned" <=> call.coordinator = Nobody
  /\ call.kind = "complete" => call.status \in Completable
  /\ call.kind = "submit" =>
       /\ event'.status # "absent"
       /\ call.at = "held" => event'.status # "draft"

(* A step that moves the row forward and changes one slot to a fitting     *)
(* record keeps the invariant.                                             *)
LEMMA OneSlot ==
  ASSUME IInv, Forward, NEW c \in Calls, NEW call, Fit(call),
         calls' = [calls EXCEPT ![c] = call]
  PROVE  IInv'
<1>1. calls \in [Calls -> CallRecord] /\ event \in Row
  BY DEF IInv, TypeOK
<1>2. calls' \in [Calls -> CallRecord]
  BY <1>1 DEF Fit
<1>3. \A d \in Calls : calls'[d] = IF d = c THEN call ELSE calls[d]
  BY <1>1
<1>4. ReadsAgree'
  BY <1>3 DEF ReadsAgree, Fit, IInv
<1>5. SubmissionsPast'
  BY <1>3 DEF SubmissionsPast, Fit, Forward, IInv
<1> QED
  BY <1>2, <1>4, <1>5 DEF IInv, TypeOK, Forward

(* The invariant as a step uses it, for one call. *)
LEMMA Known ==
  ASSUME IInv, NEW c \in Calls
  PROVE  /\ calls \in [Calls -> CallRecord]
         /\ calls[c] \in CallRecord
         /\ event \in Row
         /\ Unheld(event) <=> event.coordinator = Nobody
         /\ calls[c].kind = "assign" =>
              /\ calls[c].who \in Leads
              /\ calls[c].to \in Coordinators
              /\ calls[c].status \in Assignable
              /\ calls[c].status = "unassigned" <=> calls[c].coordinator = Nobody
         /\ calls[c].kind = "complete" => calls[c].status \in Completable
         /\ calls[c].kind = "submit" =>
              /\ event.status # "absent"
              /\ calls[c].at = "held" => event.status # "draft"
         /\ Nobody \notin Coordinators \cup Leads
  BY RequestConstants
  DEF IInv, TypeOK, HeldUnlessUnassigned, ReadsAgree, SubmissionsPast

(* A handler that only goes on, or ends, changes nothing the invariant     *)
(* speaks of.                                                              *)
LEMMA RowKept == ASSUME IInv, UNCHANGED event PROVE Forward
  BY DEF IInv, TypeOK, Forward, HeldUnlessUnassigned

LEMMA GoesOn ==
  ASSUME IInv, NEW c \in Calls, Forward,
         NEW at \in {"record", "notify", "message", "undo", "failed"}, Goes(c, at)
  PROVE  IInv'
<1> DEFINE call == [calls[c] EXCEPT !.at = at]
<1>1. Fit(call)
  BY Known DEF Fit, Forward, CallRecord
<1>2. calls' = [calls EXCEPT ![c] = call]
  BY DEF Goes
<1> HIDE DEF call
<1> QED
  BY <1>1, <1>2, OneSlot

LEMMA EndsFit == ASSUME IInv, NEW c \in Calls, Forward, Ends(c) PROVE IInv'
<1>1. Fit(Idle)
  BY RequestConstants DEF Fit, Idle, Call, Unread, CallRecord
<1> QED
  BY <1>1, OneSlot DEF Ends

LEMMA WriteInv ==
  ASSUME IInv, NEW c \in Calls, NEW guard \in BOOLEAN, NEW row,
         NEW next \in {"record", "failed"}, Write(c, guard, row, next),
         (event' = row) /\ guard => Forward
  PROVE  IInv'
<1>1. CASE guard
  BY <1>1, GoesOn DEF Write
<1>2. CASE ~guard
  BY <1>2, RowKept, EndsFit DEF Write
<1> QED
  BY <1>1, <1>2

LEMMA TellsInv ==
  ASSUME IInv, NEW c \in Calls, NEW kind, NEW at,
         NEW next \in {"record", "notify", "message", "undo", "failed"},
         Tells(c, kind, at, next)
  PROVE  IInv'
  BY GoesOn, RowKept DEF Tells

LEMMA AnswersInv ==
  ASSUME IInv, NEW c \in Calls, NEW kind, NEW at, Answers(c, kind, at)
  PROVE  IInv'
  BY EndsFit, RowKept DEF Answers

LEMMA BeginsInv ==
  ASSUME IInv, NEW c \in Calls, NEW call, Begin(c, call), Forward, Fit(call)
  PROVE  IInv'
  BY OneSlot DEF Begin

(* A call that reads nothing it relies on fits in any slot. *)
LEMMA FitCall ==
  ASSUME NEW kind \in {"update", "delete", "review", "decide", "clarify"},
         NEW at \in {"write", "record", "message"},
         NEW who \in Coordinators \cup {Nobody}
  PROVE  Fit(Call(kind, at, who, Nobody, Unread))
  BY DEF Fit, CallRecord, Call, Unread

LEMMA DraftInv ==
  ASSUME IInv, NEW c \in Calls,
         CreateDraft(c) \/ UpdateDraft(c) \/ DeleteDraft(c)
  PROVE  IInv'
<1> USE Known
<1>1. CASE CreateDraft(c)
  <2>1. Forward
    BY <1>1 DEF CreateDraft, NewDraft, Forward, Row, HeldUnlessUnassigned
  <2> QED
    BY <1>1, <2>1
    DEF CreateDraft, NewDraft, IInv, TypeOK, ReadsAgree, SubmissionsPast, Forward
<1>2. CASE UpdateDraftRead(c) \/ DeleteDraftRead(c)
  <2>1. \A kind \in {"update", "delete"} : Fit(Call(kind, "write", Nobody, Nobody, Unread))
    BY FitCall
  <2> QED
    BY <1>2, <2>1, BeginsInv, RowKept DEF UpdateDraftRead, DeleteDraftRead
<1>3. CASE UpdateDraftWrite(c)
  <2>1. Forward
    BY <1>3 DEF UpdateDraftWrite, Forward, Row, HeldUnlessUnassigned
  <2> QED
    BY <1>3, <2>1, EndsFit DEF UpdateDraftWrite
<1>4. CASE DeleteDraftWrite(c)
  <2>1. Forward
    BY <1>4 DEF DeleteDraftWrite, Forward, Row, HeldUnlessUnassigned
  <2> QED
    BY <1>4, <2>1, EndsFit DEF DeleteDraftWrite
<1> QED
  BY <1>1, <1>2, <1>3, <1>4 DEF UpdateDraft, DeleteDraft

LEMMA SubmitInv ==
  ASSUME IInv, NEW c \in Calls, Submit(c)
  PROVE  IInv'
<1> USE Known
<1>1. CASE SubmitRead(c)
  <2>1. Forward
    BY <1>1, RowKept DEF SubmitRead
  <2>2. Fit(Call("submit", "unheld", Nobody, Nobody, Unread))
    BY <1>1 DEF SubmitRead, Fit, Call, Unread, CallRecord
  <2> QED
    BY <1>1, <2>1, <2>2, BeginsInv DEF SubmitRead
<1>2. CASE SubmitUnheld(c)
  <2>1. CASE event.status \in Submittable /\ event.coordinator = Nobody
    <3>1. Forward
      BY <1>2, <2>1 DEF SubmitUnheld, Forward, Row, HeldUnlessUnassigned
    <3> QED
      BY <1>2, <2>1, <3>1, GoesOn DEF SubmitUnheld
  <2>2. CASE ~(event.status \in Submittable /\ event.coordinator = Nobody)
    <3> DEFINE call == [calls[c] EXCEPT !.at = "held"]
    <3>1. Forward
      BY <1>2, <2>2, RowKept DEF SubmitUnheld
    <3>2. Fit(call)
      BY <1>2, <2>2 DEF SubmitUnheld, At, Fit, CallRecord
    <3>3. calls' = [calls EXCEPT ![c] = call]
      BY <1>2, <2>2 DEF SubmitUnheld, Goes
    <3> HIDE DEF call
    <3> QED
      BY <3>1, <3>2, <3>3, OneSlot
  <2> QED
    BY <2>1, <2>2
<1>3. CASE SubmitHeld(c)
  <2> DEFINE guard == event.status \in Submittable /\ event.coordinator # Nobody
             row   == [event EXCEPT !.status = "submitted"]
  <2>1. (event' = row) /\ guard => Forward
    BY DEF Forward, Row, HeldUnlessUnassigned
  <2>2. Write(c, guard, row, "record")
    BY <1>3 DEF SubmitHeld
  <2>3. guard \in BOOLEAN
    OBVIOUS
  <2> HIDE DEF guard, row
  <2> QED
    BY <2>1, <2>2, <2>3, WriteInv
<1>4. CASE SubmitTells(c)
  BY <1>4, TellsInv, AnswersInv DEF SubmitTells
<1> QED
  BY <1>1, <1>2, <1>3, <1>4 DEF Submit

LEMMA ReviewInv ==
  ASSUME IInv, NEW c \in Calls, StartReview(c) \/ Decide(c)
  PROVE  IInv'
<1> USE Known
<1>1. \A who \in Coordinators, kind \in {"review", "decide"} :
         Fit(Call(kind, "record", who, Nobody, Unread))
  BY FitCall
<1>2. CASE OpenReview(c)
  <2>1. Forward
    BY <1>2 DEF OpenReview, Forward, Row, HeldUnlessUnassigned
  <2> QED
    BY <1>1, <1>2, <2>1, BeginsInv DEF OpenReview
<1>3. CASE DecideWrite(c)
  <2>1. Forward
    BY <1>3 DEF DecideWrite, Forward, Row, HeldUnlessUnassigned
  <2> QED
    BY <1>1, <1>3, <2>1, BeginsInv DEF DecideWrite
<1> QED
  BY <1>2, <1>3, TellsInv, AnswersInv DEF StartReview, Decide

LEMMA ClarifyInv ==
  ASSUME IInv, NEW c \in Calls, Clarify(c)
  PROVE  IInv'
<1> USE Known
<1>1. CASE ClarifyRead(c)
  <2>1. \A who \in Coordinators, at \in {"write", "message"} :
          Fit(Call("clarify", at, who, Nobody, Unread))
    BY FitCall
  <2> QED
    BY <1>1, <2>1, RowKept, BeginsInv DEF ClarifyRead
<1>2. CASE ClarifyWrite(c)
  <2> DEFINE guard == event.coordinator = calls[c].who /\ event.status = "under_review"
             row   == [event EXCEPT !.status = "needs_clarification"]
  <2>1. (event' = row) /\ guard => Forward
    BY DEF Forward, Row, HeldUnlessUnassigned
  <2>2. Write(c, guard, row, "record")
    BY <1>2 DEF ClarifyWrite
  <2>3. guard \in BOOLEAN
    OBVIOUS
  <2> HIDE DEF guard, row
  <2> QED
    BY <2>1, <2>2, <2>3, WriteInv
<1> QED
  BY <1>1, <1>2, TellsInv, AnswersInv DEF Clarify

(* An assignment's guarded write, and its undo, keep the agreement because *)
(* they write both columns together over the coordinator they expect.      *)
LEMMA AssignmentForward ==
  ASSUME IInv, NEW expected \in Coordinators \cup {Nobody},
         NEW coordinator \in Coordinators \cup {Nobody}, NEW by \in Leads \cup {Nobody},
         NEW moves \in BOOLEAN, NEW from, NEW to, NEW c \in Calls,
         NEW next \in {"record", "failed"},
         AssignEventCoordinator(c, coordinator, by, expected, moves, from, to, next),
         moves => \/ /\ from = "unassigned" /\ to = "submitted"
                     /\ coordinator # Nobody
                  \/ /\ from = "submitted" /\ to = "unassigned"
                     /\ coordinator = Nobody,
         ~moves => coordinator # Nobody /\ expected # Nobody
  PROVE  IInv'
<1> DEFINE guard == /\ IF moves THEN event.status = from ELSE event.status \in Assignable
                    /\ event.coordinator = expected
           row   == [event EXCEPT !.coordinator = coordinator,
                      !.supervisor = IF coordinator = Nobody THEN Nobody ELSE by,
                      !.status = IF moves THEN to ELSE event.status]
<1>1. ASSUME event' = row, guard PROVE Forward
  <2> USE Known, <1>1
  <2>1. CASE moves
    BY <2>1 DEF Forward, Row, HeldUnlessUnassigned
  <2>2. CASE ~moves
    BY <2>2 DEF Forward, Row, HeldUnlessUnassigned
  <2> QED
    BY <2>1, <2>2
<1>2. Write(c, guard, row, next)
  BY DEF AssignEventCoordinator
<1>3. guard \in BOOLEAN
  OBVIOUS
<1> HIDE DEF guard, row
<1> QED
  BY <1>1, <1>2, <1>3, WriteInv

LEMMA AssignInv ==
  ASSUME IInv, NEW c \in Calls, Assign(c)
  PROVE  IInv'
<1> USE Known
<1>1. CASE AssignRead(c)
  <2>1. PICK lead \in Leads, to \in Coordinators :
          /\ event.status \in Assignable
          /\ Begin(c, Call("assign", "supervisor", lead, to, event))
    BY <1>1 DEF AssignRead
  <2> DEFINE call == Call("assign", "supervisor", lead, to, event)
  <2>3. Fit(call)
    BY <2>1 DEF Fit, CallRecord, Row, Call
  <2>4. Forward
    BY <1>1, RowKept DEF AssignRead
  <2> HIDE DEF call
  <2> QED
    BY <2>1, <2>3, <2>4, BeginsInv DEF call
<1>2. CASE AssignSupervisor(c)
  <2> DEFINE call == [calls[c] EXCEPT !.at = "write", !.supervisor = event.supervisor]
  <2>1. calls' = [calls EXCEPT ![c] = call]
    BY <1>2 DEF AssignSupervisor
  <2>2. calls[c].kind = "assign" /\ event.supervisor \in Leads \cup {Nobody}
    BY <1>2 DEF AssignSupervisor, At, Row
  <2>4. /\ call \in CallRecord /\ call.kind = "assign" /\ call.to = calls[c].to
        /\ call.who = calls[c].who /\ call.status = calls[c].status
        /\ call.coordinator = calls[c].coordinator
    BY ZenonT(60), <2>2 DEF CallRecord
  <2>5. Fit(call)
    BY <2>2, <2>4 DEF Fit
  <2>3. Forward
    BY <1>2, RowKept DEF AssignSupervisor
  <2> HIDE DEF call
  <2> QED
    BY <2>1, <2>3, <2>5, OneSlot
<1>3. ASSUME calls[c].kind = "assign"
      PROVE  /\ calls[c].who \in Leads
             /\ calls[c].to \in Coordinators
             /\ calls[c].coordinator \in Coordinators \cup {Nobody}
             /\ calls[c].supervisor \in Leads \cup {Nobody}
             /\ FirstAssignment(calls[c]) \in BOOLEAN
             /\ FirstAssignment(calls[c]) <=> calls[c].coordinator = Nobody
  BY <1>3 DEF FirstAssignment, CallRecord
<1>4. CASE AssignWrite(c)
  BY <1>3, <1>4, AssignmentForward DEF AssignWrite, At
<1>5. CASE AssignUndo(c)
  BY <1>3, <1>5, AssignmentForward DEF AssignUndo, At
<1> QED
  BY <1>1, <1>2, <1>4, <1>5, TellsInv, AnswersInv DEF Assign, AssignRecord

LEMMA EndInv ==
  ASSUME IInv, NEW c \in Calls, Complete(c) \/ CallLost(c)
  PROVE  IInv'
<1> USE Known
<1>1. CASE CompleteRead(c)
  <2>1. \A who \in Coordinators : event.status \in Completable =>
          Fit(Call("complete", "write", who, Nobody, event))
    BY DEF Fit, CallRecord, Row, Call
  <2> QED
    BY <1>1, <2>1, RowKept, BeginsInv DEF CompleteRead
<1>2. CASE CompleteWrite(c)
  <2> DEFINE guard == event.coordinator = calls[c].who /\ event.status = calls[c].status
             row   == [event EXCEPT !.status = "completed"]
  <2>1. (event' = row) /\ guard => Forward
    BY <1>2 DEF CompleteWrite, At, Forward, Row, HeldUnlessUnassigned
  <2>2. Write(c, guard, row, "record")
    BY <1>2 DEF CompleteWrite
  <2>3. guard \in BOOLEAN
    OBVIOUS
  <2> HIDE DEF guard, row
  <2> QED
    BY <2>1, <2>2, <2>3, WriteInv
<1>3. CASE CallLost(c)
  BY <1>3, RowKept, EndsFit DEF CallLost
<1> QED
  BY <1>1, <1>2, <1>3, AnswersInv DEF Complete

(* A step that leaves every call alone. *)
LEMMA CallsKept ==
  ASSUME IInv, Forward, UNCHANGED calls, event.status # "absent"
  PROVE  IInv'
  BY DEF IInv, TypeOK, Forward, ReadsAgree, SubmissionsPast

LEMMA OtherInv ==
  ASSUME IInv, AcceptOnClarification \/ RequestCancellation \/ CancelEvent \/ ArrangementsMove
  PROVE  IInv'
<1>1. event \in Row /\ (Unheld(event) <=> event.coordinator = Nobody)
  BY DEF IInv, TypeOK, HeldUnlessUnassigned
<1>2. event.status # "absent"
  BY <1>1, RequestConstants DEF AcceptOnClarification, RequestCancellation, CancelEvent, ArrangementsMove
<1>3. ASSUME RequestCancellation PROVE Forward
  BY <1>1, <1>3 DEF RequestCancellation, Forward, Row, HeldUnlessUnassigned
<1>4. ASSUME CancelEvent PROVE Forward
  BY <1>1, <1>4, RequestConstants DEF CancelEvent, Forward, Row, HeldUnlessUnassigned
<1>5. ASSUME ArrangementsMove PROVE Forward
  BY <1>1, <1>5 DEF ArrangementsMove, Forward, Row, HeldUnlessUnassigned
<1>6. ASSUME AcceptOnClarification PROVE Forward
  BY <1>1, <1>6, RequestConstants DEF AcceptOnClarification, Forward, Row, HeldUnlessUnassigned
<1> QED
  BY <1>2, <1>3, <1>4, <1>5, <1>6, CallsKept
  DEF AcceptOnClarification, RequestCancellation, CancelEvent, ArrangementsMove

LEMMA StutterInv == ASSUME IInv, UNCHANGED vars PROVE IInv'
  BY DEF vars, IInv, TypeOK, HeldUnlessUnassigned, ReadsAgree, SubmissionsPast

LEMMA NextInv == ASSUME IInv, [Next]_vars PROVE IInv'
  BY StutterInv, DraftInv, SubmitInv, ReviewInv, ClarifyInv, AssignInv, EndInv,
     OtherInv
  DEF Next

(* The inductive invariant holds of every reachable state. *)
LEMMA Invariant == Spec => []IInv
<1>1. IInv /\ [Next]_vars => IInv'
  BY NextInv
<1> QED
  BY InitInv, <1>1, PTL DEF Spec

(* Types: the row and every call in flight stay in their domains. *)
THEOREM TypeCorrect == Spec => []TypeOK
<1>1. IInv => TypeOK
  BY DEF IInv
<1> QED
  BY <1>1, Invariant, PTL

(* However assignments, undone assignments, submissions, reviews and lost  *)
(* calls overlap, the event lacks a coordinator exactly while it is a      *)
(* draft or waits for the Lead.                                            *)
THEOREM NeverHeldByNobody == Spec => []HeldUnlessUnassigned
<1>1. IInv => HeldUnlessUnassigned
  BY DEF IInv
<1> QED
  BY <1>1, Invariant, PTL

(* An event on its way is on the Lead's queue or on the work queue of the  *)
(* coordinator who holds it.                                               *)
THEOREM AlwaysSeen == Spec => []SomebodySeesIt
<1>1. IInv => SomebodySeesIt
  BY DEF IInv, TypeOK, Row, HeldUnlessUnassigned, Unheld, NoRow, SomebodySeesIt,
         OnAssignmentQueue, OnWorkQueue, Assignable, Arrangement, Completable
<1> QED
  BY <1>1, Invariant, PTL

(* The gap db/eventRequests.ts describes cannot open: a submission whose   *)
(* second write matches no row found the event out of its organiser's      *)
(* hands, or beaten to it.                                                 *)
THEOREM NoStrandedSubmission == Spec => RefusedOnlyWhenBeaten
<1>1. IInv /\ [Next]_vars =>
        [\A c \in Calls :
           SubmitHeld(c) /\ calls'[c] = Idle => event.status \notin Submittable]_vars
  <2> SUFFICES ASSUME IInv, NEW c \in Calls, SubmitHeld(c), calls'[c] = Idle,
                      event.status \in Submittable
               PROVE  FALSE
    OBVIOUS
  <2>1. event.coordinator # Nobody
    BY Known DEF SubmitHeld, At
  <2>2. calls' = [calls EXCEPT ![c].at = "record"]
    BY <2>1 DEF SubmitHeld, Write, Goes
  <2>3. calls'[c].at = "record"
    BY <2>2, Known DEF CallRecord
  <2> QED
    BY <2>3 DEF Idle, Call
<1> QED
  BY <1>1, Invariant, PTL DEF Spec, RefusedOnlyWhenBeaten

-----------------------------------------------------------------------------
(* The refinement: every write is one step of EventLife, and every other   *)
(* step leaves the status and the coordinator alone.                       *)

LifeStep == [Life!LifeNext]_(Life!lifeVars)

LEMMA LifeInitially == Init => Life!LifeInit
  BY DEF Init, Life!LifeInit

LEMMA LifeStutters == ASSUME UNCHANGED event PROVE LifeStep
  BY DEF LifeStep, Life!lifeVars

LEMMA LifeDrafts ==
  ASSUME IInv, NEW c \in Calls,
         CreateDraft(c) \/ UpdateDraft(c) \/ DeleteDraft(c) \/ Submit(c)
  PROVE  LifeStep
<1> USE Known DEF LifeStep, Life!LifeNext, Life!lifeVars, Life!Moves,
        Life!WithOrganiser
<1>1. CASE CreateDraft(c)
  BY <1>1 DEF CreateDraft, NewDraft, Life!Created
<1>2. CASE UpdateDraft(c)
  BY <1>2 DEF UpdateDraft, UpdateDraftRead, UpdateDraftWrite, Row
<1>3. CASE DeleteDraft(c)
  BY <1>3 DEF DeleteDraft, DeleteDraftRead, DeleteDraftWrite, Row, Life!Deleted
<1>4. CASE SubmitUnheld(c) \/ SubmitHeld(c)
  BY <1>4 DEF SubmitUnheld, SubmitHeld, Write, Row, Life!Submitted
<1>5. CASE SubmitRead(c) \/ SubmitTells(c)
  BY <1>5 DEF SubmitRead, SubmitTells, Tells, Answers
<1> QED
  BY <1>1, <1>2, <1>3, <1>4, <1>5 DEF Submit

LEMMA LifeReviews ==
  ASSUME IInv, NEW c \in Calls, StartReview(c) \/ Decide(c) \/ Clarify(c)
  PROVE  LifeStep
<1> USE Known DEF LifeStep, Life!LifeNext, Life!lifeVars, Life!Moves
<1>1. CASE OpenReview(c)
  BY <1>1, RequestConstants DEF OpenReview, Row, Life!Opened
<1>2. CASE DecideWrite(c)
  BY <1>2, RequestConstants DEF DecideWrite, Row, Life!Decided
<1>3. CASE ClarifyWrite(c)
  BY <1>3, RequestConstants DEF ClarifyWrite, Write, Row, Life!Returned
<1>4. CASE UNCHANGED event
  BY <1>4, LifeStutters
<1> QED
  BY <1>1, <1>2, <1>3, <1>4
  DEF StartReview, Decide, Clarify, ClarifyRead, Tells, Answers

LEMMA LifeAssignment ==
  ASSUME IInv, NEW expected \in Coordinators \cup {Nobody},
         NEW coordinator \in Coordinators \cup {Nobody}, NEW by,
         NEW moves \in BOOLEAN, NEW from, NEW to, NEW c \in Calls, NEW next,
         AssignEventCoordinator(c, coordinator, by, expected, moves, from, to, next),
         moves => \/ /\ from = "unassigned" /\ to = "submitted"
                     /\ coordinator # Nobody
                  \/ /\ from = "submitted" /\ to = "unassigned"
                     /\ coordinator = Nobody,
         ~moves => coordinator # Nobody /\ expected # Nobody
  PROVE  LifeStep
<1> USE Known DEF LifeStep, Life!LifeNext, Life!lifeVars, Row
<1>1. CASE UNCHANGED event
  BY <1>1, LifeStutters
<1>2. CASE moves /\ ~UNCHANGED event
  <2>1. /\ event.status = from
        /\ event'.status = to /\ event'.coordinator = coordinator
    BY <1>2 DEF AssignEventCoordinator, Write
  <2>2. CASE from = "unassigned" /\ to = "submitted" /\ coordinator # Nobody
    BY <2>1, <2>2 DEF Life!Assigned
  <2>3. CASE from = "submitted" /\ to = "unassigned" /\ coordinator = Nobody
    BY <2>1, <2>3 DEF Life!TakenBack
  <2> QED
    BY <1>2, <2>2, <2>3
<1>3. CASE ~moves /\ ~UNCHANGED event
  BY <1>3 DEF AssignEventCoordinator, Write, Life!Reassigned, Life!Live, Life!Arranging
<1> QED
  BY <1>1, <1>2, <1>3

LEMMA LifeAssigns == ASSUME IInv, NEW c \in Calls, Assign(c) PROVE LifeStep
<1> USE Known
<1>1. ASSUME calls[c].kind = "assign"
      PROVE  /\ calls[c].to \in Coordinators
             /\ calls[c].coordinator \in Coordinators \cup {Nobody}
             /\ FirstAssignment(calls[c]) \in BOOLEAN
             /\ FirstAssignment(calls[c]) <=> calls[c].coordinator = Nobody
  BY <1>1 DEF FirstAssignment, CallRecord
<1>2. CASE AssignWrite(c)
  BY <1>1, <1>2, LifeAssignment DEF AssignWrite, At
<1>3. CASE AssignUndo(c)
  BY <1>1, <1>3, LifeAssignment DEF AssignUndo, At
<1>4. CASE UNCHANGED event
  BY <1>4, LifeStutters
<1> QED
  BY <1>2, <1>3, <1>4
  DEF Assign, AssignRead, AssignSupervisor, AssignRecord, Tells, Answers

LEMMA LifeEnds ==
  ASSUME IInv, NEW c \in Calls,
         Complete(c) \/ CallLost(c)
  PROVE  LifeStep
<1> USE Known DEF LifeStep, Life!LifeNext, Life!lifeVars, Life!Moves, Row
<1>1. CASE CompleteWrite(c)
  BY <1>1 DEF CompleteWrite, At, Write, Life!Completed
<1>2. CASE UNCHANGED event
  BY <1>2, LifeStutters
<1> QED
  BY <1>1, <1>2 DEF Complete, CompleteRead, CallLost, Answers

LEMMA LifeOthers ==
  ASSUME IInv, AcceptOnClarification \/ RequestCancellation \/ CancelEvent \/ ArrangementsMove
  PROVE  LifeStep
<1>1. event \in Row /\ (Unheld(event) <=> event.coordinator = Nobody)
  BY DEF IInv, TypeOK, HeldUnlessUnassigned
<1> USE <1>1, RequestConstants
        DEF LifeStep, Life!LifeNext, Life!lifeVars, Life!Moves, Row
<1>2. CASE CancelEvent
  BY <1>2 DEF CancelEvent, Life!Cancelled, Life!Live, Life!Arranging
<1>3. CASE ArrangementsMove
  BY <1>3 DEF ArrangementsMove, Life!Arranged, Life!Arranging
<1>4. CASE RequestCancellation
  BY <1>4 DEF RequestCancellation
<1>5. CASE AcceptOnClarification
  BY <1>5 DEF AcceptOnClarification, Life!Resumed
<1> QED
  BY <1>2, <1>3, <1>4, <1>5

(* The handlers, interleaved call by call, implement the event's life.     *)
THEOREM Refinement == Spec => ImplementsEventLife
<1>1. IInv /\ [Next]_vars => LifeStep
  <2> SUFFICES ASSUME IInv, [Next]_vars PROVE LifeStep
    OBVIOUS
  <2>1. CASE UNCHANGED vars
    BY <2>1, LifeStutters DEF vars
  <2>2. CASE AcceptOnClarification \/ RequestCancellation \/ CancelEvent \/ ArrangementsMove
    BY <2>2, LifeOthers
  <2> QED
    BY <2>1, <2>2, LifeDrafts, LifeReviews, LifeAssigns, LifeEnds DEF Next
<1> QED
  BY <1>1, LifeInitially, Invariant, PTL DEF Spec, LifeStep, ImplementsEventLife, Life!LifeSpec
=============================================================================
