------------------------- MODULE EventChangesProofs -------------------------
(***************************************************************************)
(* Theorems about EventChanges, for every set of venue and equipment       *)
(* requests, details, change requests and routes in flight, and about      *)
(* Readiness, for every set of venue and equipment requests.               *)
(*                                                                         *)
(* An edit with rechecks also writes Planning (EditsReplan), and a review  *)
(* whose revision is current shows the event as it is (ReviewsCurrent):    *)
(* with these the three properties are inductive.                          *)
(***************************************************************************)
EXTENDS EventChanges, Readiness, FiniteSetTheorems, TLAPS

(* Change requests and the routes in flight carry what they will write.     *)
RequestsNamed ==
  \A r \in Requests : requests[r].state # "none" => requests[r].to \in Versions

EditsReplan ==
  \A c \in Calls : calls[c].kind = "edit" =>
    /\ calls[c].shown \in Versions /\ calls[c].status \in {"none", "planning"}
    /\ calls[c].rechecks # {} => calls[c].status = "planning"

AcceptsNamed ==
  \A c \in Calls : calls[c].kind = "accept" =>
    \A r \in calls[c].input : r \in Requests /\ requests[r].to \in Versions

(* A current review is of the event that is still being checked. *)
ReviewsCurrent ==
  \A c \in current : calls[c].kind = "review" => Awaits(event) /\ calls[c].shown = event.shown

CallsInv == RequestsNamed /\ EditsReplan /\ AcceptsNamed /\ ReviewsCurrent

IInv == TypeOK /\ CheckedStaysInPlace /\ CallsInv

-----------------------------------------------------------------------------
(* What a write of the event leaves of the reviews. *)
ReviewsKept ==
  /\ current' \subseteq current
  /\ current' # {} /\ Awaits(event) => Awaits(event') /\ event'.shown = event.shown

(* The calls still under way carry what they carried. *)
CallsKept ==
  /\ calls' \in [Calls -> CallRecord]
  /\ \A c \in Calls : calls'[c].kind # "none" =>
       /\ calls'[c].kind = calls[c].kind /\ calls'[c].input = calls[c].input
       /\ calls'[c].status = calls[c].status /\ calls'[c].rechecks = calls[c].rechecks
       /\ calls'[c].shown = calls[c].shown

(* A request once raised keeps naming details. *)
RequestsKept ==
  /\ requests' \in [Requests -> Request]
  /\ \A r \in Requests :
       /\ requests[r].to \in Versions => requests'[r].to \in Versions
       /\ requests'[r].state # "none" => requests'[r].to \in Versions

LEMMA CallsStep ==
  ASSUME IInv, ReviewsKept, CallsKept, RequestsKept
  PROVE  CallsInv' /\ current' \subseteq Calls
<1>1. current' \subseteq Calls BY DEF IInv, TypeOK, ReviewsKept
<1>2. RequestsNamed' BY DEF RequestsNamed, RequestsKept
<1>3. EditsReplan' BY DEF IInv, CallsInv, EditsReplan, CallsKept
<1>4. AcceptsNamed' BY DEF IInv, CallsInv, AcceptsNamed, CallsKept, RequestsKept
<1>5. ReviewsCurrent' BY <1>1 DEF IInv, CallsInv, ReviewsCurrent, CallsKept, ReviewsKept
<1> QED BY <1>1, <1>2, <1>3, <1>4, <1>5 DEF CallsInv

LEMMA RequestsUnchanged == ASSUME IInv, UNCHANGED requests PROVE RequestsKept
  BY DEF IInv, TypeOK, CallsInv, RequestsNamed, RequestsKept

LEMMA IdleType == Idle \in CallRecord /\ Idle.kind = "none"
  BY DEF Idle, Call, CallRecord

LEMMA EndsStep ==
  ASSUME TypeOK, NEW c \in Calls, Ends(c)
  PROVE  CallsKept
  BY IdleType DEF TypeOK, Ends, CallsKept

LEMMA GoesStep ==
  ASSUME TypeOK, NEW c \in Calls, NEW at \in {"write", "apply", "record", "decide", "insert"}, Goes(c, at)
  PROVE  CallsKept
  BY DEF TypeOK, Goes, CallsKept, CallRecord

LEMMA CallsUnchanged == ASSUME TypeOK, UNCHANGED calls PROVE CallsKept
  BY DEF TypeOK, CallsKept

LEMMA RowUnchanged == ASSUME RowKept PROVE ReviewsKept
  BY DEF RowKept, ReviewsKept, Awaits

(* A call that begins, other than a review. *)
LEMMA BeginStep ==
  ASSUME IInv, NEW c \in Calls, NEW call \in CallRecord, Begin(c, call), RowKept,
         UNCHANGED requests, call.kind # "review",
         call.kind = "edit" => /\ call.shown \in Versions /\ call.status \in {"none", "planning"}
                               /\ call.rechecks # {} => call.status = "planning",
         call.kind = "accept" => \A r \in call.input : r \in Requests /\ requests[r].to \in Versions
  PROVE  calls' \in [Calls -> CallRecord] /\ event' = event /\ current' \subseteq Calls /\ CallsInv'
<1>1. /\ calls' \in [Calls -> CallRecord] /\ calls'[c] = call
      /\ \A d \in Calls \ {c} : calls'[d] = calls[d]
  BY DEF IInv, TypeOK, Begin
<1>2. event' = event /\ current' = current /\ current \subseteq Calls
  BY DEF IInv, TypeOK, RowKept
<1>3. RequestsNamed' BY DEF IInv, CallsInv, RequestsNamed
<1>4. EditsReplan' BY <1>1 DEF IInv, CallsInv, EditsReplan
<1>5. AcceptsNamed' BY <1>1 DEF IInv, CallsInv, AcceptsNamed
<1>6. ReviewsCurrent' BY <1>1, <1>2 DEF IInv, CallsInv, ReviewsCurrent, Awaits
<1> QED BY <1>1, <1>2, <1>3, <1>4, <1>5, <1>6 DEF CallsInv

-----------------------------------------------------------------------------
LEMMA RefreshedRow ==
  ASSUME NEW row \in Event, NEW all
  PROVE  LET end == Refreshed(row, all) IN
           /\ end \in Event
           /\ end.rechecks = row.rechecks /\ end.shown = row.shown
           /\ Awaits(end) => Ready(end, all)
           /\ end.status \in Locked => end.status = row.status
<1>1. CASE row.status \in {"approved", "planning"} /\ Ready(row, all)
  BY <1>1 DEF Refreshed, Event, Status, Changeable, Awaits, Ready, Locked
<1>2. CASE ~(row.status \in {"approved", "planning"} /\ Ready(row, all))
           /\ row.status = "awaiting_safety_check" /\ ~Ready(row, all)
  BY <1>2 DEF Refreshed, Event, Status, Changeable, Awaits, Locked
<1>3. CASE ~(row.status \in {"approved", "planning"} /\ Ready(row, all))
           /\ ~(row.status = "awaiting_safety_check" /\ ~Ready(row, all))
  BY <1>3 DEF Refreshed, Event, Status, Changeable, Awaits
<1> QED BY <1>1, <1>2, <1>3

(* Readiness depends on the rechecks and on the need of equipment alone.    *)
LEMMA ReadyAlike ==
  ASSUME NEW row, ~Refreshes(event, row)
  PROVE  Ready(event, arranged) => Ready(row, arranged)
  BY DEF Refreshes, Ready, EquipmentInPlace

LEMMA PlaceAlike ==
  ASSUME NEW row, NEW other, NEW all, row.rechecks = other.rechecks
  PROVE  StillInPlace(row, all) <=> StillInPlace(other, all)
  BY DEF StillInPlace

LEMMA SavedStep ==
  ASSUME IInv, NEW row \in Event, NEW asked, Saved(row, asked), arranged' = arranged,
         Awaits(row) => Awaits(event),
         row.status \in Locked => StillInPlace(row, arranged)
  PROVE  event' \in Event /\ CheckedStaysInPlace' /\ ReviewsKept
<1> DEFINE refreshed == asked \/ Refreshes(event, row)
           end       == IF refreshed THEN Refreshed(row, arranged) ELSE row
<1>1. event' = end
  BY DEF Saved
<1>2. /\ end \in Event /\ end.rechecks = row.rechecks /\ end.shown = row.shown
      /\ Awaits(end) => Ready(end, arranged)
      /\ end.status \in Locked => end.status = row.status
  <2>1. CASE refreshed
    <3>1. end = Refreshed(row, arranged) BY <2>1
    <3> HIDE DEF end
    <3> QED BY <3>1, RefreshedRow
  <2>2. CASE ~refreshed
    <3>1. end = row BY <2>2
    <3>2. Awaits(row) => Ready(row, arranged)
      BY <2>2, ReadyAlike DEF IInv, CheckedStaysInPlace
    <3> HIDE DEF end, refreshed
    <3> QED BY <3>1, <3>2
  <2> QED BY <2>1, <2>2
<1>3. CheckedStaysInPlace'
  <2> HIDE DEF end
  <2>1. end.status \in Locked => StillInPlace(end, arranged) BY <1>2, PlaceAlike
  <2>2. Awaits(event)' <=> Awaits(end) BY <1>1 DEF Awaits
  <2>3. Ready(event, arranged)' <=> Ready(end, arranged)
    BY <1>1 DEF Ready, VenuesInPlace, EquipmentInPlace
  <2>4. StillInPlace(event, arranged)' <=> StillInPlace(end, arranged)
    BY <1>1 DEF StillInPlace
  <2> QED BY <1>1, <1>2, <2>1, <2>2, <2>3, <2>4 DEF CheckedStaysInPlace
<1>4. ReviewsKept
  <2>1. current' = IF Revised(event, row) \/ Revised(row, end) \/ (refreshed /\ Awaits(end))
                     THEN {} ELSE current
    BY DEF Saved
  <2> HIDE DEF end, refreshed
  <2> QED BY <1>1, <1>2, <2>1 DEF ReviewsKept, Revised, Awaits
<1> QED BY <1>1, <1>2, <1>3, <1>4

LEMMA ArrangementStep ==
  ASSUME IInv, NEW row \in Event, NEW all, ArrangementSaved(all, row),
         row.status \in Locked => StillInPlace(row, all)
  PROVE  event' \in Event /\ CheckedStaysInPlace' /\ ReviewsKept
<1> DEFINE end == Refreshed(row, all)
<1>1. event' = end /\ arranged' = all
  BY DEF ArrangementSaved
<1>2. /\ end \in Event /\ end.rechecks = row.rechecks
      /\ Awaits(end) => Ready(end, all)
      /\ end.status \in Locked => end.status = row.status
  BY RefreshedRow
<1> HIDE DEF end
<1>3. CheckedStaysInPlace'
  <2>1. end.status \in Locked => StillInPlace(end, all) BY <1>2, PlaceAlike
  <2>2. Awaits(event)' <=> Awaits(end) BY <1>1 DEF Awaits
  <2>3. Ready(event, arranged)' <=> Ready(end, all)
    BY <1>1 DEF Ready, VenuesInPlace, EquipmentInPlace
  <2>4. StillInPlace(event, arranged)' <=> StillInPlace(end, all)
    BY <1>1 DEF StillInPlace
  <2> QED BY <1>1, <1>2, <2>1, <2>2, <2>3, <2>4 DEF CheckedStaysInPlace
<1>4. ReviewsKept
  BY DEF ArrangementSaved, ReviewsKept
<1> QED BY <1>1, <1>2, <1>3, <1>4

(* A step that keeps the other variables in their domains keeps the         *)
(* invariant.                                                               *)
RestTyped ==
  /\ arranged' \in [Slots -> Arranged]
  /\ flagged' \subseteq Slots
  /\ decision' \in Decision

LEMMA Assembled ==
  ASSUME IInv, event' \in Event, CheckedStaysInPlace', ReviewsKept, CallsKept, RequestsKept, RestTyped
  PROVE  IInv'
  BY CallsStep DEF IInv, TypeOK, RestTyped, CallsKept, RequestsKept

-----------------------------------------------------------------------------
(* The steps. *)

LEMMA Domains ==
  ASSUME TypeOK
  PROVE  /\ event \in Event /\ event.rechecks \subseteq Keys /\ event.shown \in Versions
         /\ event.status \in Status
         /\ arranged \in [Slots -> Arranged]
         /\ flagged \subseteq Slots /\ decision \in Decision
         /\ requests \in [Requests -> Request]
         /\ calls \in [Calls -> CallRecord] /\ current \subseteq Calls
  BY DEF TypeOK, Event

LEMMA KeyTypes ==
  /\ \A k \in Kinds : Recheck(k) \in Keys /\ Safety(k) \in Keys
  /\ Safety("other") \in Keys
  BY DEF Keys

LEMMA PlaceUnchanged ==
  ASSUME CheckedStaysInPlace, event' = event, arranged' = arranged
  PROVE  CheckedStaysInPlace'
  BY DEF CheckedStaysInPlace, Awaits, Ready, VenuesInPlace, EquipmentInPlace, StillInPlace

(* A step that leaves the row and the arrangements alone. *)
LEMMA SameStep ==
  ASSUME IInv, event' = event, ReviewsKept, ArrangementsKept, RequestsKept, CallsKept
  PROVE  IInv'
<1>1. TypeOK /\ CheckedStaysInPlace BY DEF IInv
<1>2. event' \in Event BY <1>1, Domains
<1>3. RestTyped BY <1>1, Domains DEF RestTyped, ArrangementsKept
<1>4. CheckedStaysInPlace' BY <1>1, PlaceUnchanged DEF ArrangementsKept
<1> QED BY <1>2, <1>3, <1>4, Assembled

LEMMA RowStep ==
  ASSUME IInv, RowKept, ArrangementsKept, RequestsKept, CallsKept
  PROVE  IInv'
  BY RowUnchanged, SameStep DEF RowKept

(* A call that begins and is no review. *)
LEMMA BeginKeeps ==
  ASSUME IInv, NEW c \in Calls, NEW call \in CallRecord, Begin(c, call), RowKept, ArrangementsKept,
         UNCHANGED requests, call.kind # "review",
         call.kind = "edit" => /\ call.shown \in Versions /\ call.status \in {"none", "planning"}
                               /\ call.rechecks # {} => call.status = "planning",
         call.kind = "accept" => \A r \in call.input : r \in Requests /\ requests[r].to \in Versions
  PROVE  IInv'
<1>1. TypeOK /\ CheckedStaysInPlace BY DEF IInv
<1>2. CheckedStaysInPlace'
  BY <1>1, PlaceUnchanged DEF RowKept, ArrangementsKept
<1>3. calls' \in [Calls -> CallRecord] /\ event' = event /\ current' \subseteq Calls /\ CallsInv'
  BY BeginStep
<1> QED BY <1>1, <1>2, <1>3, Domains DEF IInv, TypeOK, ArrangementsKept

(* A write of the row that leaves the arrangements alone. *)
LEMMA SavedKeeps ==
  ASSUME IInv, NEW row \in Event, NEW asked, Saved(row, asked),
         arranged' = arranged, flagged' \subseteq Slots, decision' \in Decision,
         RequestsKept, CallsKept,
         Awaits(row) => Awaits(event),
         row.status \in Locked => StillInPlace(row, arranged)
  PROVE  IInv'
<1>1. event' \in Event /\ CheckedStaysInPlace' /\ ReviewsKept
  BY SavedStep
<1>2. RestTyped BY Domains DEF IInv, RestTyped
<1> QED BY <1>1, <1>2, Assembled

(* A write of an arrangement. *)
LEMMA ArrangementKeeps ==
  ASSUME IInv, NEW row \in Event, NEW all \in [Slots -> Arranged],
         ArrangementSaved(all, row), flagged' \subseteq Slots,
         UNCHANGED <<decision, requests>>, CallsKept,
         row.status \in Locked => StillInPlace(row, all)
  PROVE  IInv'
<1>1. event' \in Event /\ CheckedStaysInPlace' /\ ReviewsKept
  BY ArrangementStep
<1>2. RestTyped BY Domains DEF IInv, RestTyped, ArrangementSaved
<1>3. RequestsKept BY RequestsUnchanged
<1> QED BY <1>1, <1>2, <1>3, Assembled

LEMMA EditKeeps == ASSUME IInv, NEW c \in Calls, Edit(c) PROVE IInv'
<1>1. TypeOK /\ CheckedStaysInPlace /\ EditsReplan BY DEF IInv, CallsInv
<1>2. CASE EditRead(c)
  <2>1. PICK edit \in PlanningUpdates :
          LET impact == Affected(edit) IN
            /\ Begin(c, Call("edit", "write", {},
                             IF impact # {} \/ event.status = "approved" THEN "planning" ELSE "none",
                             IF impact # {} THEN event.rechecks \cup impact ELSE {},
                             edit.to))
            /\ UNCHANGED requests /\ RowKept /\ ArrangementsKept
    BY <1>2 DEF EditRead
  <2> DEFINE impact == Affected(edit)
             call == Call("edit", "write", {},
                          IF impact # {} \/ event.status = "approved" THEN "planning" ELSE "none",
                          IF impact # {} THEN event.rechecks \cup impact ELSE {},
                          edit.to)
  <2>2. impact \subseteq Keys
    BY KeyTypes DEF Affected, Facts, KindOf, Kinds
  <2>3. edit.to \in Versions BY DEF PlanningUpdates
  <2>4. /\ call \in CallRecord /\ call.kind = "edit" /\ call.shown \in Versions
        /\ call.status \in {"none", "planning"}
        /\ call.rechecks # {} => call.status = "planning"
    BY <1>1, <2>2, <2>3, Domains DEF Call, CallRecord, Status, Changeable
  <2> QED BY <2>1, <2>4, BeginKeeps
<1>3. CASE EditWrite(c)
  <2> DEFINE call == calls[c]
             edited == [event EXCEPT !.shown = call.shown,
                                     !.rechecks = IF call.rechecks # {} THEN call.rechecks ELSE @,
                                     !.status = IF call.status # "none" THEN call.status ELSE @]
  <2>1. call \in CallRecord /\ call.kind = "edit" /\ Ends(c)
    BY <1>1, <1>3, Domains DEF EditWrite, At
  <2>2. CallsKept /\ call.shown \in Versions
    BY <1>1, <2>1, EndsStep DEF EditsReplan
  <2>3. UNCHANGED requests /\ ArrangementsKept BY <1>3 DEF EditWrite
  <2>4. CASE RowKept
    BY <2>2, <2>3, <2>4, RequestsUnchanged, RowStep
  <2>5. CASE Saved(edited, FALSE)
    <3>1. edited \in Event
      BY <1>1, <2>1, <2>2, Domains DEF Event, CallRecord, Status
    <3>2. /\ edited.status = IF call.status # "none" THEN call.status ELSE event.status
          /\ edited.rechecks = IF call.rechecks # {} THEN call.rechecks ELSE event.rechecks
          /\ call.status \in {"none", "planning"}
          /\ call.rechecks # {} => call.status = "planning"
      BY Domains, <1>1, <2>1 DEF Event, EditsReplan
    <3> HIDE DEF edited
    <3>3. Awaits(edited) => Awaits(event) BY <3>2 DEF Awaits
    <3>4. ASSUME edited.status \in Locked PROVE StillInPlace(edited, arranged)
      <4>1. edited.status = event.status /\ edited.rechecks = event.rechecks
        BY <3>2, <3>4 DEF Locked
      <4> QED BY <1>1, <3>4, <4>1, PlaceAlike DEF CheckedStaysInPlace
    <3>5. arranged' = arranged /\ flagged' \subseteq Slots /\ decision' \in Decision
      BY <1>1, <2>3, Domains DEF ArrangementsKept
    <3> QED BY <2>2, <2>3, <2>5, <3>1, <3>3, <3>4, <3>5, RequestsUnchanged, SavedKeeps
  <2> QED BY <1>3, <2>4, <2>5 DEF EditWrite
<1> QED BY <1>2, <1>3 DEF Edit

LEMMA AcceptKeeps == ASSUME IInv, NEW c \in Calls, Accept(c) PROVE IInv'
<1>1. TypeOK /\ CheckedStaysInPlace /\ RequestsNamed /\ AcceptsNamed BY DEF IInv, CallsInv
<1>2. CASE AcceptRead(c)
  <2>1. PICK r \in Requests :
          /\ requests[r].state = "pending"
          /\ Begin(c, Call("accept", "apply", {r}, event.status,
                           {Recheck(k) : k \in Impact(r)}, NoVersion))
          /\ UNCHANGED requests /\ RowKept /\ ArrangementsKept
    BY <1>2 DEF AcceptRead
  <2> DEFINE call == Call("accept", "apply", {r}, event.status,
                          {Recheck(k) : k \in Impact(r)}, NoVersion)
  <2>2. Impact(r) \subseteq Kinds BY DEF Impact, Facts, KindOf, Kinds
  <2>3. {Recheck(k) : k \in Impact(r)} \subseteq Keys BY <2>2, KeyTypes
  <2>4. call \in CallRecord /\ call.kind = "accept" /\ call.input = {r}
    BY <1>1, <2>3, Domains DEF Call, CallRecord
  <2>5. requests[r].to \in Versions BY <1>1, <2>1 DEF RequestsNamed
  <2> QED BY <2>1, <2>4, <2>5, BeginKeeps
<1>3. CASE AcceptApply(c)
  <2> DEFINE added == calls[c].rechecks
  <2>1. calls[c] \in CallRecord /\ added \subseteq Keys /\ ArrangementsKept
    BY <1>1, <1>3, Domains DEF AcceptApply, CallRecord
  <2>2. PICK r \in calls[c].input :
          IF event.status = calls[c].status
            THEN /\ Saved(Applied(r, added), ApprovalWithdrawn(r) /\ added = {})
                 /\ requests' = [requests EXCEPT ![r].applied = TRUE]
                 /\ Goes(c, "record")
            ELSE Ends(c) /\ RowKept /\ UNCHANGED requests
    BY <1>3 DEF AcceptApply
  <2>3. r \in Requests /\ requests[r].to \in Versions
    BY <1>1, <1>3, <2>2 DEF AcceptsNamed, AcceptApply, At
  <2>4. CASE event.status = calls[c].status
    <3> DEFINE row == Applied(r, added)
    <3>1. /\ row \in Event
          /\ row.status = IF \/ added # {} /\ event.status \in ReturnsToPlanning \cup {"approved"}
                             \/ ApprovalWithdrawn(r)
                            THEN "planning" ELSE event.status
          /\ row.rechecks = event.rechecks \cup added
      BY <1>1, <2>1, <2>3, Domains DEF Applied, Event, Status, Changeable
    <3> HIDE DEF row
    <3>2. /\ Awaits(row) => Awaits(event)
          /\ row.status \in Locked => StillInPlace(row, arranged)
      <4>1. Awaits(row) => Awaits(event) BY <3>1 DEF Awaits
      <4>2. ASSUME row.status \in Locked PROVE StillInPlace(row, arranged)
        <5>1. row.status = event.status BY <3>1, <4>2 DEF Locked
        <5>2. added = {} BY <3>1, <4>2, <5>1 DEF Locked, ReturnsToPlanning
        <5>3. row.rechecks = event.rechecks BY <3>1, <5>2
        <5> QED BY <1>1, <4>2, <5>1, <5>3, PlaceAlike DEF CheckedStaysInPlace
      <4> QED BY <4>1, <4>2
    <3>3. RequestsKept
      BY ZenonT(60), <1>1, <2>2, <2>3, <2>4, Domains DEF RequestsKept, RequestsNamed, Request
    <3>4. CallsKept BY <1>1, <2>2, <2>4, GoesStep
    <3>5. Saved(row, ApprovalWithdrawn(r) /\ added = {}) BY <2>2, <2>4 DEF row
    <3>6. arranged' = arranged /\ flagged' \subseteq Slots /\ decision' \in Decision
      BY <1>1, <2>1, Domains DEF ArrangementsKept
    <3> HIDE DEF added
    <3> QED BY <3>1, <3>2, <3>3, <3>4, <3>5, <3>6, SavedKeeps
  <2>5. CASE event.status # calls[c].status
    BY <1>1, <2>1, <2>2, <2>5, EndsStep, RequestsUnchanged, RowStep
  <2> QED BY <2>4, <2>5
<1>4. CASE AcceptRecord(c)
  <2>1. RequestsKept
    BY <1>1, <1>4, Domains DEF AcceptRecord, RequestsKept, RequestsNamed, Request
  <2> QED BY <1>1, <1>4, <2>1, EndsStep, RowStep DEF AcceptRecord
<1> QED BY <1>2, <1>3, <1>4 DEF Accept

(* A key taken off: no event in the check or past it has one. *)
LEMMA SettleKeeps == ASSUME IInv, NEW key, Settle(key) PROVE IInv'
<1>1. TypeOK /\ CheckedStaysInPlace BY DEF IInv
<1> DEFINE row == [event EXCEPT !.rechecks = @ \ {key}]
<1>2. row \in Event /\ row.status = event.status
  BY <1>1, Domains DEF Event
<1>3. ~Awaits(row) /\ row.status \notin Locked
  BY <1>1, <1>2 DEF Settle, CheckedStaysInPlace, Awaits, Ready, StillInPlace
<1>4. Saved(row, FALSE) BY DEF Settle
<1> HIDE DEF row
<1> QED BY <1>1, <1>2, <1>3, <1>4, Domains, CallsUnchanged, RequestsUnchanged, SavedKeeps
        DEF Settle, ArrangementsKept

(* What is approved stays in place. *)
LEMMA ReadyStays ==
  ASSUME Ready(event, arranged)
  PROVE  StillInPlace(event, arranged)
  BY DEF Ready, VenuesInPlace, EquipmentInPlace, StillInPlace

LEMMA ReviewKeeps == ASSUME IInv, NEW c \in Calls, Review(c) PROVE IInv'
<1>1. TypeOK /\ CheckedStaysInPlace BY DEF IInv
<1>2. CASE ReviewRead(c)
  <2> DEFINE call == Call("review", "decide", {}, "none", {}, event.shown)
  <2>1. call \in CallRecord /\ call.kind = "review" /\ call.shown = event.shown
    BY <1>1, Domains DEF Call, CallRecord
  <2>2. /\ calls' \in [Calls -> CallRecord] /\ calls'[c] = call
        /\ \A d \in Calls \ {c} : calls'[d] = calls[d]
    BY <1>1, <1>2, <2>1, Domains DEF ReviewRead, Begin
  <2>3. /\ Awaits(event) /\ current' = current \cup {c}
        /\ UNCHANGED <<event, requests, arranged, flagged, decision>>
    BY <1>2 DEF ReviewRead, ArrangementsKept
  <2>4. RequestsNamed' BY <2>3 DEF IInv, CallsInv, RequestsNamed
  <2>5. EditsReplan' BY <2>1, <2>2 DEF IInv, CallsInv, EditsReplan
  <2>6. AcceptsNamed' BY <2>1, <2>2, <2>3 DEF IInv, CallsInv, AcceptsNamed
  <2>7. ReviewsCurrent'
    BY <1>1, <2>1, <2>2, <2>3, Domains DEF IInv, CallsInv, ReviewsCurrent, Awaits
  <2>8. TypeOK' BY <1>1, <2>2, <2>3, Domains DEF TypeOK
  <2>9. CheckedStaysInPlace' BY <1>1, <2>3, PlaceUnchanged
  <2> QED BY <2>4, <2>5, <2>6, <2>7, <2>8, <2>9 DEF IInv, CallsInv
<1>3. CASE SafetyDecision(c)
  <2>1. CallsKept /\ RequestsKept /\ arranged' = arranged
    BY <1>1, <1>3, EndsStep, RequestsUnchanged DEF SafetyDecision
  <2>2. CASE Awaits(event) /\ c \in current
    <3>1. PICK kind \in {"approve", "reject", "request_changes"},
               named \in SUBSET ((Kinds \ KindsOf(flagged)) \cup {"other"}) :
            /\ (kind = "request_changes") <=> (named # {})
            /\ decision' = [kind |-> kind, shown |-> calls[c].shown]
            /\ flagged' = flagged \cup {a \in Slots : Live(a) /\ KindOf(a) \in named}
            /\ Saved([event EXCEPT !.status = Outcome(kind),
                                   !.rechecks = @ \cup {Safety(n) : n \in named}], FALSE)
      BY <1>3, <2>2 DEF SafetyDecision
    <3> DEFINE keys == {Safety(n) : n \in named}
               row  == [event EXCEPT !.status = Outcome(kind), !.rechecks = @ \cup keys]
    <3>2. keys \subseteq Keys
      BY KeyTypes
    <3>3. Outcome(kind) \in {"preparation", "safety_rejected", "planning"}
          /\ (Outcome(kind) = "preparation" => kind = "approve")
      BY DEF Outcome
    <3>4. /\ row \in Event /\ row.status = Outcome(kind)
          /\ row.rechecks = event.rechecks \cup keys
      BY <1>1, <3>2, <3>3, Domains DEF Event, Status, Changeable
    <3> HIDE DEF row
    <3>5. /\ ~Awaits(row)
          /\ row.status \in Locked => StillInPlace(row, arranged)
      <4>1. ~Awaits(row) BY <3>3, <3>4 DEF Awaits
      <4>2. ASSUME row.status \in Locked PROVE StillInPlace(row, arranged)
        <5>1. kind = "approve" BY <3>3, <3>4, <4>2 DEF Locked
        <5>2. row.rechecks = event.rechecks BY <3>1, <3>4, <5>1
        <5>3. Ready(event, arranged) BY <1>1, <2>2 DEF CheckedStaysInPlace
        <5> QED BY <5>2, <5>3, ReadyStays, PlaceAlike
      <4> QED BY <4>1, <4>2
    <3>6. decision' \in Decision
      BY <1>1, <3>1, Domains DEF Decision, CallRecord
    <3>7. flagged' \subseteq Slots BY <1>1, <3>1, Domains
    <3>8. Saved(row, FALSE) BY <3>1 DEF row
    <3> QED BY <2>1, <3>4, <3>5, <3>6, <3>7, <3>8, SavedKeeps
  <2>3. CASE ~(Awaits(event) /\ c \in current)
    BY <1>3, <2>1, <2>3, RowStep DEF SafetyDecision, ArrangementsKept
  <2> QED BY <2>2, <2>3
<1> QED BY <1>2, <1>3 DEF Review

LEMMA RaiseKeeps == ASSUME IInv, NEW r \in Requests, Raise(r) PROVE IInv'
<1>1. TypeOK /\ RequestsNamed BY DEF IInv, CallsInv
<1>2. RequestsKept
  BY <1>1, Domains DEF Raise, RequestsKept, RequestsNamed, Request
<1> QED BY <1>1, <1>2, CallsUnchanged, RowStep DEF Raise

LEMMA RefuseKeeps == ASSUME IInv, NEW r \in Requests, Refuse(r) PROVE IInv'
<1>1. TypeOK /\ RequestsNamed BY DEF IInv, CallsInv
<1>2. RequestsKept
  BY <1>1, Domains DEF Refuse, RequestsKept, RequestsNamed, Request
<1> QED BY <1>1, <1>2, CallsUnchanged, RowStep DEF Refuse

LEMMA ReworkKeeps == ASSUME IInv, Rework PROVE IInv'
<1>1. TypeOK BY DEF IInv
<1> DEFINE row == [event EXCEPT !.status = "planning", !.rechecks = @ \cup {Safety("other")}]
<1>2. row \in Event /\ row.status = "planning"
  BY <1>1, Domains, KeyTypes DEF Event, Status, Changeable
<1>3. ~Awaits(row) /\ row.status \notin Locked BY <1>2 DEF Awaits, Locked
<1>4. Saved(row, FALSE) BY DEF Rework
<1> HIDE DEF row
<1> QED BY <1>1, <1>2, <1>3, <1>4, Domains, CallsUnchanged, RequestsUnchanged, SavedKeeps
        DEF Rework, ArrangementsKept

LEMMA ConfirmAgainKeeps == ASSUME IInv, NEW a \in Slots, ConfirmAgain(a) PROVE IInv'
<1>1. TypeOK /\ CheckedStaysInPlace BY DEF IInv
<1> DEFINE row == [event EXCEPT !.rechecks = @ \ Settleable(flagged')]
<1>2. row \in Event /\ row.status = event.status /\ row.rechecks \subseteq event.rechecks
  BY <1>1, Domains DEF Event
<1>4. /\ flagged' \subseteq Slots /\ decision' \in Decision /\ arranged' = arranged
      /\ Saved(row, FALSE) /\ UNCHANGED <<requests, calls>>
  BY <1>1, Domains DEF ConfirmAgain
<1> HIDE DEF row
<1>3. /\ Awaits(row) => Awaits(event)
      /\ row.status \in Locked => StillInPlace(row, arranged)
  <2>1. Awaits(row) => Awaits(event) BY <1>2 DEF Awaits
  <2>2. ASSUME row.status \in Locked PROVE StillInPlace(row, arranged)
    <3>1. StillInPlace(event, arranged) BY <1>1, <1>2, <2>2 DEF CheckedStaysInPlace
    <3> QED BY <1>2, <3>1 DEF StillInPlace
  <2> QED BY <2>1, <2>2
<1> QED BY <1>1, <1>2, <1>3, <1>4, CallsUnchanged, RequestsUnchanged, SavedKeeps

LEMMA AskForVenueKeeps == ASSUME IInv, NEW c \in Calls, AskForVenue(c) PROVE IInv'
<1>1. TypeOK /\ CheckedStaysInPlace BY DEF IInv
<1>2. CASE RequestRead(c)
  <2> DEFINE call == Call("request", "insert", {}, "none", {}, NoVersion)
  <2>1. call \in CallRecord /\ call.kind = "request"
    BY DEF Call, CallRecord
  <2> QED BY <1>2, <2>1, BeginKeeps DEF RequestRead
<1>3. CASE RequestInsert(c)
  <2>1. PICK b \in Bookings :
          /\ arranged[b] = "none"
          /\ ArrangementSaved([arranged EXCEPT ![b] = "pending"], event)
    BY <1>3 DEF RequestInsert
  <2> DEFINE all == [arranged EXCEPT ![b] = "pending"]
  <2>2. all \in [Slots -> Arranged] BY <1>1, Domains DEF Arranged
  <2>3. event.status \in Locked => StillInPlace(event, all)
    BY <1>1, <2>1, Domains, TwoKinds DEF CheckedStaysInPlace, StillInPlace, Slots
  <2>4. CallsKept /\ flagged' \subseteq Slots /\ UNCHANGED <<decision, requests>>
    BY <1>1, <1>3, EndsStep, Domains DEF RequestInsert
  <2> HIDE DEF all
  <2>5. ArrangementSaved(all, event) BY <2>1 DEF all
  <2> QED BY <1>1, <2>2, <2>3, <2>4, <2>5, Domains, ArrangementKeeps
<1> QED BY <1>2, <1>3 DEF AskForVenue

(* Progress of one request, of an event that is not past the check. *)
LEMMA ProgressKeeps ==
  ASSUME IInv, NEW a \in Slots, NEW as \in Arranged,
         ArrangementSaved([arranged EXCEPT ![a] = as], event), event.status \notin Locked,
         UNCHANGED <<flagged, decision, requests, calls>>
  PROVE  IInv'
<1>1. TypeOK BY DEF IInv
<1> DEFINE all == [arranged EXCEPT ![a] = as]
<1>2. all \in [Slots -> Arranged] BY <1>1, Domains
<1>3. ArrangementSaved(all, event) OBVIOUS
<1>4. flagged' \subseteq Slots /\ CallsKept BY <1>1, Domains, CallsUnchanged
<1> HIDE DEF all
<1> QED BY <1>1, <1>2, <1>3, <1>4, Domains, ArrangementKeeps

LEMMA VenueApprovedKeeps == ASSUME IInv, NEW b \in Bookings, VenueApproved(b) PROVE IInv'
<1>1. event.status \notin Locked BY DEF VenueApproved, Decidable, Locked
<1> QED BY <1>1, ProgressKeeps DEF VenueApproved, Slots, Arranged

LEMMA LoanKeeps ==
  ASSUME IInv, NEW l \in Loans, LoanRequested(l) \/ LoanReserved(l) \/ LoanPlaced(l)
  PROVE  IInv'
<1>1. l \in Slots BY DEF Slots
<1>2. CASE LoanRequested(l)
  <2>1. event.status \notin Locked BY <1>2 DEF LoanRequested, Arrangeable, Locked
  <2> QED BY <1>1, <1>2, <2>1, ProgressKeeps DEF LoanRequested, Arranged
<1>3. CASE LoanReserved(l)
  <2>1. event.status \notin Locked
    BY <1>3 DEF LoanReserved, IInv, CheckedStaysInPlace, StillInPlace
  <2>2. PICK as \in {"unplaced", "approved"} :
          ArrangementSaved([arranged EXCEPT ![l] = as], event)
    BY <1>3 DEF LoanReserved
  <2> QED BY <1>1, <1>3, <2>1, <2>2, ProgressKeeps DEF LoanReserved, Arranged
<1>4. CASE LoanPlaced(l)
  <2>1. event.status \notin Locked BY <1>4 DEF LoanPlaced, Arrangeable, Locked
  <2>2. PICK as \in {"unplaced", "approved"} :
          ArrangementSaved([arranged EXCEPT ![l] = as], event)
    BY <1>4 DEF LoanPlaced
  <2> QED BY <1>1, <1>4, <2>1, <2>2, ProgressKeeps DEF LoanPlaced, Arranged
<1> QED BY <1>2, <1>3, <1>4

(* Requests that end, of an event that keeps a venue or leaves the check.   *)
LEMMA EndedKeeps ==
  ASSUME IInv, NEW these \in SUBSET Bookings, NEW as \in {"none", "rejected"}, NEW row \in Event,
         Ended(these, as, row),
         row.status \in Locked => /\ StillInPlace(row, arranged)
                                  /\ \A b \in these : arranged[b] # "approved"
  PROVE  IInv'
<1>1. TypeOK BY DEF IInv
<1> DEFINE all     == [a \in Slots |-> IF a \in these THEN as ELSE arranged[a]]
           settled == [row EXCEPT !.rechecks =
                         IF flagged' # flagged THEN @ \ Settleable(flagged') ELSE @]
<1>2. settled \in Event /\ settled.status = row.status /\ settled.rechecks \subseteq row.rechecks
  BY DEF Event
<1>3. all \in [Slots -> Arranged]
  BY <1>1, Domains DEF Arranged
<1>4. /\ flagged' \subseteq Slots /\ ArrangementSaved(all, settled)
      /\ UNCHANGED <<decision, requests>> /\ CallsKept
  BY <1>1, Domains, CallsUnchanged DEF Ended
<1>5. ASSUME settled.status \in Locked PROVE StillInPlace(settled, all)
  <2>1. StillInPlace(row, arranged) /\ \A b \in these : arranged[b] # "approved"
    BY <1>2, <1>5
  <2>2. settled.rechecks = {} BY <1>2, <2>1 DEF StillInPlace
  <2>3. PICK b \in Bookings : arranged[b] = "approved" BY <2>1 DEF StillInPlace
  <2>4. all[b] = "approved" BY <2>1, <2>3 DEF Slots
  <2>5. \A l \in Loans : all[l] = arranged[l] BY TwoKinds DEF Slots
  <2> HIDE DEF all, settled
  <2> QED BY <2>1, <2>2, <2>4, <2>5 DEF StillInPlace
<1> HIDE DEF all, settled
<1> QED BY <1>2, <1>3, <1>4, <1>5, ArrangementKeeps

LEMMA EndKeeps ==
  ASSUME IInv, NEW b \in Bookings, VenueRefused(b) \/ Withdrawn(b)
  PROVE  IInv'
<1>1. event \in Event /\ CheckedStaysInPlace BY Domains DEF IInv
<1>2. PICK as \in {"none", "rejected"} : Ended({b}, as, event)
  BY DEF VenueRefused, Withdrawn
<1>3. arranged[b] # "approved" BY DEF VenueRefused, Withdrawn
<1>4. event.status \in Locked => StillInPlace(event, arranged) BY <1>1 DEF CheckedStaysInPlace
<1> QED BY <1>1, <1>2, <1>3, <1>4, EndedKeeps

LEMMA ReleasedKeeps == ASSUME IInv, NEW these \in SUBSET Bookings, Released(these) PROVE IInv'
<1>1. event \in Event BY Domains DEF IInv
<1> DEFINE row == IF event.status \in Locked
                    THEN [event EXCEPT !.status = "planning", !.rechecks = @ \cup {Recheck("venue")}]
                    ELSE event
<1>2. row \in Event /\ row.status \notin Locked
  BY <1>1, KeyTypes DEF Event, Status, Changeable, Locked, Kinds
<1>3. Ended(these, "none", row) BY DEF Released
<1> HIDE DEF row
<1> QED BY <1>2, <1>3, EndedKeeps

LEMMA ConfirmKeeps == ASSUME IInv, ConfirmEvent PROVE IInv'
<1>1. TypeOK /\ CheckedStaysInPlace BY DEF IInv
<1> DEFINE row == [event EXCEPT !.status = "confirmed"]
<1>2. row \in Event /\ row.rechecks = event.rechecks /\ row.status = "confirmed"
  BY <1>1, Domains DEF Event, Status, Changeable
<1>3. Saved(row, FALSE) BY DEF ConfirmEvent
<1> HIDE DEF row
<1>4. StillInPlace(row, arranged)
  <2>1. StillInPlace(event, arranged)
    BY <1>1 DEF ConfirmEvent, CheckedStaysInPlace, Locked
  <2> QED BY <1>2, <2>1, PlaceAlike
<1>5. ~Awaits(row) BY <1>2 DEF Awaits
<1> QED BY <1>1, <1>2, <1>3, <1>4, <1>5, Domains, CallsUnchanged, RequestsUnchanged, SavedKeeps
        DEF ConfirmEvent, ArrangementsKept

LEMMA CompleteKeeps == ASSUME IInv, Complete PROVE IInv'
<1>1. TypeOK BY DEF IInv
<1> DEFINE row == [event EXCEPT !.status = "completed"]
<1>2. row \in Event /\ row.status = "completed"
  BY <1>1, Domains DEF Event, Status, Changeable
<1>3. ~Awaits(row) /\ row.status \notin Locked BY <1>2 DEF Awaits, Locked
<1>4. Saved(row, FALSE) BY DEF Complete
<1> HIDE DEF row
<1> QED BY <1>1, <1>2, <1>3, <1>4, Domains, CallsUnchanged, RequestsUnchanged, SavedKeeps
        DEF Complete, ArrangementsKept

LEMMA CancelKeeps == ASSUME IInv, Cancel PROVE IInv'
<1>1. TypeOK BY DEF IInv
<1>2. event' \in Event /\ event'.status = "cancelled"
  BY <1>1, Domains DEF Cancel, Event, Status, Changeable
<1>3. CheckedStaysInPlace' BY <1>2 DEF CheckedStaysInPlace, Awaits, Locked
<1>4. ReviewsKept BY DEF Cancel, ReviewsKept
<1>5. RestTyped BY <1>1, Domains DEF Cancel, RestTyped, Arranged
<1>6. CallsKept /\ RequestsKept BY <1>1, CallsUnchanged, RequestsUnchanged DEF Cancel
<1> QED BY <1>2, <1>3, <1>4, <1>5, <1>6, Assembled

LEMMA LostKeeps == ASSUME IInv, NEW c \in Calls, CallLost(c) PROVE IInv'
<1>1. ReviewsKept BY DEF CallLost, ReviewsKept, Awaits
<1> QED BY <1>1, EndsStep, RequestsUnchanged, SameStep DEF CallLost, IInv

LEMMA StutterKeeps == ASSUME IInv, UNCHANGED vars PROVE IInv'
<1>1. TypeOK BY DEF IInv
<1>2. RowKept /\ ArrangementsKept /\ CallsKept /\ RequestsKept
  BY <1>1, CallsUnchanged, RequestsUnchanged DEF vars, RowKept, ArrangementsKept
<1> QED BY <1>2, RowStep

LEMMA Starts == Init => IInv
<1> SUFFICES ASSUME Init PROVE IInv
  OBVIOUS
<1>1. event \in Event /\ event.status = "approved"
  BY DEF Init, ApprovedEvent, Event, Status, Changeable
<1>2. TypeOK
  BY <1>1, IdleType DEF Init, NothingUnderWay, TypeOK, Decision, Request, Arranged
<1>3. CheckedStaysInPlace BY <1>1 DEF CheckedStaysInPlace, Awaits, Locked
<1>4. CallsInv
  BY IdleType DEF Init, NothingUnderWay, CallsInv, RequestsNamed, EditsReplan, AcceptsNamed, ReviewsCurrent
<1> QED BY <1>2, <1>3, <1>4 DEF IInv

LEMMA NextKeeps == ASSUME IInv, [Next]_vars PROVE IInv'
<1>1. CASE \E c \in Calls : \/ Edit(c) \/ Accept(c) \/ Review(c)
                            \/ AskForVenue(c) \/ CallLost(c)
  BY <1>1, EditKeeps, AcceptKeeps, ReviewKeeps, AskForVenueKeeps, LostKeeps
<1>2. CASE \/ \E key \in Keys : Settle(key)
           \/ \E r \in Requests : Raise(r) \/ Refuse(r)
  BY <1>2, SettleKeeps, RaiseKeeps, RefuseKeeps
<1>3. CASE \/ \E b \in Bookings : VenueApproved(b) \/ VenueRefused(b) \/ Withdrawn(b)
           \/ \E these \in SUBSET Bookings : Released(these)
  BY <1>3, VenueApprovedKeeps, EndKeeps, ReleasedKeeps
<1>4. CASE \/ \E l \in Loans : LoanRequested(l) \/ LoanReserved(l) \/ LoanPlaced(l)
           \/ \E a \in Slots : ConfirmAgain(a)
  BY <1>4, LoanKeeps, ConfirmAgainKeeps
<1>5. CASE Rework \/ ConfirmEvent \/ Complete \/ Cancel
  BY <1>5, ReworkKeeps, ConfirmKeeps, CompleteKeeps, CancelKeeps
<1>6. CASE UNCHANGED vars BY <1>6, StutterKeeps
<1> QED BY <1>1, <1>2, <1>3, <1>4, <1>5, <1>6 DEF Next

-----------------------------------------------------------------------------
LEMMA Invariant == Spec => []IInv
  BY Starts, NextKeeps, PTL DEF Spec

(* Every variable stays in its domain.                                      *)
THEOREM TypeCorrect == Spec => []TypeOK
<1>1. IInv => TypeOK BY DEF IInv
<1> QED BY <1>1, Invariant, PTL

(* However late an edit changes the details, the equipment asked for among  *)
(* them, and however late a venue request is made, refused or released, an  *)
(* event in the safety check has everything in place, and one past it keeps *)
(* what was approved (the triggers of 202610190004 and 202610290001).       *)
THEOREM AlwaysInPlace == Spec => []CheckedStaysInPlace
<1>1. IInv => CheckedStaysInPlace BY DEF IInv
<1> QED BY <1>1, Invariant, PTL

(* Only a review that is being decided, and is current, changes the latest  *)
(* decision, so the decision is of the event as it is.                      *)
LEMMA DecisionStep ==
  ASSUME IInv, [Next]_vars
  PROVE  decision' # decision => decision'.shown = event.shown
<1> SUFFICES ASSUME decision' # decision PROVE decision'.shown = event.shown
  OBVIOUS
<1>1. \E c \in Calls : SafetyDecision(c)
  BY DEF Next, vars, ArrangementsKept, Edit, EditRead, EditWrite, Accept, AcceptRead, AcceptApply,
         AcceptRecord, Settle, Review, ReviewRead, CallLost, Raise, Refuse, AskForVenue,
         RequestRead, RequestInsert, VenueApproved, VenueRefused, Withdrawn, Released, Ended,
         LoanRequested, LoanReserved, LoanPlaced, ConfirmAgain, Rework, ConfirmEvent, Complete, Cancel
<1>2. PICK c \in Calls : SafetyDecision(c) BY <1>1
<1>3. c \in current /\ decision'.shown = calls[c].shown /\ calls[c].kind = "review"
  <2>1. calls[c].kind = "review" BY <1>2 DEF SafetyDecision, At
  <2>2. Awaits(event) /\ c \in current BY <1>2 DEF SafetyDecision
  <2>3. PICK kind \in {"approve", "reject", "request_changes"} :
          decision' = [kind |-> kind, shown |-> calls[c].shown]
    BY <1>2, <2>2 DEF SafetyDecision
  <2> QED BY <2>1, <2>2, <2>3
<1> QED BY <1>3 DEF IInv, CallsInv, ReviewsCurrent

(* The Safety Officer decides on the details the event has, whatever        *)
(* changed, and came back, since the review was read.                       *)
THEOREM ReviewedIsDecided == Spec => DecidedAsReviewed
<1>1. IInv /\ [Next]_vars => [decision' # decision => decision'.shown = event.shown]_vars
  BY DecisionStep
<1> QED BY <1>1, Invariant, PTL DEF Spec, DecidedAsReviewed

-----------------------------------------------------------------------------
(* The panel against the confirmation gate (Readiness).  Every tally of the *)
(* panel counts a set that is empty exactly when the gate finds no such row, *)
(* and an event whose rechecks are open is not past its safety check.       *)

(* Any number of requests of either kind, and any rechecks until the event  *)
(* is in Preparation.                                                       *)
RechecksSettled == eventRow.status \in {"preparation", "confirmed"} => eventRow.rechecks = {}

RowsOK ==
  /\ venueRows \subseteq VenueRows /\ IsFiniteSet(venueRows)
  /\ equipmentRows \subseteq EquipmentRows
  /\ RechecksSettled

LEMMA AtMostTwoFinite ==
  ASSUME NEW S, NEW T \in AtMostTwo(S)
  PROVE  T \subseteq S /\ IsFiniteSet(T)
<1>1. CASE T = {}
  BY <1>1, FS_EmptySet
<1>2. ASSUME NEW a \in S, NEW b \in S, T = {a, b} PROVE T \subseteq S /\ IsFiniteSet(T)
  <2>1. IsFiniteSet({a}) /\ T = {a} \cup {b}
    BY <1>2, FS_Singleton
  <2>2. QED  BY <2>1, FS_AddElement
<1>3. QED  BY <1>1, <1>2 DEF AtMostTwo

LEMMA ReadinessStarts == ReadinessInit => RowsOK
<1> SUFFICES ASSUME ReadinessInit PROVE RowsOK
  OBVIOUS
<1>1. RechecksSettled
  BY DEF ReadinessInit, EventRows, RechecksSettled
<1>3. venueRows \subseteq VenueRows /\ IsFiniteSet(venueRows)
  <2> DEFINE row == [status |-> "approved", direct |-> TRUE, held |-> FALSE,
                     booking |-> "confirmed", affected |-> FALSE]
  <2>1. CASE venueRows \in AtMostTwo(VenueRows)
    BY <2>1, AtMostTwoFinite
  <2>2. CASE venueRows = {v \in VenueRows : v.direct /\ v.booking = "confirmed" /\ ~v.affected}
    <3>1. \A v \in venueRows : v = row
      BY <2>2 DEF VenueRows
    <3>2. venueRows \in SUBSET {row} /\ IsFiniteSet({row})
      BY <3>1, FS_Singleton
    <3>3. IsFiniteSet(venueRows)
      BY <3>2, FS_Subset
    <3>4. QED  BY <2>2, <3>3
  <2>3. QED  BY <2>1, <2>2 DEF ReadinessInit
<1>4. equipmentRows \subseteq EquipmentRows
  <2>1. CASE equipmentRows = {}
    BY <2>1
  <2>2. CASE equipmentRows \in AtMostTwo(EquipmentRows)
    BY <2>2, AtMostTwoFinite
  <2>3. QED  BY <2>1, <2>2 DEF ReadinessInit
<1>5. QED  BY <1>1, <1>3, <1>4 DEF RowsOK

LEMMA VenueRowFacts ==
  ASSUME NEW v \in VenueRows
  PROVE  /\ v.status \in {"pending", "rejected", "approved", "cancelled"}
         /\ v.status = "approved" => v.direct \/ v.held
  BY DEF VenueRows

(* A count is zero of an empty set alone. *)
LEMMA CountsNone ==
  ASSUME NEW S, IsFiniteSet(S)
  PROVE  /\ Cardinality(S) = 0 <=> S = {}
         /\ Cardinality(S) > 0 <=> S # {}
  BY FS_EmptySet, FS_CardinalityType

(* The panel's rule for venues is the gate's. *)
LEMMA VenuesAgree ==
  ASSUME RowsOK
  PROVE  ComputeVenue(EventArrangementFacts) = "outstanding" <=> VenueUnready
<1> DEFINE facts    == EventArrangementFacts
           asked    == facts.venue_requests
           needed   == {v \in asked : v.status # "cancelled"}
           Fact(v)  == [status |-> v.status, of |-> v,
                        booked |-> (v.direct \/ v.held) /\ v \in ConfirmedBookings]
<1>1. asked = {Fact(v) : v \in venueRows}
  BY DEF EventArrangementFacts
<1>2. IsFiniteSet(asked)
  <2> DEFINE f == [v \in venueRows |-> Fact(v)]
  <2>1. f \in Surjection(venueRows, asked)
    <3> HIDE DEF asked, Fact
    <3> QED  BY <1>1 DEF Surjection
  <2> HIDE DEF f, asked
  <2>2. QED  BY <2>1, FS_Surjection DEF RowsOK
<1>3. facts.affected_bookings = 0 <=> ~\E v \in venueRows : v.booking = "confirmed" /\ v.affected
  <2>1. IsFiniteSet({v \in ConfirmedBookings : v.affected})
    BY FS_Subset DEF RowsOK, ConfirmedBookings
  <2>2. QED  BY <2>1, CountsNone DEF EventArrangementFacts, ConfirmedBookings
<1>4. \A P \in SUBSET asked : IsFiniteSet(P)
  BY <1>2, FS_Subset
<1> DEFINE t == VenueTally(asked, facts.affected_bookings)
<1>5. /\ t.needed > 0 <=> needed # {}
      /\ t.pending = 0 <=> ~\E v \in asked : v.status = "pending"
      /\ t.rejected = 0 <=> ~\E v \in asked : v.status = "rejected"
      /\ t.unbooked = 0 <=> ~\E v \in asked : v.status = "approved" /\ ~v.booked
      /\ t.affected = facts.affected_bookings
  <2> HIDE DEF asked, facts
  <2> USE <1>4, CountsNone DEF VenueTally
  <2>1. t.needed > 0 <=> needed # {}
    OBVIOUS
  <2>2. t.pending = 0 <=> ~\E v \in asked : v.status = "pending"
    OBVIOUS
  <2>3. t.rejected = 0 <=> ~\E v \in asked : v.status = "rejected"
    OBVIOUS
  <2>4. t.unbooked = 0 <=> ~\E v \in asked : v.status = "approved" /\ ~v.booked
    OBVIOUS
  <2>5. QED  BY <2>1, <2>2, <2>3, <2>4
<1>6. ComputeVenue(facts) = "outstanding" <=>
        ~(t.needed > 0 /\ t.pending = 0 /\ t.rejected = 0 /\ t.affected = 0 /\ t.unbooked = 0)
  BY DEF ComputeVenue
<1>7. /\ needed # {} <=> \E v \in venueRows : v.status # "cancelled"
      /\ \A s : (\E v \in asked : v.status = s) <=> \E v \in venueRows : v.status = s
      /\ (\E v \in asked : v.status = "approved" /\ ~v.booked) <=>
           \E v \in venueRows : v.status = "approved" /\ v.booking # "confirmed"
  <2>1. \A v \in venueRows : /\ Fact(v) \in asked /\ Fact(v).status = v.status
                             /\ v.status = "approved" => (Fact(v).booked <=> v.booking = "confirmed")
    BY <1>1, VenueRowFacts DEF RowsOK, ConfirmedBookings
  <2>2. \A f \in asked : \E v \in venueRows : f = Fact(v)
    BY <1>1
  <2> HIDE DEF asked, Fact
  <2>3. QED  BY <2>1, <2>2
<1> HIDE DEF facts, asked, needed, t
<1>8. QED  BY <1>3, <1>5, <1>6, <1>7 DEF VenueUnready, facts

LEMMA EquipmentAgrees ==
  ASSUME RowsOK
  PROVE  ComputeEquipment(EventArrangementFacts, eventRow.needed) = "outstanding" <=> EquipmentUnready
<1> DEFINE asked    == EventArrangementFacts.equipment_requests
           live     == {q \in asked : IsLive(q)}
           inPlace  == {q \in live : q.reserved /\ q.placed /\ q.shortfall = 0}
           Fact(q)  == [status |-> q.status, shortfall |-> q.shortfall, of |-> q,
                        placed |-> q.placed, reserved |-> q.receipt]
<1>1. asked = {Fact(q) : q \in equipmentRows}
  BY DEF EventArrangementFacts
<1>2. \A q \in equipmentRows :
        /\ Fact(q) \in asked
        /\ Fact(q) \in live <=> IsLive(q)
        /\ Fact(q) \in inPlace <=> IsLive(q) /\ EquipmentPlaced(q)
  BY <1>1 DEF IsLive, EquipmentPlaced
<1>3. \A f \in asked : \E q \in equipmentRows : f = Fact(q)
  BY <1>1
<1>4. ComputeEquipment(EventArrangementFacts, eventRow.needed) = "outstanding" <=>
        (live = {} /\ eventRow.needed) \/ (live # {} /\ inPlace # live)
  BY DEF ComputeEquipment
<1>5. inPlace \subseteq live /\ live \subseteq asked
  OBVIOUS
<1> HIDE DEF asked, live, inPlace, Fact
<1>6. QED  BY <1>2, <1>3, <1>4, <1>5 DEF EquipmentUnready

(* The panel and the gate agree, for any number of venue and equipment      *)
(* requests and any rechecks (arrangementReadiness.ts against confirm_event). *)
THEOREM PanelAlwaysAgrees == RowsOK => PanelAgreesWithGate
<1> SUFFICES ASSUME RowsOK, eventRow.status \in Confirmable
             PROVE  ComputeArrangementReadiness = {} <=> ConfirmEventOutstanding = {}
  BY DEF PanelAgreesWithGate
<1>1. CASE ~IsSafetyApproved
  <2>1. "safety" \in ConfirmEventOutstanding
    BY <1>1 DEF ConfirmEventOutstanding
  <2>2. "safety" \in ComputeArrangementReadiness
    BY <1>1 DEF ComputeArrangementReadiness, ComputeSafety
  <2>3. QED  BY <2>1, <2>2
<1>2. CASE IsSafetyApproved
  <2>1. eventRow.rechecks = {}
    BY <1>2 DEF IsSafetyApproved, RowsOK, RechecksSettled
  <2>2. ComputeArrangementReadiness = {} <=>
          /\ ComputeVenue(EventArrangementFacts) # "outstanding"
          /\ ComputeEquipment(EventArrangementFacts, eventRow.needed) # "outstanding"
    BY <1>2, <2>1 DEF ComputeArrangementReadiness, ComputeRegistration, ComputeSafety
  <2>3. ConfirmEventOutstanding = {} <=> ~VenueUnready /\ ~EquipmentUnready
    BY <1>2, <2>1 DEF ConfirmEventOutstanding
  <2>4. QED  BY <2>2, <2>3, VenuesAgree, EquipmentAgrees
<1>3. QED  BY <1>1, <1>2
=============================================================================
