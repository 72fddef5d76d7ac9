------------------------------ MODULE Answers ------------------------------
(***************************************************************************)
(* What the browser tells its user about a call: for every function of the *)
(* client's api modules and the route it calls, the answers the route can  *)
(* give before and after it has changed something, and what the function   *)
(* makes of each, of an answer whose body cannot be read, and of none.     *)
(***************************************************************************)
EXTENDS Naturals, NoValue

VARIABLES call,      \* the function called, with its route
          carried,   \* the route changed what it was asked to change, or part of it
          answer,    \* the status of the answer, None when none arrives
          readable   \* its body has the shape the function expects

answersVars == <<call, carried, answer, readable>>

Signed == {401, 403}          \* requireAuth and requirePermission
Reasoned   == {400, 404, 409}     \* a refusal that names its reason
OK     == {200, 201, 204}

(* 503 from a route's own error path, which cannot tell whether the database *)
(* carried the call out, 500 and 504 from Express and the host.              *)
Broken == {500, 503, 504}

ASSUME NoneIsNoAnswer == None \notin Signed \cup Reasoned \cup OK \cup Broken

-----------------------------------------------------------------------------
(* Routes: the refusals answered before anything is changed, and those that *)
(* can still be answered after something was.                               *)

Reads(early)        == [writes |-> FALSE, early |-> early, after |-> {}]
Writes(early)       == [writes |-> TRUE, early |-> early, after |-> {}]
Fails(route, after) == [route EXCEPT !.after = after]

CreateDraft  == Writes({400})
Submit       == Writes(Reasoned)
DeleteDraft  == Writes(Reasoned)
UpdateDraft  == Writes(Reasoned)

(* MUTANT of Planning: the event found locked after writing audit rows.    *)
PlanningRefusedLate == Fails(Writes(Reasoned), {409})

Planning     == Writes(Reasoned)
Assign       == Writes(Reasoned)
ReviewRequest    == Writes({400, 404})
Decide       == Writes({400, 404})
CompleteEvent    == Writes(Reasoned)
Confirm      == Writes(Reasoned)
PostMessage  == Writes({400, 404})
DecideSafety     == Writes(Reasoned)
ReworkEvent      == Writes(Reasoned)
ConfirmRereview  == Writes(Reasoned)
RaiseChange      == Writes(Reasoned)
AcceptChange     == Writes(Reasoned)
RefuseChange     == Writes(Reasoned)
SettleRecheck    == Writes(Reasoned)
AskToCancel      == Writes(Reasoned)
CancelEvent      == Writes(Reasoned)
Registration     == Writes(Reasoned)
Join             == Writes(Reasoned)
Leave            == Writes({400, 404})
Withdraw         == Writes(Reasoned)
Settings         == Writes(Reasoned)
CloseNow         == Writes(Reasoned)
SaveProfile      == Writes({400, 409})
Equipment        == Writes({400, 409})
Requirement      == Writes(Reasoned)
Reservation      == Writes(Reasoned)
Notices          == Writes({400, 404})
SaveVenue        == Writes({400, 404})
DeleteVenue      == Writes(Reasoned)
RemoveBlock      == Writes({400, 404})
Operations       == Writes({400, 404})
ReleaseBooking   == Writes(Reasoned)
RequestVenue     == Writes(Reasoned)
WithdrawRequest  == Writes(Reasoned)
DecideRequest    == Writes(Reasoned)
Exception        == Writes(Reasoned)
Hold             == Writes(Reasoned)

(* The block is inserted and then listed, the layouts are deleted and then  *)
(* inserted, in two calls under the user's own token each.                  *)
CreateBlock      == Fails(Writes({400, 404}), Signed)
ReplaceLayouts   == Fails(Writes({400, 404}), Signed)

-----------------------------------------------------------------------------
(* Functions: which answers they present as a refusal whatever the body     *)
(* (firm) or when the body says so (told), and whether success needs one.   *)

Function(route, firm, told) == [route |-> route, firm |-> firm, told |-> told, needs |-> TRUE]
Bodyless(f) == [f EXCEPT !.needs = FALSE]

(* KIND_BY_STATUS, and the error classes that look at the status alone. *)
ByStatus(route) == Function(route, Signed \cup Reasoned, {})
Fetches(firm)   == Function(Reads({400, 404}), firm, {})
Signs           == Fetches(Signed)
Finds           == Fetches(Signed \cup {404})

createEventRequestDraft   == Function(CreateDraft, Signed, {400})
submitEventRequest        == Bodyless(Function(Submit, {400, 409}, {}))
fetchOwnEventRequests     == Bodyless(Signs)
fetchOwnEventDetail       == Finds
listMyDraftRequests       == Signs
fetchEventRequestDraft    == Finds
deleteEventRequestDraft   == Bodyless(Function(DeleteDraft, Signed \cup {404, 409}, {}))
updateEventRequestDraft   == Function(UpdateDraft, Signed \cup {404, 409}, {400})
getEventStage             == Finds
getEventArrangements      == Finds
updateEventPlanning       == ByStatus(Planning)
fetchAssignable           == Signs
assignCoordinator         == Bodyless(ByStatus(Assign))
completeEvent             == Bodyless(ByStatus(CompleteEvent))
fetchClarifications       == Finds
postClarification         == Function(PostMessage, Signed \cup {404}, {400})
getEventHistory           == Finds
fetchSafetyChecks         == Signs
recordSafetyDecision      == ByStatus(DecideSafety)
fetchSafetyDecisions      == Fetches(Signed \cup Reasoned)
reworkSafetyRejectedEvent == ByStatus(ReworkEvent)
fetchSafetyRereviews      == Fetches(Signed \cup Reasoned)
confirmSafetyRereview     == ByStatus(ConfirmRereview)
fetchChangeRequests       == Fetches(Signed \cup Reasoned)
raiseChangeRequest        == ByStatus(RaiseChange)
fetchOwnChangeRequests    == Fetches(Signed \cup Reasoned)
acceptChangeRequest       == ByStatus(AcceptChange)
refuseChangeRequest       == Bodyless(ByStatus(RefuseChange))
settleRecheck             == ByStatus(SettleRecheck)
fetchRegistrableEvents    == Signs
fetchRegistrableEvent     == Finds
registerForEvent          == Function(Registration, Signed \cup {404}, {400, 409})
joinWaitingList           == Function(Join, Signed \cup {404}, {409})
leaveWaitingList          == Bodyless(Function(Leave, Signed \cup {404}, {}))
fetchRegistrations        == Function(Reads({400, 404}), {}, Signed \cup Reasoned)
saveRegistrationSettings  == Function(Settings, {}, Signed \cup Reasoned)
closeRegistrationNow      == Function(CloseNow, {}, Signed \cup Reasoned)
fetchMyRegistrations      == Signs
withdrawRegistration      == Function(Withdraw, Signed \cup {404}, {409})
decideEventRequest        == Function(Decide, Signed \cup {400, 404}, {})
startEventReview          == Function(ReviewRequest, Signed \cup {404}, {})
fetchWorkQueue            == Finds
searchEvents              == Fetches(Signed \cup {400})
fetchSearchOptions        == Signs
confirmEvent              == ByStatus(Confirm)
loadEventConfirmation     == Finds
fetchProfile              == Signs
updateProfile             == Function(SaveProfile, Signed, {400, 409})
fetchCoordinatorOverview  == Fetches(Signed \cup {400})
requestCancellation       == ByStatus(AskToCancel)
cancelEvent               == ByStatus(CancelEvent)
fetchAssignmentQueue      == Signs
listEquipment             == Fetches(Signed \cup {400})
saveEquipment             == Function(Equipment, Signed \cup {400, 409}, {})
loadEquipmentRequirements == Fetches(Signed \cup Reasoned)
saveEquipmentRequirement  == ByStatus(Requirement)
saveEquipmentArrangement  == ByStatus(Requirement)
loadEquipmentReservations == Fetches(Signed \cup Reasoned)
reserveEquipment          == ByStatus(Reservation)
loadEquipmentAvailability == Fetches(Signed \cup {400, 404})
readNotification          == Function(Notices, Signed \cup {404}, {})
venueRequest              == Function(SaveVenue, Signed \cup {400, 404}, {})
deleteVenue               == Bodyless(ByStatus(DeleteVenue))
loadAllVenuesAvailability == Signs
fetchVenueBlocks          == Fetches(Signed \cup {400, 404})
createVenueBlock          == Function(CreateBlock, Signed \cup {400, 404}, {})
removeVenueBlock          == Bodyless(Function(RemoveBlock, Signed \cup {400, 404}, {}))
fetchEventBookings        == Function(Reads({400, 404}), Signed, Reasoned)
releaseBooking            == Function(ReleaseBooking, Signed, Reasoned)
fetchCapacityExceptions   == Signs
fetchVenueClashes         == Signs
fetchHolds                == Fetches(Signed \cup Reasoned)
changeHold                == ByStatus(Hold)
fetchVenueLayouts         == Fetches(Signed \cup {400, 404})
saveVenueLayouts          == Function(ReplaceLayouts, Signed \cup {400, 404}, {})
fetchVenueOperations      == Fetches(Signed \cup {400, 404})
saveVenueOperations       == Function(Operations, Signed \cup {400, 404}, {})
requestVenue              == Function(RequestVenue, Signed \cup {404}, {400, 409})
fetchVenueRequests        == Function(Reads({400, 404}), Signed \cup {404}, {400, 409})
withdrawVenueRequest      == Function(WithdrawRequest, Signed \cup {404}, {400, 409})
decideVenueRequest        == Function(DecideRequest, Signed \cup {404}, {400, 409})
searchVenues              == Fetches(Signed \cup {400})
fetchEventFit             == Finds
approveCapacityException  == Function(Exception, Signed \cup {404}, {409})
loadAccess                == Signs

Functions ==
  {createEventRequestDraft, submitEventRequest, fetchOwnEventRequests, fetchOwnEventDetail,
   listMyDraftRequests, fetchEventRequestDraft, deleteEventRequestDraft, updateEventRequestDraft,
   getEventStage, getEventArrangements, updateEventPlanning, fetchAssignable, assignCoordinator,
   completeEvent, fetchClarifications, postClarification, getEventHistory, fetchSafetyChecks,
   recordSafetyDecision, fetchSafetyDecisions, reworkSafetyRejectedEvent, fetchSafetyRereviews,
   confirmSafetyRereview, fetchChangeRequests, raiseChangeRequest, fetchOwnChangeRequests,
   acceptChangeRequest, refuseChangeRequest, settleRecheck, fetchRegistrableEvents,
   fetchRegistrableEvent, registerForEvent, joinWaitingList, leaveWaitingList, fetchRegistrations,
   saveRegistrationSettings, closeRegistrationNow, fetchMyRegistrations, withdrawRegistration,
   decideEventRequest, startEventReview, fetchWorkQueue, searchEvents, fetchSearchOptions,
   confirmEvent, loadEventConfirmation, fetchProfile, updateProfile, fetchCoordinatorOverview,
   requestCancellation, cancelEvent, fetchAssignmentQueue, listEquipment, saveEquipment,
   loadEquipmentRequirements, saveEquipmentRequirement, saveEquipmentArrangement,
   loadEquipmentReservations, reserveEquipment, loadEquipmentAvailability, readNotification,
   venueRequest, deleteVenue, loadAllVenuesAvailability, fetchVenueBlocks, createVenueBlock,
   removeVenueBlock, fetchEventBookings, releaseBooking, fetchCapacityExceptions,
   fetchVenueClashes, fetchHolds, changeHold, fetchVenueLayouts, saveVenueLayouts,
   fetchVenueOperations, saveVenueOperations, requestVenue, fetchVenueRequests,
   withdrawVenueRequest, decideVenueRequest, searchVenues, fetchEventFit,
   approveCapacityException, loadAccess}

-----------------------------------------------------------------------------
(* What may come back of a call that was carried out, and of one that was   *)
(* not; a call that only reads carries nothing out.                         *)

AnswersAfter(route)  == OK \cup route.after \cup Broken \cup {None}
AnswersBefore(route) ==
  Signed \cup route.early \cup Broken \cup {None} \cup IF route.writes THEN {} ELSE OK

(* What the function makes of it: done, refused, or that it does not know.  *)
ToldAs ==
  CASE answer = None                           -> "unknown"
    [] answer \in OK                           -> IF call.needs /\ ~readable THEN "unknown" ELSE "done"
    [] answer \in call.firm                    -> "refused"
    [] answer \in call.told /\ readable        -> "refused"
    [] OTHER                                   -> "unknown"

AnswersInit ==
  /\ call \in Functions
  /\ carried \in {FALSE, call.route.writes}
  /\ answer \in IF carried THEN AnswersAfter(call.route) ELSE AnswersBefore(call.route)
  /\ readable \in {answer # None, FALSE}

-----------------------------------------------------------------------------
(* What the user is told is true: a call reported as done was carried out   *)
(* and its answer read, and one reported as refused has changed nothing,    *)
(* however many of its steps were taken.  Three functions are left out for  *)
(* what the code really does: fetchOwnEventRequests shows an answer it      *)
(* cannot read as an empty list, and createVenueBlock and saveVenueLayouts  *)
(* report a block that was recorded, or layouts that were deleted, as       *)
(* refused when the session or the role ends between their two steps.       *)
OutcomesTrue ==
  /\ ToldAs = "done" => /\ call.route.writes => carried
                        /\ readable \/ call.route.writes \/ call = fetchOwnEventRequests
  /\ ToldAs = "refused" => ~carried \/ call.route \in {CreateBlock, ReplaceLayouts}
=============================================================================
