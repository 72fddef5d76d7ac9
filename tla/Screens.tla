------------------------------ MODULE Screens ------------------------------
(***************************************************************************)
(* The screens of the browser client, each as the rules it follows to load *)
(* what it shows and to save what its user changes: one machine, and one   *)
(* rule record per component.  What a screen asks for is read by the       *)
(* server in one step and answered in a later one; an answer may come      *)
(* after the screen has asked again, may be an error, or may never come;   *)
(* other users change the same subject meanwhile.                          *)
(***************************************************************************)
EXTENDS Naturals, FiniteSets, NoValue

CONSTANTS Subjects,  \* what a screen may be about: an event, a filter, a month
          Changes    \* changes saved on the server, by this screen or elsewhere

ASSUME NoneIsNoRecord ==
  /\ None \notin [of : Subjects, seen : SUBSET Changes]
  /\ None \notin [of : Subjects, read : BOOLEAN, seen : SUBSET Changes]

VARIABLES screen,   \* the rules of the screen that is open
          subject,  \* what it is about
          shown,    \* what it shows: a subject and the changes it includes
          failed,   \* its last question failed, which it says
          ask,      \* the question whose answer it waits for
          late,     \* an earlier question whose answer may still come
          save,     \* its save under way
          own,      \* the saves it was told were carried out
          content   \* the changes the server holds of each subject

screenVars == <<screen, subject, shown, failed, ask, late, save, own, content>>

-----------------------------------------------------------------------------
(* Rules.  A screen that loads shows nothing while it asks, shows an error  *)
(* in place of its content, never asks again by itself and saves nothing,   *)
(* unless its rules say otherwise:                                          *)
(*   turns    its subject may change while it is open                       *)
(*   again    it may ask again though nothing failed: never, unless a save  *)
(*            is under way, or always                                       *)
(*   waits    while it asks it is blank, says so beside what it shows, or   *)
(*            goes on showing it silently                                   *)
(*   keyed    asking again mounts it anew: a save of before is not heard    *)
(*   fails    an error replaces what it shows, or stands beside it          *)
(*   early    its form is open before its first answer                      *)
(*   merges   an answer keeps the screen's own saves                        *)
(*   after    a save carried out is patched in, asked for, or both          *)
(*   refused  a save refused leaves the screen as it is, asks again, or     *)
(*            takes what it shows away                                      *)

Loads == [turns |-> FALSE, again |-> "never", waits |-> "blank", keyed |-> FALSE,
          fails |-> "blank", early |-> FALSE, merges |-> FALSE, after |-> {}, refused |-> "stays"]

Turning(s)        == [s EXCEPT !.turns = TRUE]
Asking(s, when)   == [s EXCEPT !.again = when]
Waiting(s, how)   == [s EXCEPT !.waits = how, !.fails = "beside"]
Saving(s, after)  == [s EXCEPT !.after = after]
Keyed(s)          == [s EXCEPT !.keyed = TRUE]

(* The forms, by what their screen does once they are saved. *)
DecisionPanel       == {"patch"}
CompletePanel       == {"patch"}
ConfirmPanel        == {"patch"}
useOpenedForReview  == {"patch"}
PlanningDrawerPanel == {"patch"}
VenueDecision       == {"patch"}
RecheckSettleActions  == {"asks"}
VenueWithdrawControl  == {"asks"}
ReleaseForm           == {"asks"}
WithdrawControl       == {"asks"}
CancellationPanel     == {"asks"}
RequestFields         == {"asks"}
SafetyDecisionForm    == {"asks"}
SettingsForm          == {"patch"}
RegisterSection       == {"patch"}
ReservationForm       == {"patch"}
RequirementEditor     == {"patch"}

(* Lists and pictures that only load. *)
EventsTable           == Turning(Loads)
EventSearch           == Turning(Loads)
AvailabilityCalendar  == Turning(Loads)
VenueSearch           == [Turning(Loads) EXCEPT !.waits = "announced"]
OrganisationDashboard == Loads
LeadDashboard         == Loads
SafetyDashboard       == Loads
FindEventsList        == Asking(Loads, "always")
EventAuditDrawer      == Turning(Asking(Loads, "always"))
SafetyDecisionHistory == Loads
ConfirmedArrangements == Loads
CapacityExceptions    == Asking(Loads, "always")
EventArrangements     == Loads
NotificationEvent     == Loads
BookingClashes        == Loads
EventVenueFit         == Loads
AvailabilityCheck     == Asking(Loads, "always")

(* Screens that patch what they were told into what they show. *)
DraftRequests           == Saving(Loads, {"patch"})
CoordinatorAssignment   == Saving(Loads, {"patch"})
AssignmentQueue         == Saving(Loads, {"patch"})
ChangeRequestsPanel     == Saving(Loads, {"patch"})
SafetyRereviewQueue     == Saving(Loads, {"patch"})
Profile                 == Saving(Loads, {"patch"})
BookingRequestFit       == Saving(Loads, {"patch"})
ReminderFrequency       == Saving(Loads, {"patch"})
RegistrationPanel       == Saving(Loads, SettingsForm)
EventDetails            == Saving(Loads, RegisterSection)
VenueHoldsWhileSaving   == Asking(Saving(Loads, {"patch"}), "always")   \* MUTANT of VenueHolds
VenueHolds              == Asking(Saving(Loads, {"patch"}), "idle")
VenueCatalogue          == [Saving(Loads, {"patch"}) EXCEPT !.refused = "blank"]
EquipmentDesk           == [Saving(Loads, {"patch"}) EXCEPT !.refused = "blank"]
Requirements            == [Asking(Saving(Loads, RequirementEditor), "idle") EXCEPT !.refused = "blank"]
Reservations            == [Asking(Saving(Loads, ReservationForm), "idle") EXCEPT !.refused = "blank"]
ClarificationThread     == [Saving(Loads, {"patch"}) EXCEPT !.early = TRUE, !.merges = TRUE]
VenueBlocks             == [Saving(Loads, {"patch"}) EXCEPT !.early = TRUE]

(* Screens that ask again once they have saved. *)
MyRegistrations         == Saving(Loads, WithdrawControl)
EventVenueRequests      == Asking(Saving(Loads, VenueWithdrawControl \cup RequestFields), "always")
BookingList             == Asking(Saving(Loads, ReleaseForm), "always")
SafetyDecisionSummary   == Saving(Loads, {"asks"})
EventDetail             == Saving(Loads, {"asks"} \cup CancellationPanel)
SafetyChecks            == [Asking(Saving(Loads, SafetyDecisionForm), "always") EXCEPT !.refused = "asks"]
ArrangementRechecks     == Saving(Loads, RecheckSettleActions)
OrganiserChangeRequests == Saving([Waiting(Loads, "silent") EXCEPT !.early = TRUE], {"asks"})
CoordinatorOverview     == Saving(Waiting(Turning(Loads), "announced"), {"asks"})

QueueContent == Turning(Keyed(Asking(Loads, "always")))
ItemDetail   ==
  Saving(QueueContent, useOpenedForReview \cup DecisionPanel \cup CompletePanel \cup ConfirmPanel
                         \cup PlanningDrawerPanel \cup VenueDecision \cup RecheckSettleActions)

Rules ==
  {EventsTable, EventSearch, AvailabilityCalendar, OrganisationDashboard, LeadDashboard,
   SafetyDashboard, EventDetails, FindEventsList, EventAuditDrawer, SafetyDecisionHistory,
   ConfirmedArrangements, CapacityExceptions, EventArrangements, NotificationEvent,
   BookingClashes, EventVenueFit, AvailabilityCheck, DraftRequests, CoordinatorAssignment,
   AssignmentQueue, ChangeRequestsPanel, SafetyRereviewQueue, Profile, BookingRequestFit,
   ReminderFrequency, RegistrationPanel, VenueHolds, VenueBlocks, VenueCatalogue,
   EquipmentDesk, Requirements, Reservations, ClarificationThread, MyRegistrations,
   EventVenueRequests, BookingList, SafetyDecisionSummary, EventDetail, SafetyChecks,
   ArrangementRechecks, OrganiserChangeRequests, CoordinatorOverview, VenueSearch,
   QueueContent, ItemDetail}

-----------------------------------------------------------------------------
Content(s, seen) == [of |-> s, seen |-> seen]
Question(s)      == [of |-> s, read |-> FALSE, seen |-> {}]

(* The screen asks about s: the question before it, if any, is overtaken. *)
Asks(s) ==
  /\ ask' = Question(s)
  /\ late' = IF ask = None THEN late ELSE ask
  /\ subject' = s
  /\ failed' = FALSE
  /\ shown' = IF screen.waits = "blank" THEN None ELSE shown

Unheard == IF screen.keyed /\ save # None THEN [save EXCEPT !.heard = FALSE] ELSE save

Turn(s) ==
  /\ screen.turns
  /\ s # subject
  /\ Asks(s)
  /\ save' = Unheard
  /\ UNCHANGED <<screen, own, content>>

(* Its Retry asks again, or the user who leaves it and comes back. *)
MayAskAgain == \/ failed
               \/ screen.again = "always"
               \/ screen.again = "idle" /\ save = None

AskAgain ==
  /\ ask = None
  /\ MayAskAgain
  /\ Asks(subject)
  /\ save' = Unheard
  /\ UNCHANGED <<screen, own, content>>

Read(q) == [q EXCEPT !.read = TRUE, !.seen = content[q.of]]

ServerReads ==
  /\ \/ ask # None  /\ ~ask.read  /\ ask' = Read(ask)   /\ UNCHANGED late
     \/ late # None /\ ~late.read /\ late' = Read(late) /\ UNCHANGED ask
  /\ UNCHANGED <<screen, subject, shown, failed, save, own, content>>

Answered ==
  /\ ask # None /\ ask.read
  /\ shown' = Content(ask.of, IF screen.merges THEN ask.seen \cup own[ask.of] ELSE ask.seen)
  /\ ask' = None
  /\ UNCHANGED <<screen, subject, failed, late, save, own, content>>

Failed ==
  /\ ask # None
  /\ ask' = None
  /\ failed' = TRUE
  /\ shown' = IF screen.fails = "blank" THEN None ELSE shown
  /\ UNCHANGED <<screen, subject, late, save, own, content>>

(* MUTANT of LateAnswer: it is shown.                                      *)
LateAnswerTaken == shown' = Content(late.of, late.seen)

(* The answer to a question the screen has overtaken changes nothing. *)
LateAnswer == UNCHANGED shown

LateAnswered ==
  /\ late # None /\ late.read
  /\ LateAnswer
  /\ late' = None
  /\ UNCHANGED <<screen, subject, failed, ask, save, own, content>>

-----------------------------------------------------------------------------
Fresh(c) == (save # None => save.change # c) /\ \A s \in Subjects : c \notin content[s]

Elsewhere(s, c) ==
  /\ Fresh(c)
  /\ content' = [content EXCEPT ![s] = @ \cup {c}]
  /\ UNCHANGED <<screen, subject, shown, failed, ask, late, save, own>>

(* One save at a time: its button, or a ref, stops a second one. *)
Save(c) ==
  /\ save = None
  /\ screen.after # {}
  /\ screen.early \/ shown # None
  /\ Fresh(c)
  /\ save' = [of |-> subject, change |-> c, carried |-> FALSE, heard |-> TRUE]
  /\ UNCHANGED <<screen, subject, shown, failed, ask, late, own, content>>

CarriedOut ==
  /\ save # None /\ ~save.carried
  /\ save' = [save EXCEPT !.carried = TRUE]
  /\ content' = [content EXCEPT ![save.of] = @ \cup {save.change}]
  /\ UNCHANGED <<screen, subject, shown, failed, ask, late, own>>

Told == own' = [own EXCEPT ![save.of] = @ \cup {save.change}]

(* The save comes back carried out, and is added to what is shown. *)
Patched ==
  /\ save # None /\ save.carried /\ "patch" \in screen.after
  /\ save' = None
  /\ IF save.heard THEN Told ELSE UNCHANGED own
  /\ IF save.heard /\ (shown # None \/ screen.merges)
       THEN shown' = Content(save.of, {save.change} \cup IF shown = None THEN {} ELSE shown.seen)
       ELSE UNCHANGED shown
  /\ UNCHANGED <<screen, subject, failed, ask, late, content>>

(* The save comes back carried out, and the screen asks anew. *)
SavedAskedFor ==
  /\ save # None /\ save.carried /\ "asks" \in screen.after
  /\ save' = None
  /\ Told
  /\ Asks(subject)
  /\ UNCHANGED <<screen, content>>

(* The save is refused, or fails before or after it is carried out. *)
SaveLost ==
  /\ save # None
  /\ save' = None
  /\ UNCHANGED <<screen, subject, shown, failed, ask, late, own, content>>

SaveRefused ==
  /\ save # None /\ ~save.carried /\ screen.refused # "stays"
  /\ save' = None
  /\ \/ screen.refused = "asks" /\ Asks(subject)
     \/ /\ screen.refused = "blank"
        /\ shown' = None
        /\ failed' = TRUE
        /\ UNCHANGED <<subject, ask, late>>
  /\ UNCHANGED <<screen, own, content>>

-----------------------------------------------------------------------------
ScreensInit ==
  /\ screen \in Rules
  /\ subject \in Subjects
  /\ shown = None
  /\ failed = FALSE
  /\ ask = Question(subject)
  /\ late = None
  /\ save = None
  /\ own = [s \in Subjects |-> {}]
  /\ content = [s \in Subjects |-> {}]

ScreensNext ==
  \/ \E s \in Subjects : Turn(s)
  \/ AskAgain
  \/ ServerReads
  \/ Answered
  \/ Failed
  \/ LateAnswered
  \/ \E s \in Subjects, c \in Changes : Elsewhere(s, c)
  \/ \E c \in Changes : Save(c)
  \/ CarriedOut
  \/ Patched
  \/ SavedAskedFor
  \/ SaveLost
  \/ SaveRefused

ScreensSpec == ScreensInit /\ [][ScreensNext]_screenVars

-----------------------------------------------------------------------------
Questions == {None} \cup [of : Subjects, read : BOOLEAN, seen : SUBSET Changes]

ScreensTypeOK ==
  /\ screen \in Rules
  /\ subject \in Subjects
  /\ shown \in {None} \cup [of : Subjects, seen : SUBSET Changes]
  /\ failed \in BOOLEAN
  /\ ask \in Questions
  /\ late \in Questions
  /\ save \in {None} \cup [of : Subjects, change : Changes, carried : BOOLEAN, heard : BOOLEAN]
  /\ own \in [Subjects -> SUBSET Changes]
  /\ content \in [Subjects -> SUBSET Changes]

(* The screen says that what it shows may not be what it is about. *)
Unsettled == ask # None \/ failed

(* A screen shows another subject than its own only while it says it is     *)
(* asking or could not; a screen that empties itself to ask never does.     *)
ShowsWhatItAsked ==
  shown # None /\ shown.of # subject => Unsettled /\ screen.waits # "blank"

(* Once a screen was told that its save is carried out, it does not settle  *)
(* on showing that subject without it.  VenueBlocks, whose form is open     *)
(* while its list loads and which takes the list as it comes, is left out.  *)
OwnSaveShown ==
  shown # None /\ ~Unsettled /\ screen # VenueBlocks => own[shown.of] \subseteq shown.seen
=============================================================================
