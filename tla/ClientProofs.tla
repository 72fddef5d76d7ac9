---------------------------- MODULE ClientProofs ----------------------------
(***************************************************************************)
(* Theorems about what the browser shows: the inbox (Inbox), the screens   *)
(* (Screens), the venue search with its calendar (VenueFinder), and what   *)
(* its functions make of an answer (Answers).                              *)
(***************************************************************************)
EXTENDS Inbox, Screens, VenueFinder, Answers, TLAPS

-----------------------------------------------------------------------------
(* The inbox, for pages of any size and any number of notices.              *)
(*                                                                          *)
(* Everything under way is as true as the page: what an answer marks is     *)
(* read, and a reload that is still current, or an older page on its way,   *)
(* marks what the page marks.                                               *)

(* The records have their fields. *)
Shapes ==
  /\ page = Page(page.notices, page.marked, page.cursor)
  /\ load = [at |-> load.at, current |-> load.current, pages |-> load.pages,
             combined |-> load.combined, answer |-> load.answer]
  /\ change = [kind |-> change.kind, at |-> change.at, of |-> change.of, answer |-> change.answer]

(* A page of notices that arrived, marked only where they are read. *)
True(p) == p.notices \subseteq 1 .. arrived /\ p.marked \subseteq seen

(* It would take no mark off the page. *)
Keeps(p) == page.marked \cap p.notices \subseteq p.marked

LoadInv ==
  /\ load.current \in BOOLEAN
  /\ load.current => change = NoChange
  /\ True(load.combined)
  /\ load.at = "answered" => True(load.answer)
  /\ load.current => Keeps(load.combined) /\ (load.at = "answered" => Keeps(load.answer))

ChangeInv ==
  /\ change.at = "asked" => /\ change.kind \in {"read", "readAll", "older"}
                            /\ change.kind = "read" => change.of \in 1 .. arrived
  /\ change.at = "answered" =>
       /\ change.kind = "read" => change.of \in seen
       /\ change.kind = "readAll" => page.notices \subseteq seen
       /\ change.kind = "older" => True(change.answer) /\ Keeps(change.answer)

InboxInv == Shapes /\ arrived \in Nat /\ seen \subseteq 1 .. arrived /\ True(page) /\ LoadInv /\ ChangeInv

-----------------------------------------------------------------------------
LEMMA PageRead ==
  ASSUME NEW cursor
  PROVE  /\ PageBefore(cursor).notices \subseteq 1 .. arrived
         /\ PageBefore(cursor).marked = PageBefore(cursor).notices \cap seen
  BY DEF PageBefore, Page

LEMMA PageReadKeeps ==
  ASSUME InboxInv, NEW cursor
  PROVE  True(PageBefore(cursor)) /\ Keeps(PageBefore(cursor))
  BY PageRead DEF InboxInv, True, Keeps

LEMMA MergedFields ==
  ASSUME NEW first, NEW older
  PROVE  LET p == Merged(first, older) IN
           /\ p = Page(p.notices, p.marked, p.cursor)
           /\ p.notices = first.notices \cup older.notices
           /\ p.marked = first.marked \cup (older.marked \ first.notices)
  BY DEF Merged, Page

LEMMA EmptyFields == Empty.notices = {} /\ Empty.marked = {}
                     /\ Empty = Page(Empty.notices, Empty.marked, Empty.cursor)
  BY DEF Empty, Page

LEMMA Begins == ASSUME MaxNotices \in Nat PROVE InboxInit => InboxInv
  BY EmptyFields DEF InboxInit, InboxInv, Shapes, True, LoadInv, Keeps, ChangeInv, NoLoad, NoChange, Page

(* Steps of the reload that leave the page. *)
LEMMA LoadStep ==
  ASSUME InboxInv, UNCHANGED <<arrived, seen, page, change>>, LoadInv',
         load' = [at |-> load'.at, current |-> load'.current, pages |-> load'.pages,
                  combined |-> load'.combined, answer |-> load'.answer]
  PROVE  InboxInv' /\ MarkStays
  BY DEF InboxInv, Shapes, True, Keeps, ChangeInv, MarkStays, Page

LEMMA LoadStartsKeeps == ASSUME InboxInv, LoadStarts PROVE InboxInv' /\ MarkStays
<1>1. /\ load' = [at |-> "asked", current |-> TRUE, pages |-> 0, combined |-> Empty, answer |-> None]
      /\ change = NoChange /\ UNCHANGED <<arrived, seen, page, depth, change>>
  BY DEF LoadStarts, Loading
<1>2. LoadInv'
  BY <1>1, EmptyFields DEF LoadInv, True, Keeps
<1> QED BY <1>1, <1>2, LoadStep

LEMMA LoadReadsKeeps == ASSUME InboxInv, LoadReads PROVE InboxInv' /\ MarkStays
<1> DEFINE read == PageBefore(load.combined.cursor)
<1>1. /\ load' = [at |-> "answered", current |-> load.current, pages |-> load.pages,
                  combined |-> load.combined, answer |-> read]
      /\ UNCHANGED <<arrived, seen, page, change>>
  BY DEF LoadReads, InboxInv, Shapes
<1>2. True(read) /\ Keeps(read)
  BY PageReadKeeps
<1>3. LoadInv'
  BY <1>1, <1>2 DEF InboxInv, LoadInv, True, Keeps
<1> QED BY <1>1, <1>3, LoadStep

LEMMA LoadFailsKeeps == ASSUME InboxInv, LoadFails PROVE InboxInv' /\ MarkStays
<1>1. /\ load' = [at |-> "idle", current |-> FALSE, pages |-> 0, combined |-> Empty, answer |-> None]
      /\ UNCHANGED <<arrived, seen, page, change>>
  BY DEF LoadFails, NoLoad
<1>2. LoadInv'
  BY <1>1, EmptyFields DEF LoadInv, True, Keeps
<1> QED BY <1>1, <1>2, LoadStep

LEMMA LoadAnsweredKeeps == ASSUME InboxInv, LoadAnswered PROVE InboxInv' /\ MarkStays
<1> DEFINE combined == Merged(load.answer, load.combined)
           pages    == load.pages + 1
<1>1. load.at = "answered" /\ UNCHANGED <<arrived, seen, change>>
  BY DEF LoadAnswered
<1>2. combined = Page(combined.notices, combined.marked, combined.cursor) /\ True(combined)
  BY <1>1, MergedFields DEF InboxInv, LoadInv, True
<1>3. load.current => Keeps(combined)
  BY <1>1, MergedFields DEF InboxInv, LoadInv, Keeps
<1> HIDE DEF combined
<1>4. CASE load.current /\ load' = Loading(pages, combined) /\ UNCHANGED page
  <2>1. load' = [at |-> "asked", current |-> TRUE, pages |-> pages,
                 combined |-> combined, answer |-> None]
    BY <1>4 DEF Loading
  <2>2. LoadInv'
    <3>1. load'.current = TRUE /\ load'.at = "asked" /\ load'.combined = combined
      BY <2>1
    <3>2. change' = NoChange
      BY <1>1, <1>4 DEF InboxInv, LoadInv
    <3>3. /\ load'.combined.notices \subseteq 1 .. arrived' /\ load'.combined.marked \subseteq seen'
          /\ page'.marked \cap load'.combined.notices \subseteq load'.combined.marked
      BY <1>1, <1>2, <1>3, <1>4, <3>1 DEF True, Keeps
    <3> QED BY <3>1, <3>2, <3>3 DEF LoadInv, True, Keeps
  <2> QED BY <1>1, <1>4, <2>1, <2>2, LoadStep
<1>5. CASE LoadApplies(combined, pages)
  <2>1. load' = [at |-> "idle", current |-> FALSE, pages |-> 0, combined |-> Empty, answer |-> None]
    BY <1>5 DEF LoadApplies, NoLoad
  <2>2. LoadInv'
    BY <2>1, EmptyFields DEF LoadInv, True, Keeps
  <2>3. CASE load.current
    <3>1. page' = combined /\ change = NoChange
      BY <1>5, <2>3 DEF LoadApplies, InboxInv, LoadInv
    <3>2. MarkStays
      BY <1>3, <2>3, <3>1 DEF MarkStays, Keeps
    <3>3. ChangeInv'
      BY <1>1, <3>1 DEF ChangeInv, NoChange
    <3>4. Shapes' /\ True(page)'
      BY <1>1, <1>2, <2>1, <3>1 DEF InboxInv, Shapes, True
    <3> QED BY <1>1, <2>2, <3>2, <3>3, <3>4 DEF InboxInv
  <2>4. CASE ~load.current
    BY <1>1, <1>5, <2>1, <2>2, <2>4, LoadStep DEF LoadApplies
  <2> QED BY <2>3, <2>4
<1> QED BY <1>4, <1>5 DEF LoadAnswered, combined

-----------------------------------------------------------------------------
LEMMA StartsKeeps ==
  ASSUME InboxInv, NEW kind \in {"read", "readAll", "older"}, NEW of, Starts(kind, of),
         kind = "read" => of \in 1 .. arrived
  PROVE  InboxInv' /\ MarkStays
<1>1. /\ change' = [kind |-> kind, at |-> "asked", of |-> of, answer |-> None]
      /\ load' = [at |-> load.at, current |-> FALSE, pages |-> load.pages,
                  combined |-> load.combined, answer |-> load.answer]
      /\ UNCHANGED <<arrived, seen, page>>
  BY DEF Starts, InboxInv, Shapes
<1>2. LoadInv' BY <1>1 DEF InboxInv, LoadInv, True
<1>3. ChangeInv' BY <1>1 DEF ChangeInv
<1> QED BY <1>1, <1>2, <1>3 DEF InboxInv, Shapes, True, MarkStays, Page

LEMMA CarriedOutKeeps == ASSUME InboxInv, ChangeCarriedOut PROVE InboxInv' /\ MarkStays
<1> DEFINE given == IF change.kind = "older" THEN PageBefore(change.of) ELSE None
<1>1. /\ change.at = "asked" /\ change.kind \in {"read", "readAll", "older"}
      /\ change' = [kind |-> change.kind, at |-> "answered", of |-> change.of, answer |-> given]
      /\ UNCHANGED <<arrived, page, load>>
  BY DEF ChangeCarriedOut, InboxInv, Shapes, ChangeInv
<1>2. /\ change.kind = "read"    => seen' = seen \cup {change.of}
      /\ change.kind = "readAll" => seen' = 1 .. arrived
      /\ change.kind = "older"   => seen' = seen
  BY <1>1 DEF ChangeCarriedOut
<1>3. ~load.current
  BY <1>1 DEF InboxInv, LoadInv, NoChange
<1>4. seen \subseteq seen' /\ seen' \subseteq 1 .. arrived
  BY <1>1, <1>2 DEF InboxInv, ChangeInv
<1>5. LoadInv'
  BY <1>1, <1>3, <1>4 DEF InboxInv, LoadInv, True
<1>6. ChangeInv'
  <2>1. change.kind = "older" =>
          /\ change'.answer.notices \subseteq 1 .. arrived /\ change'.answer.marked \subseteq seen'
          /\ page.marked \cap change'.answer.notices \subseteq change'.answer.marked
    BY <1>1, <1>4, PageReadKeeps DEF True, Keeps
  <2>2. change.kind = "readAll" => page.notices \subseteq seen'
    BY <1>2 DEF InboxInv, True
  <2> QED BY <1>1, <1>2, <2>1, <2>2 DEF ChangeInv, True, Keeps
<1>7. Shapes'
  BY <1>1 DEF InboxInv, Shapes, Page
<1> QED BY <1>1, <1>4, <1>5, <1>6, <1>7 DEF InboxInv, True, MarkStays

LEMMA AnsweredKeeps == ASSUME InboxInv, ChangeAnswered PROVE InboxInv' /\ MarkStays
<1>1. /\ change.at = "answered" /\ change' = NoChange /\ UNCHANGED <<arrived, seen, load>>
  BY DEF ChangeAnswered
<1>2. ~load.current
  BY <1>1 DEF InboxInv, LoadInv, NoChange
<1>3. LoadInv'
  BY <1>1, <1>2 DEF InboxInv, LoadInv, True
<1>4. ChangeInv'
  BY <1>1 DEF ChangeInv, NoChange
<1>5. /\ page' = Page(page'.notices, page'.marked, page'.cursor)
      /\ True(page') /\ MarkStays
  <2>1. CASE change.kind = "read" /\ page' = [page EXCEPT !.marked = @ \cup {change.of}]
    <3>1. page' = Page(page.notices, page.marked \cup {change.of}, page.cursor)
      BY <2>1 DEF InboxInv, Shapes, Page
    <3>2. /\ page'.notices = page.notices /\ page'.marked = page.marked \cup {change.of}
          /\ page'.cursor = page.cursor
      BY <3>1 DEF Page
    <3>3. change.of \in seen /\ page.notices \subseteq 1 .. arrived /\ page.marked \subseteq seen
      BY <1>1, <2>1 DEF InboxInv, ChangeInv, True
    <3> QED BY <1>1, <3>1, <3>2, <3>3 DEF True, MarkStays
  <2>2. CASE change.kind = "readAll" /\ page' = [page EXCEPT !.marked = page.notices]
    <3>1. page' = Page(page.notices, page.notices, page.cursor)
      BY <2>2 DEF InboxInv, Shapes, Page
    <3>2. page'.notices = page.notices /\ page'.marked = page.notices /\ page'.cursor = page.cursor
      BY <3>1 DEF Page
    <3>3. page.notices \subseteq seen /\ page.notices \subseteq 1 .. arrived
      BY <1>1, <2>2 DEF InboxInv, ChangeInv, True
    <3> QED BY <1>1, <3>1, <3>2, <3>3 DEF True, MarkStays
  <2>3. CASE change.kind = "older" /\ page' = Merged(change.answer, page)
    <3>1. True(change.answer) /\ Keeps(change.answer)
      BY <1>1, <2>3 DEF InboxInv, ChangeInv
    <3>2. /\ page' = Page(page'.notices, page'.marked, page'.cursor)
          /\ page'.notices = change.answer.notices \cup page.notices
          /\ page'.marked = change.answer.marked \cup (page.marked \ change.answer.notices)
      BY <2>3, MergedFields
    <3> QED BY <3>1, <3>2 DEF InboxInv, True, Keeps, MarkStays
  <2> QED BY <2>1, <2>2, <2>3 DEF ChangeAnswered
<1>6. Shapes' /\ True(page)'
  BY <1>1, <1>5 DEF InboxInv, Shapes, NoChange, True
<1> QED BY <1>1, <1>3, <1>4, <1>5, <1>6 DEF InboxInv

LEMMA ChangeFailsKeeps == ASSUME InboxInv, ChangeFails PROVE InboxInv' /\ MarkStays
<1>1. change # NoChange /\ change' = NoChange /\ UNCHANGED <<arrived, seen, page, load>>
  BY DEF ChangeFails
<1>2. LoadInv' BY <1>1 DEF InboxInv, LoadInv, True
<1>3. ChangeInv' BY <1>1 DEF ChangeInv, NoChange
<1>4. Shapes' BY <1>1 DEF InboxInv, Shapes, NoChange, Page
<1> QED BY <1>1, <1>2, <1>3, <1>4 DEF InboxInv, True, MarkStays

(* More arrives, or another tab reads. *)
LEMMA OutsideKeeps ==
  ASSUME InboxInv, arrived' \in Nat, arrived <= arrived',
         seen \subseteq seen', seen' \subseteq 1 .. arrived',
         UNCHANGED <<page, load, change>>
  PROVE  InboxInv' /\ MarkStays
<1>1. 1 .. arrived \subseteq 1 .. arrived' BY DEF InboxInv
<1>2. LoadInv' BY <1>1 DEF InboxInv, LoadInv, True, Keeps
<1>3. ChangeInv' BY <1>1 DEF InboxInv, ChangeInv, True, Keeps
<1>4. Shapes' BY DEF InboxInv, Shapes, Page
<1> QED BY <1>1, <1>2, <1>3, <1>4 DEF InboxInv, True, MarkStays

LEMMA NextKeeps == ASSUME InboxInv, [InboxNext]_inboxVars PROVE InboxInv' /\ [MarkStays]_inboxVars
<1>1. ASSUME NEW n \in 1 .. MaxNotices, ReadOne(n) PROVE InboxInv' /\ MarkStays
  <2>1. n \in 1 .. arrived BY <1>1 DEF ReadOne, InboxInv, True
  <2> QED BY <1>1, <2>1, StartsKeeps DEF ReadOne
<1>2. CASE ReadAll \/ Older BY <1>2, StartsKeeps DEF ReadAll, Older
<1>3. CASE Arrives
  <2>1. arrived' = arrived + 1 /\ UNCHANGED <<seen, page, load, change>> BY <1>3 DEF Arrives
  <2>2. arrived' \in Nat /\ arrived <= arrived' /\ seen' \subseteq 1 .. arrived'
    BY <2>1 DEF InboxInv
  <2> QED BY <2>1, <2>2, OutsideKeeps
<1>4. CASE OtherTabReads
  <2>1. /\ seen \subseteq seen' /\ seen' \subseteq 1 .. arrived
        /\ UNCHANGED <<arrived, page, load, change>>
    BY <1>4 DEF OtherTabReads, InboxInv
  <2> QED BY <2>1, OutsideKeeps DEF InboxInv
<1>5. CASE UNCHANGED inboxVars
  BY <1>5, OutsideKeeps DEF inboxVars, InboxInv
<1>6. CASE InboxNext
  BY <1>1, <1>2, <1>3, <1>4, <1>6, LoadStartsKeeps, LoadReadsKeeps, LoadAnsweredKeeps, LoadFailsKeeps,
     CarriedOutKeeps, AnsweredKeeps, ChangeFailsKeeps DEF InboxNext
<1> QED BY <1>5, <1>6

-----------------------------------------------------------------------------
(* A notice shown as read is read, and is never shown as unread again,      *)
(* whatever reload, older page, mutation or other tab was under way         *)
(* (HoldNotifications.tsx and notification_inbox).                          *)
THEOREM ReadNoticesStay == ASSUME MaxNotices \in Nat PROVE InboxSpec => ReadStaysRead
<1>1. InboxInit => InboxInv
  BY Begins
<1>2. InboxInv /\ [InboxNext]_inboxVars => InboxInv' /\ [MarkStays]_inboxVars
  BY NextKeeps
<1>3. InboxInv => MarkedIsRead
  BY DEF InboxInv, True, MarkedIsRead
<1> QED BY <1>1, <1>2, <1>3, PTL DEF InboxSpec, ReadStaysRead

-----------------------------------------------------------------------------
(* The screens, for any subjects and any changes to them.                   *)
(*                                                                          *)
(* Of the rules of the screens little matters.  A screen that patches its   *)
(* saves into what it shows empties itself to ask, hears nothing more of a  *)
(* save once it asks again under way, and lets no save begin before it      *)
(* shows something, or else merges its saves into the answer.  So a save    *)
(* that will be patched in finds the screen at rest, and every question     *)
(* read by the server after a save was told includes it.                    *)

(* What a screen with these rules may rely on. *)
Sound(s) ==
  /\ "patch" \in s.after =>
       /\ s.waits = "blank" /\ s.fails = "blank"
       /\ s.turns \/ s.again = "always" => s.keyed
       /\ s.early => s.merges \/ s = VenueBlocks
  /\ s.refused = "blank" => "patch" \in s.after /\ ~s.keyed /\ ~s.merges /\ s # VenueBlocks


(* A screen that patches nothing of its saves in, and is not emptied when one is refused. *)
Plainly(s) == "patch" \notin s.after /\ s.refused # "blank"

LEMMA RulesAreSound == \A s \in Rules : Sound(s)
<1> USE DEF Loads, Turning, Asking, Waiting, Saving, Keyed
<1>1. Plainly(EventsTable) /\ Plainly(EventSearch) /\ Plainly(AvailabilityCalendar) /\
      Plainly(VenueSearch) /\ Plainly(OrganisationDashboard)
  BY DEF Plainly, EventsTable, EventSearch, AvailabilityCalendar, VenueSearch,
         OrganisationDashboard
<1>2. Plainly(LeadDashboard) /\ Plainly(SafetyDashboard) /\ Plainly(FindEventsList) /\
      Plainly(EventAuditDrawer) /\ Plainly(SafetyDecisionHistory)
  BY DEF Plainly, LeadDashboard, SafetyDashboard, FindEventsList, EventAuditDrawer,
         SafetyDecisionHistory
<1>3. Plainly(ConfirmedArrangements) /\ Plainly(CapacityExceptions) /\
      Plainly(EventArrangements) /\ Plainly(NotificationEvent) /\ Plainly(BookingClashes)
  BY DEF Plainly, ConfirmedArrangements, CapacityExceptions, EventArrangements,
         NotificationEvent, BookingClashes
<1>4. Plainly(EventVenueFit) /\ Plainly(AvailabilityCheck) /\ Plainly(QueueContent) /\
      Plainly(SafetyDecisionSummary) /\ Plainly(MyRegistrations)
  BY DEF Plainly, EventVenueFit, AvailabilityCheck, QueueContent, SafetyDecisionSummary,
         MyRegistrations, WithdrawControl
<1>5. Plainly(EventVenueRequests) /\ Plainly(BookingList) /\ Plainly(EventDetail)
  BY DEF Plainly, EventVenueRequests, BookingList, EventDetail, VenueWithdrawControl,
         ReleaseForm, CancellationPanel, RequestFields
<1>6. Plainly(SafetyChecks) /\ Plainly(ArrangementRechecks)
  BY DEF Plainly, SafetyChecks, ArrangementRechecks, RecheckSettleActions, SafetyDecisionForm
<1>7. Plainly(OrganiserChangeRequests) /\ Plainly(CoordinatorOverview)
  BY DEF Plainly, OrganiserChangeRequests, CoordinatorOverview
<1>8. Sound(DraftRequests) /\ Sound(CoordinatorAssignment) /\ Sound(AssignmentQueue) /\
      Sound(ChangeRequestsPanel) /\ Sound(SafetyRereviewQueue)
  BY DEF Sound, DraftRequests, CoordinatorAssignment, AssignmentQueue, ChangeRequestsPanel,
         SafetyRereviewQueue
<1>9. Sound(Profile) /\ Sound(BookingRequestFit) /\ Sound(ReminderFrequency) /\
      Sound(RegistrationPanel) /\ Sound(EventDetails)
  BY DEF Sound, Profile, BookingRequestFit, ReminderFrequency, RegistrationPanel,
         EventDetails, SettingsForm, RegisterSection
<1>10. Sound(VenueHolds) /\ Sound(ClarificationThread) /\ Sound(VenueBlocks)
  BY DEF Sound, VenueHolds, ClarificationThread, VenueBlocks
<1>11. Sound(VenueCatalogue) /\ Sound(EquipmentDesk) /\ Sound(Requirements) /\
      Sound(Reservations)
  BY DEF Sound, VenueCatalogue, EquipmentDesk, Requirements, Reservations, VenueBlocks,
         ReservationForm, RequirementEditor
<1>12. Sound(ItemDetail)
  BY DEF Sound, ItemDetail, QueueContent
<1>13. \A s : Plainly(s) => Sound(s)
  BY DEF Plainly, Sound
<1>14. QED  BY ONLY <1>1, <1>2, <1>3, <1>4, <1>5, <1>6, <1>7, <1>8, <1>9, <1>10, <1>11, <1>12, <1>13 DEF Rules

-----------------------------------------------------------------------------
Patches == "patch" \in screen.after

(* An answer is shown as it comes, and no save is asked for before the first one. *)
Strict == ~screen.merges /\ screen # VenueBlocks

(* The question is about the subject, and what is shown too unless it says it may not be. *)
ShowInv ==
  /\ ask # None => ask.of = subject /\ ~failed
  /\ shown = None => Unsettled
  /\ shown # None /\ (screen.waits = "blank" \/ ~Unsettled) => shown.of = subject
  /\ Patches /\ ~screen.merges /\ shown # None => ~Unsettled

(* A save that will be patched in is of the subject, and of a screen at rest. *)
SaveInv ==
  /\ save # None /\ ~save.heard => screen.keyed
  /\ save # None /\ save.heard /\ Patches => save.of = subject /\ (Strict => ~Unsettled)
  /\ save # None /\ save.carried => save.change \in content[save.of]

(* What the screen was told is on the server, and in every answer read since. *)
OwnInv ==
  /\ \A s \in Subjects : own[s] \subseteq content[s]
  /\ Strict /\ ask # None /\ ask.read => own[ask.of] \subseteq ask.seen
  /\ OwnSaveShown

ScreensInv == ScreensTypeOK /\ ShowInv /\ SaveInv /\ OwnInv

LEMMA QuestionTyped ==
  ASSUME NEW s \in Subjects
  PROVE  Question(s) \in Questions /\ Question(s) # None /\ Question(s).of = s /\ ~Question(s).read
<1>1. Question(s) \in [of : Subjects, read : BOOLEAN, seen : SUBSET Changes]
  BY DEF Question
<1>2. QED  BY <1>1, NoneIsNoRecord DEF Question, Questions

LEMMA ScreensInitial == ScreensInit => ScreensInv
<1> SUFFICES ASSUME ScreensInit PROVE ScreensInv
  OBVIOUS
<1>1. ask \in Questions /\ ask # None /\ ask.of = subject /\ ~ask.read
  BY QuestionTyped DEF ScreensInit
<1>2. ScreensTypeOK
  BY <1>1 DEF ScreensInit, ScreensTypeOK, Questions
<1>3. ShowInv /\ SaveInv
  BY <1>1 DEF ScreensInit, ShowInv, SaveInv, Unsettled
<1>4. OwnInv
  BY <1>1 DEF ScreensInit, OwnInv, OwnSaveShown
<1>5. QED  BY <1>2, <1>3, <1>4 DEF ScreensInv

(* A screen that asks: what it was told and what was saved do not change meanwhile. *)
LEMMA AsksTyped ==
  ASSUME ScreensTypeOK, NEW s \in Subjects, Asks(s)
  PROVE  /\ ask' \in Questions /\ ask' # None /\ ask'.of = s /\ ~ask'.read
         /\ late' \in Questions /\ subject' = s /\ failed' = FALSE
         /\ shown' \in {None, shown}
         /\ screen.waits = "blank" => shown' = None
  BY QuestionTyped DEF ScreensTypeOK, Asks

(* A question the server has read. *)
LEMMA ReadTyped ==
  ASSUME ScreensTypeOK, NEW q \in Questions, q # None
  PROVE  /\ Read(q) \in Questions /\ Read(q) # None
         /\ Read(q).of = q.of /\ Read(q).seen = content[q.of] /\ Read(q).read /\ q.of \in Subjects
<1>1. q \in [of : Subjects, read : BOOLEAN, seen : SUBSET Changes]
  BY DEF Questions
<1>2. Read(q) \in [of : Subjects, read : BOOLEAN, seen : SUBSET Changes]
  BY <1>1 DEF Read, ScreensTypeOK
<1>3. QED  BY <1>1, <1>2, NoneIsNoRecord DEF Read, Questions

LEMMA ScreensTypeStep == ScreensTypeOK /\ [ScreensNext]_screenVars => ScreensTypeOK'
<1> SUFFICES ASSUME ScreensTypeOK, [ScreensNext]_screenVars PROVE ScreensTypeOK'
  OBVIOUS
<1>1. ASSUME NEW s \in Subjects, Turn(s) PROVE ScreensTypeOK'
  BY <1>1, AsksTyped DEF ScreensTypeOK, Turn, Unheard
<1>2. CASE AskAgain
  BY <1>2, AsksTyped DEF ScreensTypeOK, AskAgain, Unheard
<1>3. CASE ServerReads
  BY <1>3, ReadTyped DEF ScreensTypeOK, ServerReads
<1>4. CASE Answered
  BY <1>4 DEF ScreensTypeOK, Answered, Content, Questions
<1>5. CASE Failed
  BY <1>5 DEF ScreensTypeOK, Failed, Questions
<1>6. CASE LateAnswered
  BY <1>6 DEF ScreensTypeOK, LateAnswered, LateAnswer, Questions
<1>7. ASSUME NEW s \in Subjects, NEW c \in Changes, Elsewhere(s, c) PROVE ScreensTypeOK'
  BY <1>7 DEF ScreensTypeOK, Elsewhere
<1>8. ASSUME NEW c \in Changes, Save(c) PROVE ScreensTypeOK'
  BY <1>8 DEF ScreensTypeOK, Save
<1>9. CASE CarriedOut
  BY <1>9 DEF ScreensTypeOK, CarriedOut
<1>10. CASE Patched
  BY <1>10 DEF ScreensTypeOK, Patched, Told, Content
<1>11. CASE SavedAskedFor
  BY <1>11, AsksTyped DEF ScreensTypeOK, SavedAskedFor, Told
<1>12. CASE SaveLost
  BY <1>12 DEF ScreensTypeOK, SaveLost
<1>13. CASE SaveRefused
  BY <1>13, AsksTyped DEF ScreensTypeOK, SaveRefused
<1>14. CASE UNCHANGED screenVars
  BY <1>14 DEF ScreensTypeOK, screenVars
<1>15. QED
  BY <1>1, <1>2, <1>3, <1>4, <1>5, <1>6, <1>7, <1>8, <1>9, <1>10, <1>11, <1>12, <1>13, <1>14 DEF ScreensNext

LEMMA ScreensStep == ScreensInv /\ [ScreensNext]_screenVars => ScreensInv'
<1> SUFFICES ASSUME ScreensInv, [ScreensNext]_screenVars PROVE ShowInv' /\ SaveInv' /\ OwnInv'
  BY ScreensTypeStep DEF ScreensInv
<1>s. Sound(screen) /\ ScreensTypeOK
  BY RulesAreSound DEF ScreensInv, ScreensTypeOK
<1> USE DEF ShowInv, SaveInv, OwnInv, OwnSaveShown, Unsettled, Patches, Strict
<1>1. ASSUME NEW s \in Subjects, Turn(s) PROVE ShowInv' /\ SaveInv' /\ OwnInv'
  BY <1>1, <1>s, AsksTyped DEF ScreensInv, ScreensTypeOK, Turn, Unheard, Sound
<1>2. CASE AskAgain
  BY <1>2, <1>s, AsksTyped DEF ScreensInv, ScreensTypeOK, AskAgain, MayAskAgain, Unheard, Sound
<1>3. CASE ServerReads
  BY <1>3, <1>s, ReadTyped DEF ScreensInv, ScreensTypeOK, ServerReads
<1>4. CASE Answered
  BY <1>4, <1>s, NoneIsNoRecord DEF ScreensInv, ScreensTypeOK, Answered, Content, Questions
<1>5. CASE Failed
  BY <1>5, <1>s DEF ScreensInv, ScreensTypeOK, Failed, Questions, Sound
<1>6. CASE LateAnswered
  BY <1>6, <1>s DEF ScreensInv, ScreensTypeOK, LateAnswered, LateAnswer, Questions
<1>7. ASSUME NEW s \in Subjects, NEW c \in Changes, Elsewhere(s, c) PROVE ShowInv' /\ SaveInv' /\ OwnInv'
  BY <1>7, <1>s DEF ScreensInv, ScreensTypeOK, Elsewhere
<1>8. ASSUME NEW c \in Changes, Save(c) PROVE ShowInv' /\ SaveInv' /\ OwnInv'
  BY <1>8, <1>s DEF ScreensInv, ScreensTypeOK, Save, Sound
<1>9. CASE CarriedOut
  BY <1>9, <1>s DEF ScreensInv, ScreensTypeOK, CarriedOut
<1>10. CASE Patched
  BY <1>10, <1>s, NoneIsNoRecord DEF ScreensInv, ScreensTypeOK, Patched, Told, Content, Sound
<1>11. CASE SavedAskedFor
  <2> USE <1>11, <1>s, AsksTyped DEF ScreensInv, ScreensTypeOK, SavedAskedFor, Told
  <2>1. ShowInv' /\ SaveInv'
    BY DEF Sound
  <2>2. save.of \in Subjects /\ save.change \in content[save.of]
    OBVIOUS
  <2>3. \A s \in Subjects : own'[s] \subseteq content'[s]
    BY <2>2
  <2>4. OwnInv'
    BY <2>3
  <2>5. QED  BY <2>1, <2>4
<1>12. CASE SaveLost
  BY <1>12, <1>s DEF ScreensInv, ScreensTypeOK, SaveLost
<1>13. CASE SaveRefused
  BY <1>13, <1>s, AsksTyped DEF ScreensInv, ScreensTypeOK, SaveRefused, Sound
<1>14. CASE UNCHANGED screenVars
  BY <1>14, <1>s DEF ScreensInv, ScreensTypeOK, screenVars
<1>15. QED
  BY <1>1, <1>2, <1>3, <1>4, <1>5, <1>6, <1>7, <1>8, <1>9, <1>10, <1>11, <1>12, <1>13, <1>14 DEF ScreensNext

(* Every reachable state is well typed, for any subjects and changes. *)
THEOREM ScreensTypeCorrect == ScreensSpec => []ScreensTypeOK
<1>1. ScreensInv => ScreensTypeOK
  BY DEF ScreensInv
<1>2. QED  BY <1>1, ScreensInitial, ScreensStep, PTL DEF ScreensSpec

(* Whatever answers come late, fail or never come, and whatever is saved    *)
(* meanwhile, no screen passes another subject's content off as its own     *)
(* (the effects of client/src/screens and components that load).            *)
THEOREM ScreensAboutTheirSubject == ScreensSpec => []ShowsWhatItAsked
<1>1. ScreensInv => ShowsWhatItAsked
  BY DEF ScreensInv, ShowInv, ShowsWhatItAsked
<1>2. QED  BY <1>1, ScreensInitial, ScreensStep, PTL DEF ScreensSpec

(* Once a screen was told that its save was carried out it does not settle  *)
(* without it, in whatever order its loads and saves are read, carried out  *)
(* and answered; VenueBlocks, whose code does otherwise, is left out.       *)
THEOREM ScreensKeepOwnSaves == ScreensSpec => []OwnSaveShown
<1>1. ScreensInv => OwnSaveShown
  BY DEF ScreensInv, OwnInv
<1>2. QED  BY <1>1, ScreensInitial, ScreensStep, PTL DEF ScreensSpec

-----------------------------------------------------------------------------
(* The venue search, the calendar and the conflict report, for calendars of *)
(* any length, gaps of any length, and any needs and venues.  A day shown   *)
(* free is free: whatever instant a conflict with the wish would fill, in   *)
(* one of the three entries of the booking, lies in some day of the month.  *)

(* The times and what is needed and offered, all together and without bound. *)
Periods == {p \in [from : Nat, to : Nat] : p.from < p.to}

FinderTypeOK ==
  /\ wanted \in Periods
  /\ occupant \in {None} \cup [kind : OccupantKinds, period : Periods]
  /\ times \in [setup : 0 .. MaxMinutes, turnaround : 0 .. MaxMinutes]
  /\ needs \in [attendance : Nat \cup {None}, facilities : SUBSET Facilities, access : BOOLEAN,
                layout : Layouts \cup {None}]
  /\ venue \in [capacity : Nat \cup {None}, facilities : SUBSET Facilities, access : Prose,
                layouts : SUBSET Layouts, deleted : BOOLEAN]
  /\ grants \subseteq [attendance : Nat, role : {"venue_staff", "event_organiser"}]

LEMMA DayOf ==
  ASSUME NEW t \in 0 .. MonthEnd - 1
  PROVE  \E d \in Days : d * DayLength <= t /\ t < (d + 1) * DayLength
<1> DEFINE d == t \div DayLength
<1>1. d \in Nat /\ d * DayLength <= t /\ t < (d + 1) * DayLength
  BY FinderAssumption, Z3
<1> DEFINE days == MonthEnd \div DayLength
<1>2. days \in Nat /\ MonthEnd = days * DayLength
  BY FinderAssumption, Z3
<1>3. d < days
  <2> HIDE DEF d, days
  <2> QED  BY FinderAssumption, <1>1, <1>2, Z3
<1>4. QED  BY <1>1, <1>2, <1>3 DEF Days

LEMMA PeriodTimes ==
  ASSUME FinderTypeOK
  PROVE  /\ Asked \in Periods /\ times.setup \in Nat /\ times.turnaround \in Nat
         /\ times.setup <= MaxMinutes /\ times.turnaround <= MaxMinutes
         /\ occupant # None => Occupied \in Periods /\ occupant.kind \in OccupantKinds
         /\ occupant # None => Occupied.from >= 2 * MaxMinutes
         /\ Asked.from >= 2 * MaxMinutes
  BY FinderAssumption DEF FinderTypeOK, Asked, Occupied, Shifted, Periods

LEMMA ReportedIsRefused == FinderTypeOK => (Reported <=> DecisionConflict /\ ~Blocked)
  BY PeriodTimes DEF Reported, DecisionConflict, Blocked, Booked, Overlap, Widened, Gap, Periods

LEMMA OfferedIsBookable ==
  ASSUME FinderTypeOK, Offered
  PROVE  (RequestRefused => venue.layouts = {}) /\ ~ApprovalRefused
<1>1. MissingFacilities = {} /\ ~TooSmall
  BY DEF FinderTypeOK, Offered, MissingFacilities, TooSmall
<1>2. ~DecisionConflict
  BY FinderAssumption, PeriodTimes DEF Offered, SearchFindsTaken, SearchReach, DecisionConflict, Blocked, Booked, Clashes, Overlap,
    Widened, Gap, Periods
<1>3. ~ApprovalRefused
  BY <1>1, <1>2 DEF ApprovalRefused, bookingReadiness, DecisionCapacity
<1>4. RequestRefused => venue.layouts = {}
  BY <1>1 DEF RequestRefused, bookingReadiness, Offered
<1>5. QED  BY <1>3, <1>4

LEMMA ExceptionsAgree ==
  ASSUME FinderTypeOK
  PROVE  /\ Listed <=> Approvable
         /\ DecisionCapacity => bookingReadiness(grants) # "allowed"
<1>1. DecisionCapacity => bookingReadiness(grants) # "allowed"
  BY DEF DecisionCapacity, bookingReadiness
<1>2. Listed => Approvable
  BY DEF FinderTypeOK, Listed, Approvable, bookingReadiness, CountsFor, TooSmall
<1>3. Approvable => Listed
  BY DEF Listed, Approvable, bookingReadiness, TooSmall
<1>4. QED  BY <1>1, <1>2, <1>3

LEMMA FreeDaysAreFree ==
  ASSUME FinderTypeOK, Effective.from >= Month.from, Effective.to <= Month.to,
         \A d \in Days : Overlap(Day(d), Effective) => ShownFree(d)
  PROVE  ~DecisionConflict
<1> SUFFICES ASSUME DecisionConflict PROVE FALSE
  OBVIOUS
<1> USE FinderAssumption, PeriodTimes
<1>1. /\ Effective.from = Asked.from - times.setup /\ Effective.to = Asked.to + times.turnaround
      /\ Month.from = 2 * MaxMinutes /\ Month.to = MonthEnd + 2 * MaxMinutes
  BY DEF Effective, Widened, Month, Shifted
<1>2. \E t \in Int : /\ Effective.from <= t /\ t < Effective.to
                     /\ \E p \in Entries(Month) : p.from <= t /\ t < p.to
  <2>1. CASE Blocked
    <3> DEFINE t == IF Occupied.from > Asked.from THEN Occupied.from ELSE Asked.from
    <3>1. /\ t \in Int /\ Effective.from <= t /\ t < Effective.to
          /\ Occupied.from <= t /\ t < Occupied.to
      BY <1>1, <2>1 DEF DecisionConflict, Blocked, Booked, Periods
    <3>2. Occupied \in Entries(Month)
      BY <1>1, <2>1, <3>1 DEF Entries, Overlap, Blocked, Periods
    <3>3. QED  BY <3>1, <3>2
  <2>2. CASE Booked
    <3> DEFINE from == Occupied.from - times.setup
               to   == Occupied.to + times.turnaround
               t    == IF from > Effective.from THEN from ELSE Effective.from
    <3>1. /\ t \in Int /\ Effective.from <= t /\ t < Effective.to
          /\ from <= t /\ t < to
      BY <1>1, <2>2 DEF DecisionConflict, Blocked, Booked, Periods, Gap
    <3>2. \E p \in Pieces : p.from <= t /\ t < p.to
      <4>1. CASE t < Occupied.from
        <5>1. [from |-> from, to |-> Occupied.from] \in Pieces
          BY DEF Pieces
        <5>2. QED  BY <3>1, <4>1, <5>1
      <4>2. CASE Occupied.from <= t /\ t < Occupied.to
        BY <4>2 DEF Pieces
      <4>3. CASE Occupied.to <= t
        <5>1. [from |-> Occupied.to, to |-> to] \in Pieces
          BY DEF Pieces
        <5>2. QED  BY <3>1, <4>3, <5>1
      <4>4. Occupied.from \in Int /\ Occupied.to \in Int
        BY <2>2 DEF Booked, Periods
      <4>5. QED  BY <3>1, <4>1, <4>2, <4>3, <4>4
    <3>3. PICK p \in Pieces : p.from <= t /\ t < p.to
      BY <3>2
    <3>4. p.from \in Int /\ p.to \in Int /\ p.from < p.to
      BY <2>2, <3>3, <3>1 DEF Pieces, Booked, Periods
    <3>5. Overlap(Occupied, Widened(Month, CalendarReach, CalendarReach))
      BY <1>1, <2>2, <3>1 DEF Overlap, Widened, CalendarReach, Booked, Periods
    <3>6. Overlap(p, Month)
      BY <1>1, <2>2, <3>1, <3>3, <3>4 DEF Overlap, Booked, Periods
    <3>7. p \in Entries(Month)
      BY <2>2, <3>4, <3>5, <3>6 DEF Entries, Blocked, Booked
    <3>8. QED  BY <3>1, <3>3, <3>7
  <2>3. QED  BY <2>1, <2>2 DEF DecisionConflict
<1>3. PICK t \in Int, p \in Entries(Month) :
        Effective.from <= t /\ t < Effective.to /\ p.from <= t /\ t < p.to
  BY <1>2
<1>4. t - 2 * MaxMinutes \in 0 .. MonthEnd - 1
  BY <1>1, <1>3 DEF Periods
<1>5. PICK d \in Days : d * DayLength <= t - 2 * MaxMinutes /\ t - 2 * MaxMinutes < (d + 1) * DayLength
  BY <1>4, DayOf
<1>6. /\ d * DayLength \in Int /\ (d + 1) * DayLength \in Int
      /\ Day(d).from = d * DayLength + 2 * MaxMinutes
      /\ Day(d).to = (d + 1) * DayLength + 2 * MaxMinutes
  BY DEF Days, Day, Shifted
<1>7. Overlap(Day(d), Effective)
  BY <1>1, <1>3, <1>5, <1>6 DEF Overlap, Periods
<1>8. Overlap(p, Day(d))
  <2>1. p.from \in Int /\ p.to \in Int
    BY <1>3 DEF Entries, Pieces, Blocked, Booked, Periods
  <2>2. QED  BY <1>1, <1>3, <1>5, <1>6, <2>1 DEF Overlap
<1>9. QED  BY <1>3, <1>7, <1>8 DEF ShownFree

(* FinderInit varies either the times or the needs, in small ranges.        *)
LEMMA FinderStarts == FinderInit => FinderTypeOK
<1>1. Period \subseteq Periods
  BY FinderAssumption DEF Period, Periods
<1>2. 0 \in 0 .. MaxMinutes /\ [from |-> 0, to |-> 1] \in Periods
  BY FinderAssumption DEF Periods
<1>3. CASE TimesVary
  BY <1>1, <1>3 DEF TimesVary, FinderTypeOK, Plain, Hall, Prose
<1>4. CASE FitVaries
  BY <1>2, <1>4 DEF FitVaries, FinderTypeOK
<1>5. QED  BY <1>3, <1>4 DEF FinderInit

(* What the search offers, the calendar shows free, the report leaves out   *)
(* and the list of exceptions names can be had, for every wish, occupant,   *)
(* gap, need and venue together (venues/search.ts, availability.ts,         *)
(* conflicts.ts and suitability.ts against decide_venue_booking_request).   *)
THEOREM ShownCanBeBooked == FinderTypeOK => ShownIsBookable
  BY ReportedIsRefused, OfferedIsBookable, ExceptionsAgree, FreeDaysAreFree DEF ShownIsBookable

-----------------------------------------------------------------------------
(* What the browser tells of a call.                                       *)

\* What makes a function's word good: it takes no answer for a refusal that its
\* route still gives after a change, and reads the body of what it fetches.
\* The routes and the function of the property's exceptions are let through.
Honest(f) ==
  /\ f.route.early \subseteq Reasoned
  /\ f.firm \subseteq Signed \cup Reasoned /\ f.told \subseteq Signed \cup Reasoned
  /\ f.route.after = {} \/ f.route \in {CreateBlock, ReplaceLayouts}
  /\ f.needs \/ f.route.writes \/ f = fetchOwnEventRequests

\* The refusals the routes name, and those the functions look for.
LEMMA Refusals ==
  /\ \A S \in {{}, {400}, {404}, {409}, {400, 404}, {400, 409}, {404, 409}, Reasoned} :
       /\ S \in SUBSET Reasoned /\ S \in SUBSET (Signed \cup Reasoned)
       /\ Signed \cup S \in SUBSET (Signed \cup Reasoned)
  /\ Signed \in SUBSET (Signed \cup Reasoned)
<1>1. \A S \in {{}, {400}, {404}, {409}, {400, 404}, {400, 409}, {404, 409}, Reasoned} : S \subseteq Reasoned
  BY DEF Reasoned
<1> QED BY <1>1

\* A function of a route that changes nothing before it refuses.
LEMMA PlainFunctions ==
  ASSUME NEW early \in SUBSET Reasoned, NEW firm \in SUBSET (Signed \cup Reasoned),
         NEW told \in SUBSET (Signed \cup Reasoned)
  PROVE  /\ Honest(Function(Reads(early), firm, told)) /\ Honest(Function(Writes(early), firm, told))
         /\ Honest(Bodyless(Function(Writes(early), firm, told)))
  BY DEF Honest, Function, Bodyless, Reads, Writes

\* One whose route may still fail after the first of two changes.
LEMMA TwoStepFunctions ==
  ASSUME NEW route \in {CreateBlock, ReplaceLayouts}, NEW firm \in SUBSET (Signed \cup Reasoned)
  PROVE  Honest(Function(route, firm, {}))
<1>1. route = [writes |-> TRUE, early |-> {400, 404}, after |-> Signed]
  BY DEF CreateBlock, ReplaceLayouts, Fails, Writes
<1>2. {400, 404} \subseteq Reasoned
  BY Refusals
<1>3. route.writes = TRUE /\ route.early = {400, 404}
  BY <1>1
<1>4. /\ Function(route, firm, {}).route = route /\ Function(route, firm, {}).firm = firm
      /\ Function(route, firm, {}).told = {} /\ Function(route, firm, {}).needs = TRUE
  BY DEF Function
<1> DEFINE f == Function(route, firm, {})
<1>5. f.route.early \subseteq Reasoned
  BY <1>2, <1>3, <1>4
<1>6. f.firm \subseteq Signed \cup Reasoned /\ f.told \subseteq Signed \cup Reasoned /\ f.route = route
  BY <1>4
<1> HIDE DEF f
<1>7. f.needs
  BY <1>4 DEF f
<1> QED BY <1>5, <1>6, <1>7 DEF Honest, f

\* Every function of the client is honest.
LEMMA FunctionsHonest == \A f \in Functions : Honest(f)
<1>1. /\ Honest(createEventRequestDraft) /\ Honest(submitEventRequest) /\ Honest(fetchOwnEventDetail)
      /\ Honest(listMyDraftRequests)
  BY Refusals, PlainFunctions
  DEF createEventRequestDraft, CreateDraft, submitEventRequest, Submit, fetchOwnEventDetail, Finds,
      Fetches, listMyDraftRequests, Signs
<1>2. /\ Honest(fetchEventRequestDraft) /\ Honest(deleteEventRequestDraft)
      /\ Honest(updateEventRequestDraft) /\ Honest(getEventStage)
  BY Refusals, PlainFunctions
  DEF fetchEventRequestDraft, Finds, Fetches, deleteEventRequestDraft, DeleteDraft,
      updateEventRequestDraft, UpdateDraft, getEventStage
<1>3. /\ Honest(getEventArrangements) /\ Honest(updateEventPlanning) /\ Honest(fetchAssignable)
      /\ Honest(assignCoordinator)
  BY Refusals, PlainFunctions
  DEF getEventArrangements, Finds, Fetches, updateEventPlanning, Planning, ByStatus,
      fetchAssignable, Signs, assignCoordinator, Assign
<1>4. /\ Honest(completeEvent) /\ Honest(fetchClarifications) /\ Honest(postClarification)
      /\ Honest(getEventHistory)
  BY Refusals, PlainFunctions
  DEF completeEvent, CompleteEvent, ByStatus, fetchClarifications, Finds, Fetches,
      postClarification, PostMessage, getEventHistory
<1>5. /\ Honest(fetchSafetyChecks) /\ Honest(recordSafetyDecision) /\ Honest(fetchSafetyDecisions)
      /\ Honest(reworkSafetyRejectedEvent)
  BY Refusals, PlainFunctions
  DEF fetchSafetyChecks, Signs, Fetches, recordSafetyDecision, DecideSafety, ByStatus,
      fetchSafetyDecisions, reworkSafetyRejectedEvent, ReworkEvent
<1>6. /\ Honest(fetchSafetyRereviews) /\ Honest(confirmSafetyRereview) /\ Honest(fetchChangeRequests)
      /\ Honest(raiseChangeRequest)
  BY Refusals, PlainFunctions
  DEF fetchSafetyRereviews, Fetches, confirmSafetyRereview, ConfirmRereview, ByStatus,
      fetchChangeRequests, raiseChangeRequest, RaiseChange
<1>7. /\ Honest(fetchOwnChangeRequests) /\ Honest(acceptChangeRequest) /\ Honest(refuseChangeRequest)
      /\ Honest(settleRecheck)
  BY Refusals, PlainFunctions
  DEF fetchOwnChangeRequests, Fetches, acceptChangeRequest, AcceptChange, ByStatus,
      refuseChangeRequest, RefuseChange, settleRecheck, SettleRecheck
<1>8. /\ Honest(fetchRegistrableEvents) /\ Honest(fetchRegistrableEvent) /\ Honest(registerForEvent)
      /\ Honest(joinWaitingList)
  BY Refusals, PlainFunctions
  DEF fetchRegistrableEvents, Signs, Fetches, fetchRegistrableEvent, Finds, registerForEvent,
      Registration, joinWaitingList, Join
<1>9. /\ Honest(leaveWaitingList) /\ Honest(fetchRegistrations) /\ Honest(saveRegistrationSettings)
      /\ Honest(closeRegistrationNow)
  BY Refusals, PlainFunctions
  DEF leaveWaitingList, Leave, fetchRegistrations, saveRegistrationSettings, Settings,
      closeRegistrationNow, CloseNow
<1>10. /\ Honest(fetchMyRegistrations) /\ Honest(withdrawRegistration) /\ Honest(decideEventRequest)
       /\ Honest(startEventReview)
  BY Refusals, PlainFunctions
  DEF fetchMyRegistrations, Signs, Fetches, withdrawRegistration, Withdraw, decideEventRequest,
      Decide, startEventReview, ReviewRequest
<1>11. /\ Honest(fetchWorkQueue) /\ Honest(searchEvents) /\ Honest(fetchSearchOptions)
       /\ Honest(confirmEvent)
  BY Refusals, PlainFunctions
  DEF fetchWorkQueue, Finds, Fetches, searchEvents, fetchSearchOptions, Signs, confirmEvent,
      Confirm, ByStatus
<1>12. /\ Honest(loadEventConfirmation) /\ Honest(fetchProfile) /\ Honest(updateProfile)
       /\ Honest(fetchCoordinatorOverview)
  BY Refusals, PlainFunctions
  DEF loadEventConfirmation, Finds, Fetches, fetchProfile, Signs, updateProfile, SaveProfile,
      fetchCoordinatorOverview
<1>13. /\ Honest(requestCancellation) /\ Honest(cancelEvent) /\ Honest(fetchAssignmentQueue)
       /\ Honest(listEquipment)
  BY Refusals, PlainFunctions
  DEF requestCancellation, AskToCancel, ByStatus, cancelEvent, CancelEvent, fetchAssignmentQueue,
      Signs, Fetches, listEquipment
<1>14. /\ Honest(saveEquipment) /\ Honest(loadEquipmentRequirements)
       /\ Honest(saveEquipmentRequirement) /\ Honest(saveEquipmentArrangement)
  BY Refusals, PlainFunctions
  DEF saveEquipment, Equipment, loadEquipmentRequirements, Fetches, saveEquipmentRequirement,
      Requirement, ByStatus, saveEquipmentArrangement
<1>15. /\ Honest(loadEquipmentReservations) /\ Honest(reserveEquipment)
       /\ Honest(loadEquipmentAvailability) /\ Honest(readNotification)
  BY Refusals, PlainFunctions
  DEF loadEquipmentReservations, Fetches, reserveEquipment, Reservation, ByStatus,
      loadEquipmentAvailability, readNotification, Notices
<1>16. /\ Honest(venueRequest) /\ Honest(deleteVenue) /\ Honest(loadAllVenuesAvailability)
       /\ Honest(fetchVenueBlocks)
  BY Refusals, PlainFunctions
  DEF venueRequest, SaveVenue, deleteVenue, DeleteVenue, ByStatus, loadAllVenuesAvailability,
      Signs, Fetches, fetchVenueBlocks
<1>17. /\ Honest(removeVenueBlock) /\ Honest(fetchEventBookings) /\ Honest(releaseBooking)
       /\ Honest(fetchCapacityExceptions)
  BY Refusals, PlainFunctions
  DEF removeVenueBlock, RemoveBlock, fetchEventBookings, releaseBooking, ReleaseBooking,
      fetchCapacityExceptions, Signs, Fetches
<1>18. /\ Honest(fetchVenueClashes) /\ Honest(fetchHolds) /\ Honest(changeHold)
       /\ Honest(fetchVenueLayouts)
  BY Refusals, PlainFunctions
  DEF fetchVenueClashes, Signs, Fetches, fetchHolds, changeHold, Hold, ByStatus, fetchVenueLayouts
<1>19. /\ Honest(fetchVenueOperations) /\ Honest(saveVenueOperations) /\ Honest(requestVenue)
       /\ Honest(fetchVenueRequests)
  BY Refusals, PlainFunctions
  DEF fetchVenueOperations, Fetches, saveVenueOperations, Operations, requestVenue, RequestVenue,
      fetchVenueRequests
<1>20. /\ Honest(withdrawVenueRequest) /\ Honest(decideVenueRequest) /\ Honest(searchVenues)
       /\ Honest(fetchEventFit)
  BY Refusals, PlainFunctions
  DEF withdrawVenueRequest, WithdrawRequest, decideVenueRequest, DecideRequest, searchVenues,
      Fetches, fetchEventFit, Finds
<1>21. Honest(approveCapacityException) /\ Honest(loadAccess)
  BY Refusals, PlainFunctions
  DEF approveCapacityException, Exception, loadAccess, Signs, Fetches
<1>22. Honest(fetchOwnEventRequests)
  <2> DEFINE fetched == Function(Reads({400, 404}), Signed, {})
  <2>1. /\ fetched.route = Reads({400, 404}) /\ fetched.firm = Signed /\ fetched.told = {}
        /\ fetchOwnEventRequests = [fetched EXCEPT !.needs = FALSE]
    BY DEF Function, fetchOwnEventRequests, Bodyless, Signs, Fetches
  <2>2. /\ fetchOwnEventRequests.route = Reads({400, 404}) /\ fetchOwnEventRequests.firm = Signed
        /\ fetchOwnEventRequests.told = {} /\ fetchOwnEventRequests.needs = FALSE
    BY <2>1 DEF Function
  <2>3. Reads({400, 404}) = [writes |-> FALSE, early |-> {400, 404}, after |-> {}]
    BY DEF Reads
  <2>4. /\ fetchOwnEventRequests.route.writes = FALSE /\ fetchOwnEventRequests.route.after = {}
        /\ fetchOwnEventRequests.route.early = {400, 404}
    BY <2>2, <2>3
  <2>5. {400, 404} \subseteq Reasoned /\ Signed \subseteq Signed \cup Reasoned
    BY Refusals
  <2> HIDE DEF fetched
  <2> QED BY <2>2, <2>4, <2>5 DEF Honest
<1>23. Honest(createVenueBlock) /\ Honest(saveVenueLayouts)
  BY Refusals, TwoStepFunctions DEF createVenueBlock, saveVenueLayouts
<1> QED BY <1>1, <1>2, <1>3, <1>4, <1>5, <1>6, <1>7, <1>8, <1>9, <1>10, <1>11, <1>12, <1>13, <1>14, <1>15, <1>16, <1>17, <1>18, <1>19, <1>20, <1>21, <1>22, <1>23 DEF Functions

\* Of any function and any answer, what the user is told is true.
THEOREM ToldIsTrue == AnswersInit => OutcomesTrue
<1> SUFFICES ASSUME AnswersInit PROVE OutcomesTrue
  OBVIOUS
<1>1. Honest(call) /\ readable \in BOOLEAN /\ (carried => call.route.writes)
  BY FunctionsHonest DEF AnswersInit, Honest
<1>2. None \notin OK /\ \A a \in call.firm \cup call.told : a \notin OK /\ a # None
  BY <1>1, NoneIsNoAnswer DEF Honest, Signed, Reasoned, OK
<1>3. /\ ToldAs = "done" => answer \in OK /\ answer # None /\ (readable \/ ~call.needs)
      /\ ToldAs = "refused" => answer \in call.firm \cup call.told /\ answer \notin OK /\ answer # None
  <2>1. CASE answer = None
    BY <1>2, <2>1 DEF ToldAs
  <2>2. CASE answer # None /\ answer \in OK
    <3>1. ToldAs = IF call.needs /\ ~readable THEN "unknown" ELSE "done"
      BY <1>2, <2>2 DEF ToldAs
    <3> QED BY <2>2, <3>1, <1>1 DEF Honest
  <2>3. CASE answer # None /\ answer \notin OK /\ answer \notin call.firm \cup call.told
    BY <2>3 DEF ToldAs
  <2>4. CASE answer \in call.firm \cup call.told
    <3>1. answer # None /\ answer \notin OK
      BY <1>2, <2>4
    <3>2. ToldAs # "done"
      BY <3>1 DEF ToldAs
    <3> QED BY <2>4, <3>1, <3>2
  <2> QED BY <2>1, <2>2, <2>3, <2>4
<1>4. carried => answer \in OK \cup call.route.after \cup Broken \cup {None}
  BY DEF AnswersInit, AnswersAfter
<1>5. ~carried /\ call.route.writes => answer \in Signed \cup call.route.early \cup Broken \cup {None}
  BY DEF AnswersInit, AnswersBefore
<1>6. (Signed \cup Reasoned \cup Broken) \cap OK = {} /\ (Signed \cup Reasoned) \cap Broken = {}
  BY DEF Signed, Reasoned, Broken, OK
<1>7. ToldAs = "done" /\ call.route.writes => carried
  BY <1>1, <1>3, <1>5, <1>6 DEF Honest
<1>8. ToldAs = "done" => readable \/ call.route.writes \/ call = fetchOwnEventRequests
  BY <1>1, <1>3 DEF Honest
<1>9. ToldAs = "refused" => ~carried \/ call.route \in {CreateBlock, ReplaceLayouts}
  BY <1>1, <1>3, <1>4, <1>6 DEF Honest
<1> QED BY <1>7, <1>8, <1>9 DEF OutcomesTrue
=============================================================================
