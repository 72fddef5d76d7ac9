# ConnectSphere in TLA+

ConnectSphere runs the life of an event: an organiser proposes it, a coordinator plans
it, Venue Staff and Technical Support give it venues and equipment, a Safety Officer
checks it, and attendees register for it. This directory holds TLA+ models of the parts
of the system where the order of things decides whether the result is right, the TLC
configurations that check them on small instances, and TLAPS proofs of the properties
that matter most.

## 1. The system

The repository is an npm monorepo: a React client (`client/`), an Express server in
TypeScript (`server/src/`), and a Supabase (PostgreSQL) database whose functions and
triggers are built up by the files of `supabase/migrations/`. Where a function is
replaced by later migrations, the last `create or replace` is the program; the file names
below are those of that last version.

Three things run concurrently and share the tables:

- **requests to the server.** A route either makes one RPC call to a database function,
  or reads with one or more queries, decides in TypeScript and writes with a later query.
  The second kind holds no lock between its reads and its write.
- **database functions.** Each runs in one transaction. Those that decide take
  `for update` locks on the rows they decide on first; row triggers on the tables run
  inside the same transaction.
- **sweeps.** `pg_cron` starts `process_venue_hold_deadlines`,
  `process_waiting_list_offers`, `process_registration_windows` and the reminder sweep
  every minute. A sweep selects what is due without a lock, then comes to each item and
  passes over the ones another transaction has (`skip locked`).

An event's status is one of draft, submitted, unassigned, under_review,
needs_clarification, approved, planning, awaiting_safety_check, safety_rejected,
preparation, confirmed, completed, cancelled, rejected.

### Components

| Component | State | Operations | What is hard | What makes it correct |
|---|---|---|---|---|
| Registrations and waiting list | `registrations`, `waiting_list_entries` | register, join, leave, withdraw, offer sweep | places counted by several functions, each with its own clock reading; offers that lapse; skipped sweeps | no place promised twice; the list served in order; offers kept until their time, released after it |
| Registration settings, window announcer | columns of `events` | change settings, close now, announce | the clock is read before the lock is had | capacity never under the registrations; every opening and closing announced |
| Venue requests and decisions | `venue_booking_requests`, `venue_bookings` | send, withdraw, approve, reject | routes that check before the function locks | no double booking; the tables agree |
| Venue holds | `venue_holds` | place, release, convert, change expiry, sweep | deadline against conversion, release and other approvals | a running hold keeps its venue; every hold ends |
| Unavailable periods, setup times, clashes | `venue_unavailability`, `venue_booking_disruptions`, `venue_booking_clashes`, `venue_operations` | block, unblock, change times | flags that are stored, and updated by row triggers | the flags are exactly what the tables say |
| Venue changes and releases | the same tables, `events.venue_booking_id` | request a change, release | one call rewrites six tables | the main venue is a booked one; no change outlives its booking |
| Event status by its arrangements | `events.status`, `outstanding_arrangements` | refresh triggers, safety decisions, rework, recheck | entering and leaving Awaiting Safety Check by whichever table changes last | nothing in the check has an arrangement or a recheck outstanding, and nothing past it loses what was approved |
| Planning, confirmation, completion, cancellation | `events` | edit, confirm, complete, cancel | edits and completion read first and write later | a confirmed event keeps what it was confirmed with; the panel and the gate agree |
| Change requests and impact | `event_change_requests`, `outstanding_arrangements`, `safety_rereviews` | ask, accept, refuse, settle, confirm again | an acceptance is three calls; an edit writes what it read | an accepted change is rechecked; the officer decides on what the event is |
| Drafts, submission, review, assignment, clarification | `events` | the early life of an event | each handler is several calls without a lock, and an assignment may be undone | never held by nobody, never out of sight, never stranded |
| Equipment | `equipment`, `equipment_requests`, `equipment_reservations` | require, amend, arrange, reserve, change stock | quantities over overlapping times; forms that keep a version; lost answers | reservations never oversell, and cover the demand they were made for |
| Roles and duties | `account_roles`, acting role, stored session | sign in, switch, grant, replace, act | a role changed under a running call; two tables of permissions | an administrator remains; a permitted call is admitted |
| Notifications and inbox | `notifications`, the drawer | load, page, read, read all | reloads against mutations, answers out of order | what was read stays read |
| Work queue, search, overview, stages | none | queries | each decides over its own copy of the statuses | whoever an event waits on sees it and may act |
| Venue search, calendar, suitability | none | queries | windows, gaps and word lists of their own | what is shown can be booked |
| Client screens | React state | load, ask again, save, patch | answers overtaken, saves under way while the screen turns | a screen shows what it asked for and its own saves |
| Answers | none | every function of the client's api modules | a 503 may follow a change | what the user is told is true |
| Reminders | `notifications` | sweep | arithmetic of days and zones | not modelled |
| Locks | rows locked by the functions | every function | different orders | not modelled one by one |
| Audit history | `audit_logs` | written beside changes, read | separate calls | who reads which entries (in `Visibility`) |
| Login | Supabase Auth | | | the stored session only (in `Access`) |

`PROJECT.json` lists the components with their sources and how far each is modelled, and
the hazards of the code, each at the line where it bites with the properties that would
catch it.

## 2. The modules

| Module | What it is |
|---|---|
| `Registration` | places, waiting list, offers, settings and both registration sweeps of one event |
| `VenueBooking` | venues, requests, holds, bookings, blocks, clashes, and the event's status as they move it |
| `EventLife` | abstract: the status and coordinator of one event request, and which moves are allowed |
| `EventRequests` | the handlers of the early life, each as its database calls; implements `EventLife` |
| `EventChanges` | planning edits, change requests, rechecks, venue and equipment requests, safety review and confirmation of one event |
| `Readiness` | the coordinator's panel against `confirm_event` |
| `Equipment` | one type of equipment: stock, demand, reservations and the forms that edit them |
| `Permissions` | the routes' permissions and the database functions' own role checks |
| `Access` | roles held, stored sessions, requests authorised and executed while roles change |
| `Inbox` | one recipient's notices, and the drawer that pages and marks them |
| `Screens` | one machine for the loading and saving of every screen, with a rule record for each |
| `Answers` | what each client function makes of each answer its route can give |
| `VenueFinder` | search, calendar, conflict report and suitability against request and decision |
| `Visibility` | whom an event waits on, which lists name it, who may open it |
| `RegistrationProofs`, `VenueBookingProofs`, `VenueEventsProofs`, `EventRequestsProofs`, `EventChangesProofs`, `EquipmentProofs` | theorems of the module of the same name; `VenueEventsProofs` continues `VenueBookingProofs`, `EventChangesProofs` has `Readiness` too |
| `AccessProofs`, `ClientProofs` | theorems of `Access` and `Visibility`; of `Inbox`, `Screens`, `VenueFinder` and `Answers` |
| `NoValue` | the constant that stands for the absence of a value, which the parts share |
| `MCRegistration`, `MCVenueBooking`, `MCEventRequests`, `MCParts` | instances for TLC |

How they fit. `EventRequests` has the event from its draft to its end and lets the
arrangements move an approved event freely (`ArrangementsMove`); `VenueBooking` and
`EventChanges` say when they do: the first over real bookings of several venues, with the
rechecks as one flag, the second over the whole set of recheck keys, the flags of a
re-review, the equipment asked for and the revision of the check, over venue and equipment
requests of which each has one status. `Readiness`
takes from `EventChanges` what a confirmable event can have outstanding, and `Visibility`
from `EventRequests` that nobody holds an event exactly while it is a draft or unassigned.
`Registration` meets the rest only in the event's status and start time: it has the
event's life as four actions (confirmed, changed, cancelled, completed) that may come at
any moment the code allows. `VenueBooking` leaves registration out, which never changes an
arrangement.

`MCParts` puts the nine modules that share no state (`EventChanges`, `Readiness`,
`Equipment`, `Access`, `Inbox`, `Screens`, `Answers`, `VenueFinder`, `Visibility`) into one
run: a behaviour chooses its `part` at the start, the variables of the others hold nothing,
and its steps are that part's. It is a bundle and claims nothing of their interaction.

### Registration

| In the module | In the code |
|---|---|
| `now` | `clock_timestamp()` |
| `event` | `status`, `registration_capacity`, `registration_opens_at`, `registration_closes_at`, `proposed_date`, `waiting_list_response_hours` of the event row |
| `registered` | attendees with an active `registrations` row |
| `entry`, `queue` | the live `waiting_list_entries` rows and their order by `(joined_at, entry_id)` |
| `announced` | `events.registration_announced` |
| `settingsCall` | a call of `update_registration_settings` that has read the clock and waits for the row |
| `selected` | sweeps that have selected the event and not locked it |
| `Lapse`, `OfferFree`, `OfferWaitingPlaces` | the two halves of `private.offer_waiting_places` |
| `PlacesHeld` | `private.places_held` |
| `Register`, `JoinWaitingList`, `LeaveWaitingList`, `WithdrawRegistration` | the four functions of the attendee |
| `SettingsCalled`, `SettingsSaved` | before and after the lock in `update_registration_settings` |
| `OffersSelected/Processed`, `WindowSelected/Processed`, `SweepSkipped` | the sweeps |

Every function reads `clock_timestamp()` for itself, so one call sees several instants. The
actions draw them in order, `t1 \in Later(now)`, `t2 \in Later(t1)` and so on, each at most
`MaxDrift` later than the one before. `OfferFree` says in one expression what the loop of
`offer_waiting_places` does: visiting the queue in order, it offers a place to everyone
whom the people ahead leave one.

### VenueBooking

| In the module | In the code |
|---|---|
| `rows` | `venue_booking_requests`, with the row of `venue_bookings` and of `venue_holds` made from it |
| `event` | `status`, `venue_booking_id` (`main`), and whether `outstanding_arrangements` has a recheck |
| `blocks`, `affected` | `venue_unavailability`, `venue_booking_disruptions` |
| `gap`, `clashes` | setup plus turnaround of `venue_operations`, `venue_booking_clashes` |
| `lacking`, `deleted` | venues without a required facility, venues with `deleted_at` |
| `due` | what the hold sweep has selected and not yet come to |
| `request`, `approval`, `edit`, `completion` | a route between its reads and its write |
| `Written`, `Followed`, `Refreshed` | the row triggers: flags, clashes, `refresh_safety_check_status` |
| `RequestCalled`, `RequestInserted` | `POST /` of `venues/bookingRequests.ts` and its insert, with the triggers and constraints on it |
| `DecisionCalled`, `Approve` | `POST /:requestId/decision`, then `decide_venue_booking_request` |
| `CreateHold`, `ReleaseHold`, `ConvertHold`, `ChangeHoldExpiry`, `HoldFoundExpired` | `create_venue_hold`, `change_venue_hold`, `change_venue_hold_expiry` |
| `HoldsSelected`, `HoldProcessed`, `HoldSkipped` | `process_venue_hold_deadlines` |
| `ReleaseBookings`, `CancelEvent` | `release_venue_bookings`, `cancel_event` |
| `DeleteVenue`, `BlockAdded`, `GapChanged`, `FacilitiesEdited`, ... | Venue Staff |
| `SafetyApproved`, `SafetyRejected`, `ChangesRequested`, `Reworked`, `RecheckSettled` | the Safety Officer and what answers them |
| `PlanningCalled/Written`, `CompletionCalled/Written` | the planning edit and `completeEvent` |

A booking and a hold are always made from one request and carry its event, venue and
period, so the three tables share one identifier and one function.

### EventRequests and EventLife

`event` is the row of `public.events`; `calls` are the handlers in flight, each holding what
it read. A handler is the sequence of database calls of `server/src/events/*.ts`, each call
an action, and `CallLost` ends it before any of them: the server died, or the call failed
and the handler answered 503.

| In the module | In the code |
|---|---|
| `Write` | a guarded `UPDATE` of `db/eventRequests.ts`; no row matched, nothing written |
| `CreateDraft`, `UpdateDraft*`, `DeleteDraft*` | `events/createDraft.ts`, `updateDraft.ts`, `deleteDraft.ts` |
| `SubmitRead/Unheld/Held/Tells` | `events/submit.ts`: two guarded writes, one for an event without coordinator and one for an event with |
| `OpenReview`, `DecideWrite`, `ClarifyRead/Write` | `review.ts`, `decide.ts`, `clarifications.ts` |
| `AssignRead/Supervisor/Write/Record/Undo` | `assignCoordinator.ts`, with the second write that takes an unrecorded assignment back |
| `AcceptOnClarification` | `decide_event_change_request` for an event that needs clarification, under the event's lock |
| `RequestCancellation`, `CancelEvent`, `Complete*` | the end of the event |
| `ArrangementsMove` | everything the arrangements do to an approved event |
| `OnAssignmentQueue`, `OnWorkQueue`, `InOverview` | the reads that show it to a Lead and a coordinator |

`EventLife` is what the handlers promise over the status and the coordinator alone. The
refinement mapping reads both off the row; everything else of a handler is a stutter.

### EventChanges

| In the module | In the code |
|---|---|
| `event` | `status`, `outstanding_arrangements` (`rechecks`), and which version of its details it has (`shown`), `equipment_requirements` among them: those in `Equipped` ask for equipment |
| `arranged` | the status of each venue request (`Bookings`) with its booking, and of each equipment request (`Loans`) with its reservation and its place |
| `flagged` | the requests with an open row of `safety_rereviews` |
| `decision` | the latest `safety_decisions` row with the details it was made on |
| `current` | the calls whose `safety_check_revision` is still the event's; the revision only grows, so this is all that its value is used for |
| `Refreshed`, `Revised`, `Saved`, `ArrangementSaved` | `refresh_safety_check_status` and the revision trigger, run within the write |
| `EditRead`, `EditWrite` | `updatePlanning.ts`: it writes the details as sent and the rechecks and the status it decided on when it read, over whatever the event is by then |
| `Raise`, `Refuse`, `AcceptRead/Apply/Record` | `changeRequests.ts` and its three database calls |
| `Settle` | the settlement of a recheck: `settle_arrangement_recheck` looks at the key and the open flags only, so what the route read makes no difference to when it may be written |
| `ReviewRead`, `SafetyDecision`, `Rework`, `ConfirmAgain` | `record_safety_decision`, `rework_safety_rejected_event`, and the confirmation of a flagged arrangement |
| `RequestRead`, `RequestInsert` | `POST /` of `venues/bookingRequests.ts`: the status is looked at where the event is read, never at the insert |
| `VenueApproved`, `VenueRefused`, `Withdrawn`, `Released` | a decision on a venue request (an approval alone looks at the event's status), its withdrawal, the release of bookings |
| `LoanRequested`, `LoanReserved`, `LoanPlaced` | `manage_equipment_requirements` and `manage_equipment_reservations`, each one function under the event's lock |
| `ConfirmEvent`, `Complete`, `Cancel` | the end |

### The smaller parts

- **Readiness.** `ComputeArrangementReadiness` and its helpers are `arrangementReadiness.ts`;
  `ConfirmEventOutstanding` is the gate of `confirm_event`. The rows do not change: an
  initial state is one event with its requests, bookings and receipts.
- **Equipment.** `stages` says where each event is in its life, as far as equipment looks at it; `demand` and
  `receipts` are requests and reservations, `forms` the open editors. Each save is one database function under row
  locks, refused when the version the form holds is no longer the record's (`fresh`).
  `FormAnswered` lets the answer be lost: the form stays and may be sent again.
  `Intervals`, `QuantityOf`, `Committed` and `Remaining` are the running sum over arrivals and
  departures, and what the stock leaves beside it.
- **Permissions, Access.** `PERMISSIONS` is the routes' table for the actions that end in a
  function with a role check of its own (`FunctionRoles`). `Authorize` is
  `requireAuth` with `requirePermission`, `Execute` and `ChangeRoles` are the functions
  behind `lock_acting_role`. One request stands for every action that takes the same steps.
  `inPlay` bounds a behaviour to the administrator and one other role.
- **Inbox.** `load` is the reload page by page to the depth that was opened, `change` the one
  mutation or older page under way; `current` is the drawer's revision counter, of which it
  matters only whether it is still the same. Each call is carried out in one step, answered
  in another, and may fail on either side.
- **Screens.** Each record of `Rules` says how one component behaves (its comment lists what a
  rule may say), and the machine does the rest: `Asks`, `ServerReads`, `Answered`,
  `LateAnswered`, `Failed`, `Save`, `CarriedOut`, `Patched`, `SavedAskedFor`, `SaveLost`.
- **Answers.** `Functions` lists the functions of the client's api modules, each with its route;
  a route says which refusals it answers before and after something was changed.
- **VenueFinder.** `Offered`, `ShownFree`, `Reported`, `Listed` are what a coordinator is shown;
  `RequestRefused`, `DecisionConflict`, `DecisionCapacity` what the request route and
  `decide_venue_booking_request` say then. Periods, setup and turnaround vary, or needs and
  facilities do.
- **Visibility.** One event and one caller per initial state. Each list and read is an operator
  over its own copy of the statuses, as in the code.

## 3. The runs

### Passing

| Run | Instance | Shows |
|---|---|---|
| `registration_safety` | 3 attendees, 4 settings requests, 2 dates, clock to 3, drift 1 | capacity, one place promised once, the order of the list, offers kept until they run out |
| `registration_liveness` | 2 attendees, clock to 3 | ended offers are released and scheduled openings and closings announced, nobody acting |
| `venue_changes` | 1 event, 2 venues, 3 requests, blocks, planning edits, completion | tables, main venue, flags, deletion and the event's status stay in step |
| `venue_holds` | 2 events, 1 venue, 3 requests, adjacent periods, gap 0 or 1 | no venue shared, no hold overridden, clash flags exact, new bookings clear of everything |
| `venue_liveness` | 1 event, 1 venue, 2 holds, warning lead 1 | holds past their deadline expire, holds near it are warned about |
| `events_life` | 2 handlers in flight, 2 coordinators, 1 Lead | held by nobody exactly while unassigned, always seen, no submission stranded, `EventLife` implemented |
| `parts` | nine parts, one chosen per behaviour (below) | the properties of the smaller parts and of `EventChanges` |

Bounds, and why they suffice. Three attendees give one place, somebody it is offered to and
somebody behind or passing them; the settings requests open one place, raise to two,
postpone the window and close it, so that offers, a raised capacity and a window that
closes over an offer all happen. The clock reaches 3: an opening, a closing, and an instant
between. Three venue requests give a booking, its change, and a third that competes with
either; two venues let a change go somewhere else. In `venue_holds` the two periods `1..2`
and `2..3` touch: they may both be booked with gap 0 and not with gap 1. `MaxTime`,
`MaxDrift` and the finite set `Requests` bound the clock and the rows; a call that needs a
row when there is none left is not taken.

In `events_life` two handlers overlap in every order and the event lives on between them,
so that a first handler meets what many others did; two coordinators are what a
replacement needs. The theorems of section 4 say the same for any number of each.

In `parts`, about 0.76 million distinct states. The changes of an event are three of its parts,
since no one instance with everything fits a run. All have two versions of the details and
two routes in flight; each bounds what the other two are about (`BoundOf` of `MCParts`):

| Part | Venue requests | Equipment requests | Details | Change requests | Rechecks at one time | Ends |
|---|---|---|---|---|---|---|
| *changes* | 1, never refused | none | two that ask for none | 1; one route when it is refused or insignificant | 1 | at confirmation |
| *venues* | 2 | none | two that ask for none | none | any | at cancellation or completion |
| *loans* | 1 | 1 | without and with equipment | none | 1, of the Safety Officer's no venue | at confirmation |

Two venue requests are what it takes for an event to be confirmed with a venue and to have another
request pending or refused; the pair of details in *loans* is what a late edit needs to ask
a confirmed event for equipment. Both happen in the run, and `AlwaysInPlace` (section 4) has no bound.
Of the other parts, *equipment* has one event,
two requests, two forms, stock to 2 and three instants, so that two receipts can meet;
*access* two accounts that may replace each other's roles, over the
administrator and each other role in turn; *inbox* four notices on pages of one, so that a
reload of three pages can be overtaken; *screens* two subjects and two changes, for every
rule record; *answers* every function with every answer; *finder* one booking, hold or block
against one wish on a horizon of six instants, setup and turnaround to 2, or one facility and
one layout; *visibility* two people, every status, one role or two. The constants `a1`, `a2`
and `b1`, `b2` stand for whatever a part has two of.

Symmetry is over attendees, over requests, over venues where no venue is named, over
coordinators, calls, and the pairs of `parts`; none of the modules names any of them. The
liveness runs use none.

Deadlock is not checked: when the clock has reached its bound and the rows are used up,
the model may stop, and so may the system when nobody acts. Parts without steps have
only initial states.

Fairness. `pg_cron` starts each sweep every minute, whatever the others do: weak fairness of
`OffersSelected`, `WindowSelected`, `HoldsSelected`. A sweep that comes to an item may find
it locked and skip it, so that processing can be disabled again and again; no call
holds a row at every one of the sweep's visits, which is strong fairness of
`OffersProcessed`, `WindowProcessed` and each `HoldProcessed`. Nobody else is assumed to
act, and neither is the clock.

### Violations

Each of these runs checks one property that a comment or a document of the repository
states, and TLC shows how the code breaks it.

- `registration_unoffered` (`FreePlacesAreOffered`). `docs/registrations.md` promises a freed
  place to the first in the queue. A place freed while registration cannot be taken
  (the event is back in Planning, or the window is yet to open) is not offered then, and neither
  confirmation nor an opening window offers it: the sweep selects only events with an
  offer that ended. It stays free, with people waiting, until some call touches the event.
- `venue_twochanges` (`NoChangeOfCancelledBooking`). With two changes of one booking pending,
  approving one leaves the other naming a cancelled booking, which
  `202610210002_venue_booking_change_cancel.sql` says cannot happen.
- `venue_unseen` (`ConfirmedEventsReady`). A venue request inserted by a route that read the
  event before it was confirmed leaves a confirmed event with a pending venue; the comment
  on `confirm_event` says that its lock serialises it with every writer of requests.
- `venue_planned` (`AwaitingWhenReady`, with an event taken up as Approved). A planning edit
  writes `planning` over an event that has meanwhile reached Awaiting Safety Check.
  Nothing refreshes the event, which stays in Planning with everything in place.
- `events_complete` (`SubmittedComplete`). `submit.ts` says a request is submitted only once
  every required field is filled in. It checks the row it read; a draft saved with a blank
  field before the guarded write, which looks at the status and the coordinator alone,
  is submitted as it is then.

### Other disagreements met while modelling

They have no run of their own. Where a property is stated around one, its comment says so.

*Registrations.*
- `register_for_event` releases ended offers and then counts places, each under its own
  reading of the clock. An offer that runs out in between is neither passed on nor
  counted, and its place goes to the caller past the people waiting. `NobodyOvertaken` is
  stated for calls within one instant for this reason.
- `update_registration_settings` takes its instant in `DECLARE`, before it waits for the
  row, so a closing time that passes during the wait is saved as one in the future.

*Venues.*
- A venue request whose event is cancelled between the route's read and its insert stays
  pending for ever: the same gap as in `venue_unseen`.
- A venue's facilities are compared by the decision route before
  `decide_venue_booking_request` locks the venue, and not again under the lock; the
  conversion of a hold does compare them there.
- The refresh trigger runs once per changed table inside one call and may notify of moves
  that the same call takes back.
- `db/venueLayouts.ts` replaces layouts by a delete and an insert in separate calls, and
  `db/venueBlocks.ts` inserts a block and then lists it: a 401 or 403 on the second call
  reports as refused what was carried out (`OutcomesTrue` leaves the two out).
- The search may offer a venue with no recorded layout, which the request route refuses. The
  search matches accessibility by literal substring, the suitability check by words.

*Requests and assignment.*
- `submit.ts` sends the coordinator's notice to the coordinator as read before the write.
- The undo of an assignment (`assignCoordinator.ts`) may itself fail, or meet an event
  that has been reassigned and assigned back meanwhile, and takes that one back; a stale
  undo can leave an event with a coordinator and no supervisor.
- `db/eventRequests.ts` lists as a known gap a coordinator cleared between the two writes of
  a submission, which would strand the request. It cannot arise: theorem
  `NoStrandedSubmission`.
- The function behind a draft's update accepts an event that needs clarification, the
  handler in front of it only a draft.
- A clarification changes the status before its message is inserted; a failure between the
  two returns the event to its organiser without a question.

*Changes, planning and safety.*
- Applying an accepted change looks at the event's status, not the request's: a refusal that
  lands between the read and the application leaves the request refused and applied; an
  acceptance whose record was lost applies again when retried.
- A planning edit writes the recheck keys it read. It can drop the key of a flag opened
  meanwhile, whose second opening then fails on `safety_rereviews_open_venue`; it can
  write `planning` over a confirmed or completed event and keep `confirmed_by`; and one
  read before the event became locked changes locked details without a change request. If these
  are `equipment_requirements`, a prepared or confirmed event may need equipment that nobody
  requested: the refresh it brings moves only events before the end of the check.
- A venue request inserted by a route that read the event before it was prepared or confirmed
  stays outstanding there (`venue_unseen`), and so does its refusal, which `confirm_event`
  would list. `CheckedStaysInPlace` promises no more of a locked event than holds in spite of
  these: what was approved for it is kept.
- An edit with impact takes an event rejected by Safety to Planning without the key
  `safety_other_recheck` that the rework adds.
- A recheck is settled on facts read before the event's date changed again.
- The panel lists venue and equipment for a safety key where `confirm_event` lists only
  safety; they agree on whether anything is outstanding (`PanelAgreesWithGate`).
- `completeEvent` may complete on an out-of-date reading of the bookings. A completed event
  that was never confirmed shows every step of its stepper, Confirmed among them, as done.

*Equipment.*
- The availability advice leaves out an event's own reservations, which the reservation
  counts. A create sent again after a lost answer makes a second requirement, or draft.

*Roles, lists and client.*
- A session signed in with one role names none in its requests. After a second role is
  granted they act as the least privileged of the two while the screen shows the old one,
  and the SQL `acting_role()` is null.
- The organiser's list shows colleagues' events whose stage the route refuses to open;
  `canSeeEvent` lets Venue Staff and Technical Support read any event's suitability by id.
- A reload of the inbox after new arrivals drops the oldest rows shown, where a comment of
  `HoldNotifications.tsx` says that they stay.
- A block added while `VenueBlocks.tsx` still loads disappears when the earlier list
  arrives (`OwnSaveShown` leaves that screen out). The planning drawer sends every field as
  it was when the drawer was opened.
- `fetchOwnEventRequests` shows an answer it cannot read as an empty list (`OutcomesTrue`
  leaves it out).

## 4. The proofs

All theorems hold for any constants that satisfy the assumptions of the modules: any finite
set of attendees or requests, any settings requests of the right type, any periods,
gaps, deadlines and bounds on the clock, any coordinators, Leads, accounts, calls in flight.

| Theorem | Says | Argument |
|---|---|---|
| `RegistrationProofs!TypeCorrect` | `TypeOK` | action by action; the operators' types are lemmas |
| `RegistrationProofs!CapacityHolds` | never more registrations than places | see below |
| `RegistrationProofs!RegisteredOffTheList` | nobody is registered and listed | `OfferListsNobody`: offering adds nobody to the list |
| `RegistrationProofs!PlacesPromisedOnce` | `NoPlacePromisedTwice` | `LoopBound`, see below |
| `RegistrationProofs!PlacesGoInOrder` | `NobodyOvertaken` | `FirstServed` and `LoopFills`, see below |
| `RegistrationProofs!OffersHeld` | `OfferHeldUntilExpiry` | `OfferStays`: only a passed time or the end of registration ends an offer |
| `VenueBookingProofs!TypeCorrect` | `TypeOK` | one lemma per group of actions; `WrittenTypeOK` covers the triggers |
| `VenueBookingProofs!VenueNeverShared`, `HoldsKeepVenues` | `NoDoubleBooking` and `HoldKeepsVenue` | see below |
| `VenueBookingProofs!TablesAlwaysAgree` | `TablesAgree` | see below |
| `VenueBookingProofs!NewBookingsFit` | `NewBookingsHaveRoom` | the step lemma `NewlyBooked` says which actions book |
| `VenueEventsProofs!MainVenueAlwaysBooked` | `MainVenueBooked` | from the invariant of venues and events, see below |
| `VenueEventsProofs!DisruptionsExact` | `AffectedExactly` | the same |
| `VenueEventsProofs!SecuredStayHoused` | `SecuredEventsHoused` | the same |
| `VenueEventsProofs!ClashFlagsExact` | `ClashesExactly` | a call's clashes are refreshed for the bookings it changed, and no others can differ |
| `VenueEventsProofs!DeletedVenuesFree` | `DeletedVenueFree` | a new row is never of a deleted venue (`Granted`), and no old one becomes live again |
| `VenueEventsProofs!AwaitsExactlyWhenReady` | `AwaitingWhenReady` | where no event starts as Approved or no edit is planned; `venue_planned` violates it otherwise |
| `EventRequestsProofs!TypeCorrect` | `TypeOK` | from the invariant below |
| `EventRequestsProofs!NeverHeldByNobody` | `HeldUnlessUnassigned` | see below |
| `EventRequestsProofs!AlwaysSeen` | `SomebodySeesIt` | what the two lists leave out is what the invariant excludes |
| `EventRequestsProofs!NoStrandedSubmission` | `RefusedOnlyWhenBeaten` | see below |
| `EventRequestsProofs!Refinement` | `ImplementsEventLife` | every action is an abstract step or a stutter |
| `EventChangesProofs!TypeCorrect` | `TypeOK` | from the invariant below |
| `EventChangesProofs!AlwaysInPlace` | `CheckedStaysInPlace` | see below |
| `EventChangesProofs!ReviewedIsDecided` | `DecidedAsReviewed` | a current review is of the event as it is |
| `EventChangesProofs!PanelAlwaysAgrees` | `PanelAgreesWithGate` | for any number of rows that are as the tables can have them (`RowsOK`), see below |
| `EquipmentProofs!TypeCorrect` | `EquipmentTypeOK` | with `FormsFit`: a form edits a record of its kind |
| `EquipmentProofs!ReceiptsCoverDemand` | `ReceiptCoversDemand` | only a pending demand is amended or cancelled, and a reserved one is approved |
| `EquipmentProofs!OnlyStockOversells` | `OversoldByStockAlone` | see below |
| `AccessProofs!TypeCorrect` | `AccessTypeOK` | from the invariant below |
| `AccessProofs!AdministratorsNeverEnd` | `AdministratorsRemain` | whoever replaces a role holds the administrator's, and is another account |
| `AccessProofs!TablesNeverDisagree` | `RefusedOnlyWhenLost` | `GrantedByFunctions` compares the two tables |
| `AccessProofs!ReadersAlwaysAgree` | `ReadersAgree` | `RelationshipsAgree`: the route and the table know the same relationships |
| `AccessProofs!WaitingAlwaysServed` | `WaitingIsServed` | status by status |
| `ClientProofs!ReadNoticesStay` | `ReadStaysRead` | see below; `MaxNotices` is a natural number (assumed in the theorem) |
| `ClientProofs!ScreensTypeCorrect` | `ScreensTypeOK` | action by action |
| `ClientProofs!ScreensAboutTheirSubject` | `ShowsWhatItAsked` | see below |
| `ClientProofs!ScreensKeepOwnSaves` | `OwnSaveShown` | see below |
| `ClientProofs!ShownCanBeBooked` | `ShownIsBookable` | for all the values of `FinderTypeOK`, see below |
| `ClientProofs!ToldIsTrue` | `OutcomesTrue` | every client function but three is `Honest`, see below |

The assumptions on constants are stated in the modules and evaluated by every run:
`EquipmentAssumption` and `FinderAssumption` (bounds are natural numbers, the rows are finitely
many, a month is whole days), and that the shared `None` is no role, person, record or
answer (`NoneIsNoRole`, `NoneIsNobody`, `NoneIsNoRecord`, `NoneIsNoAnswer`).

A part without steps (`Readiness`, `VenueFinder`, `Visibility`, `Answers`) is a predicate over
its initial states. The runs take small ones; the theorems take every value that has the
type, and a lemma beside each (`ReadinessStarts`, `FinderStarts`, `VisibilityStarts`) shows that
the run's states are among them.

**Capacity.** `CapacityRespected` with the type invariant is inductive. Registering adds one
when fewer than the capacity are held, and the running offers that are counted with the
registrations only make that number larger (`RegisteredCount`); a settings change compares
the new capacity with the registrations under the lock, whatever stale instant it carries;
nothing else adds a registration or changes the capacity.

**The waiting list.** Every call that offers places goes through `offer_waiting_places`, which
the lemma `Moves` reduces to five shapes of step. The invariant is `WaitingInv`: the
queue is a strict total order of whoever is listed, and every offer has the time it ends.
`OfferFree` tests each waiting attendee by the number ahead of them, so the theorems rest
on three facts about an order on a finite set. If somebody is offered a place, so is
everyone ahead (`FirstServed`). The last one offered still found a place free, and all
others offered are ahead of them, so no more are offered than are free (`LoopBound`); that holds
at the end of the call too, when the clock has moved on and offers have only run out. The first
one passed over found none, and all ahead of them were offered one, so none is left (`LoopFills`):
a caller who still gets in held an offer. First and last exist because the sets of those
ahead are finite and strictly shrink along the queue (`MinimalSet`, from the
well-foundedness of the subset order).

**No venue shared.** Neither property is inductive alone: what keeps a conversion from
double-booking is that its hold kept the venue, and what keeps a hold's venue is that no
booking was made over it. `VenueOnce` joins the two: among the rows that are *committed* to their
venue (confirmed bookings and running holds) no two are close at one venue. A step
that changes no such row, or only makes some end (`Losing`), preserves it at
once, and so does the passing of time, which only ends holds; a step that makes one
has checked `Conflict` and `BookingAccepted`, which
`NoConflict` turns into what `VenueOnce` asks.

**The tables agree.** `TablesAgree` needs two more facts (`TablesInv`): a request
made by a hold replaces nothing, so the release of a replaced booking or the withdrawal of
its changes never touches a tentative hold; and the approval that is under way is never of
a hold's request, so `Approve` cannot confirm a booking whose hold is still tentative.

**Venues and events.** `IInv` joins what no part of it keeps alone: the tables agree, a change
replaces a booking of its own event (`ReplacesOwn`), the disruption flags are exact, the main
venue is booked, an event in the check is ready (`CheckedReady`), a secured one is housed. Each
call of the venue tables is shown to be a `Writes` or to leave them (`Still`). `Writes` says
what the call did before its triggers, in terms of the bookings it made or cancelled: rows move
only as they may (`Moved`), an event is only taken back (`Eased`), and a secured event keeps a
venue if it had one (`KeepsHoused`). One lemma (`WritesKeep`) then shows that the triggers
make of it a step that preserves `IInv`, so that an action has only to show its shape.
`AwaitsExactlyWhenReady` adds the other direction: an event whose venues are in place does not
stay in Planning (`Waits`), since every write that completes them refreshes it. The one
exception is an edit that writes `planning` without a recheck over a ready event, which the
assumption excludes (`NoBareEdit`).

**Never held by nobody.** `HeldUnlessUnassigned` is not inductive: the undo of an assignment
writes the coordinator it read. `ReadsAgree` adds that an assignment in flight read an
event that was unassigned exactly when it read no coordinator, so that the undo clears the
coordinator only together with the status. `Forward` is what every write must show of the
row, and one lemma per handler shows it.

**No stranded submission.** The second write of a submission fails, with the event still
submittable, only if it has no coordinator, that is, only if it is a draft; but a submission on
its second write has no draft before it (`SubmissionsPast`), since its first write would
have met one, and an event never becomes a draft again.

**What was checked stays in place.** `CheckedStaysInPlace` says two things. An event in the check
has everything in place, whatever a late edit or request wrote: the triggers run with the
write, and take it out by the same step if not (`Refreshed`). That needs the refresh to follow a
change of `equipment_requirements` as well as one of the rechecks. An event past the check
keeps what it had there: no recheck, a venue, no equipment request half done. A step takes
any of it from a locked event only if it replans the event with the same write (a release, a
withdrawn approval, an accepted change that affects something), and the planning edit, which
writes what it read, is no exception, since `EditsReplan` says that an edit with rechecks also
writes `planning`. That is less than `Ready`, and cannot be more: an edit or a venue request
that was read before the approval and lands after it leaves a locked event with something
outstanding (section 3).

**The officer decides on what is there.** `ReviewsCurrent`: a review whose revision is still
the event's is of an event that is being checked and shows what the review showed. A step
that moves the event in or out of the check, or changes its details there, empties
`current` (`ReviewsKept`).

**Read stays read.** A notice shown as read is read in the database (`True` of every page in
the drawer, in the reload and in an answer), and a page that may still be shown marks
every notice the drawer marks (`Keeps`): a reload is current only while no mutation is under
way (`LoadInv`), so nothing was marked since it started.

**Reservations cover demand.** Reserving copies the quantity under the row's lock and approves
the request. Every later save looks at the status first: amending and cancelling want a pending
request, and Technical Support may record no shortage of an approved one.

**Only the stock oversells.** `Reserve` compares the quantity with the largest running sum of
the period; what must not be exceeded is the sum of what is in use at each instant. The sums are
folds over sets, and what a fold gives for every set would need induction over data. A fold is
a function chosen to satisfy its recursive equation (`Sums`), and the well-foundedness of the strict
subset order stands in for the induction: a smallest set where two such functions differ, or for
which there is none, would have a smaller one (`SumsAgree`, `SumsExist`). Sums are then additive
over disjoint sets and monotone (`QuantityParts`, `QuantityLess`). At an instant of the period, what
is in use started by the last of its starts and has not ended, so it is at most the running sum at
that start (`InUseCommitted`), which is at most `Committed` (`CommittedCovers`). `Placed` adds to
the type invariant that a receipt runs for some time. A step that reserves nothing uses no
more than before (`KeepsStock`), and one that reserves adds a quantity that `Remaining` left
(`GrantsStock`).

**The panel and the gate.** The panel counts requests and bookings by what came of them, the gate
asks whether there is a row that is in the way. A count is zero of an empty set alone
(`CountsNone`), and each set that the panel counts is empty exactly when the gate finds no such
row (`VenuesAgree`, and likewise for equipment), for any set of rows.

**Screens.** Little of a screen's rules matters (`Sound`, which `RulesAreSound` shows of every
rule record): a screen that patches its saves into what it shows empties itself to ask, hears
nothing more of a save once it asks again under way, and lets no save begin before it shows
something, or else merges its saves into the answer. `ShowInv` then says that a screen that
empties itself or is settled shows its own subject; `SaveInv`, that a save to be patched in
is of the subject and finds the screen at rest, and that one carried out is in the content;
`OwnInv`, that every answer read by the server after a save was told includes it.

**What is shown can be had.** An instant at which the wish and something in its way meet lies on
some day of the month (`DayOf`), which is then not shown free. For the search, the report and the
list of exceptions the periods that each widens by setup and turnaround are compared with those
that the decision compares (`OfferedIsBookable`, `ReportedIsRefused`, `ExceptionsAgree`).

**What is told is true.** A function's word is good when it takes no answer for a refusal that
its route still gives after a change, and reads the body of what it fetches (`Honest`). The
property follows from that for any function, and every function of the client's api modules is
shown to be so, but for `fetchOwnEventRequests`, `createVenueBlock` and `saveVenueLayouts`, which the
property itself leaves out (section 3).

**Only model-checked.** Liveness (`LapsedOffersReleased`, `WindowAnnounced`, `HoldsExpire`,
`HoldsWarned`), which is out of the provers' reach together with `ENABLED`. Every other property
of a passing run is stated by a theorem, `AwaitingWhenReady` under the assumption above. The type
invariants of the parts are in their modules and no run checks them; those of `EventChanges`, `Access`,
`Equipment` and `Screens` are proved, that of `VenueFinder` is the hypothesis of its theorem.

## 5. What is simplified, and what is left out

- A database function is one action. Two of them cannot be seen half-done by each other because
  they take the rows they decide on; that they take them in orders that
  cannot deadlock is not shown, and the locks are not modelled one by one.
- The reads of one route that come together are one step (`completeEvent` reads the status and
  then the bookings). `VenueBooking` has each kind of route at most once under way;
  `EventRequests` and `EventChanges` have any.
- In `VenueBooking` equipment is as for an event that needs none and the rechecks are one flag;
  both are in `EventChanges`, where a venue request with its booking is one status. Holds,
  blocks with the disruptions they cause, and changes of one booking for another are not in
  `EventChanges`.
- In `EventChanges` the facts a settlement of a recheck is compared with are left out: the function
  that settles does not look at them, so the model settles whenever that may happen.
- Who calls is left out of the venue and registration modules: they allow each call to
  anyone, so what they show does not rest on roles. `Access` shows what the roles do.
- Fields that no modelled decision reads: contact details, names, texts, notes, who confirmed.
  The nine fields of a draft are one flag, whether they are complete.
- Notices and history are rows that other components insert and nothing decides on, but for
  the history line an accepted change is known by (`applied`) and the notices of the inbox.
- Editing a block is its removal and its addition. Capacity exceptions are in `VenueFinder`
  only, as the list and the decision read them.
- The client's layout, wording, field validation and routing; the order, paging and filters of
  search and queues; where equipment is placed.
- Not modelled at all: **reminders**, a sweep under one advisory lock whose schedule is
  arithmetic over days and time zones and which only inserts notices and its own receipts;
  Supabase Auth; the continuous integration scripts under `.github`.

## 6. What is left

In order of what would add most:

1. The status moves of `VenueBooking` and `EventChanges` as steps of `EventLife`, which now only
   `EventRequests` is shown to implement: one theorem per module, stated around the planning edit
   that writes over a completed event.
2. `LockOrder`: the locks of the functions taken one by one; deadlock freedom where
   the orders agree.
3. `Reminders`: the reminder sweep against changes of date.
4. `VenueBooking` and `EventChanges` as one module: holds, blocks and replaced bookings under
   rechecks, flags and equipment.
