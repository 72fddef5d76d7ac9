---------------------------- MODULE VenueBooking ----------------------------
(***************************************************************************)
(* The venues of events: requests and their decisions, tentative holds and *)
(* the sweep of their deadlines, unavailable periods, setup and turnaround *)
(* times, changes and releases of bookings, deletion of venues, and what   *)
(* these do to the status of the event (supabase/migrations, with the      *)
(* request, decision and completion routes of server/src).                 *)
(*                                                                         *)
(* A database function takes the locks of the rows it decides on before it *)
(* reads them and is one action, its row triggers included. Not covered by *)
(* those locks, and modelled as several steps:                             *)
(*   - the routes that read with one query, decide in the server and write *)
(*     with a later one: RequestCalled, DecisionCalled, CompletionCalled,  *)
(*     PlanningCalled;                                                     *)
(*   - the hold sweep, which selects the holds that are due and then locks *)
(*     each venue unless another call has it (skip locked).                *)
(*                                                                         *)
(* A booking and a hold are always made from one request, and both have    *)
(* its event, venue and period, so the three tables share one identifier.  *)
(* Left out: who calls, notices and history, layouts, attendance capacity  *)
(* and its exceptions, equipment (as for an event that needs none). An     *)
(* event's outstanding rechecks are one flag, and the re-reviews that keep *)
(* one from being settled are not counted.                                 *)
(***************************************************************************)
EXTENDS Integers, FiniteSets

CONSTANTS
    Events, Venues,
    Requests,       \* identifiers of venue_booking_requests rows
    Requested,      \* the requests coordinators send
    Held,           \* the holds Venue Staff place, as requests
    Blocked,        \* the unavailable periods Venue Staff record
    Expiries,       \* the times a hold may be set to expire
    Gaps,           \* the setup plus turnaround times a venue may be given
    Edited,         \* the venues whose facilities are edited
    Lead,           \* venue_hold_settings.warning_lead_seconds
    Started,        \* the statuses events are taken up in
    Planned,        \* the events whose planning details are edited
    Completing,     \* whether events are completed
    Null,           \* SQL null
    MaxTime         \* bound on the clock

Period == {p \in [from : Nat, to : Nat] : p.from < p.to}

\* A venue request as the coordinator asks for it: replaces is the booking it
\* would replace.
Wish == [event : Events, venue : Venues, period : Period, replaces : Requests \cup {Null}]

\* A venue_unavailability row.
Block == [venue : Venues, period : Period]

ASSUME DataAssumption ==
    /\ Requested \subseteq Wish /\ Held \subseteq {w \in Wish : w.replaces = Null}
    /\ Blocked \subseteq Block
    /\ Expiries \subseteq Nat /\ Gaps \subseteq Nat /\ Edited \subseteq Venues
    /\ Started \subseteq {"approved", "planning"} /\ Planned \subseteq Events
    /\ Lead \in Nat /\ MaxTime \in Nat /\ Completing \in BOOLEAN
ASSUME IdAssumption == IsFiniteSet(Requests) /\ Null \notin Requests /\ Null \notin Events

Status == {"approved", "planning", "awaiting_safety_check", "safety_rejected",
           "preparation", "confirmed", "completed", "cancelled"}

\* A venue_booking_requests row with its venue_bookings row, if it was approved,
\* and its venue_holds row, if a hold made it.
Row == [status : {"pending", "approved", "rejected", "cancelled"}, wish : Wish,
        booking : {"none", "confirmed", "cancelled"},
        hold : {"none", "tentative", "released", "expired", "converted"},
        expires : Nat, warned : BOOLEAN]

VARIABLES
    now,            \* clock_timestamp()
    event,          \* status, main venue_booking_id and whether a recheck is outstanding
    rows,           \* the rows made so far: a function on a subset of Requests
    blocks,         \* venue_unavailability
    affected,       \* venue_booking_disruptions: <<block, booking>>
    clashes,        \* venue_booking_clashes: pairs {a, b} of bookings
    gap,            \* setup plus turnaround of each venue
    lacking,        \* venues without a facility the events require
    deleted,        \* venues with deleted_at set
    due,            \* holds the sweep has selected and not yet come to
    request,        \* a venue request past the server's checks, or Null
    approval,       \* a request whose approval is past the server's checks, or Null
    edit,           \* a planning edit past its reads (event and impact), or Null
    completion      \* a completion past its reads (event and status), or Null

vars == <<now, event, rows, blocks, affected, clashes, gap, lacking, deleted, due,
          request, approval, edit, completion>>

\* What the routes have read and not yet acted on.
calls == <<due, request, approval, edit, completion>>

TypeOK ==
    /\ now \in Nat
    /\ event \in [Events -> [status : Status, main : Requests \cup {Null}, recheck : BOOLEAN]]
    /\ DOMAIN rows \subseteq Requests
    /\ rows \in [DOMAIN rows -> Row]
    /\ blocks \subseteq Block
    /\ affected \subseteq Block \X DOMAIN rows
    /\ clashes \subseteq SUBSET DOMAIN rows
    /\ gap \in [Venues -> Nat]
    /\ lacking \subseteq Venues /\ deleted \subseteq Venues
    /\ due \subseteq DOMAIN rows
    /\ request \in Wish \cup {Null}
    /\ approval \in Requests \cup {Null}
    /\ edit \in [event : Events, impact : BOOLEAN] \cup {Null}
    /\ completion \in [event : Events, status : {"preparation", "confirmed"}] \cup {Null}

Init ==
    /\ now = 0
    /\ event \in [Events -> [status : Started, main : {Null}, recheck : {FALSE}]]
    /\ rows = [r \in {} |-> Null]
    /\ blocks = {} /\ affected = {} /\ clashes = {}
    /\ gap = [v \in Venues |-> 0]
    /\ lacking = {} /\ deleted = {} /\ due = {}
    /\ request = Null /\ approval = Null /\ edit = Null /\ completion = Null

-----------------------------------------------------------------------------
(* What the tables say.                                                    *)

BookedIn(t) == {r \in DOMAIN t : t[r].booking = "confirmed"}
PendingIn(t) == {r \in DOMAIN t : t[r].status = "pending"}

\* MUTANT of Close: starts are compared with starts.
CloseStarts(p, q, g) == p.from < q.from + g /\ q.from < p.from + g

\* MUTANT of Close: a gap is left before a booking but not after it.
CloseOneSided(p, q, g) == p.from < q.to + g /\ q.from < p.to

\* Two periods at one venue are closer than g. Ones that only touch are not.
Close(p, q, g) == p.from < q.to + g /\ q.from < p.to + g

Over(t, r) == t[r].wish.period.to <= now
LiveHold(t, r) == t[r].hold = "tentative" /\ t[r].expires > now
IsHold(t, r) == t[r].hold # "none"

\* The confirmed booking, block or live hold that keeps a period at a venue from
\* being committed. The hold being converted does not stand in its own way.
Conflict(w, own) ==
    \/ \E b \in BookedIn(rows) :
        rows[b].wish.venue = w.venue /\ Close(rows[b].wish.period, w.period, gap[w.venue])
    \/ \E k \in blocks : k.venue = w.venue /\ Close(k.period, w.period, 0)
    \/ \E h \in DOMAIN rows \ own :
        /\ LiveHold(rows, h) /\ rows[h].wish.venue = w.venue
        /\ Close(rows[h].wish.period, w.period, gap[w.venue])

\* What the database itself asks of a venue_bookings row: no overlap with a
\* confirmed booking or a live hold, and a venue that is not deleted.
BookingAccepted(w, own) ==
    /\ w.venue \notin deleted
    /\ \A r \in DOMAIN rows \ own :
        rows[r].booking = "confirmed" \/ LiveHold(rows, r)
            => rows[r].wish.venue # w.venue \/ ~Close(rows[r].wish.period, w.period, 0)

\* The main venue after a release: the earliest booking still to come. Ties are
\* broken by booking_id, which stands for any of them.
Earliest(t, e) ==
    LET coming == {r \in BookedIn(t) : t[r].wish.event = e /\ ~Over(t, r)}
    IN  IF coming = {} THEN {Null}
        ELSE {r \in coming : \A q \in coming : t[r].wish.period.from <= t[q].wish.period.from}

\* safety_check_arrangements_ready and the venue rule of confirm_event: at least
\* one venue, all of them approved and booked, none affected by a block.
VenueReady(t, aff, e) ==
    LET live == {r \in DOMAIN t : t[r].wish.event = e /\ t[r].status # "cancelled"}
    IN  /\ live # {}
        /\ \A r \in live : t[r].status = "approved" /\ t[r].booking = "confirmed"
        /\ ~\E x \in aff : t[x[2]].wish.event = e /\ t[x[2]].booking = "confirmed"

-----------------------------------------------------------------------------
(* The triggers. Each rewrites what the changed rows call for and no more. *)

Matches(k, w) == k.venue = w.venue /\ Close(k.period, w.period, 0)

\* MUTANT of BookingFlags: a cancelled booking keeps its flags.
BookingFlagsKept(t, changed) ==
    affected \cup {x \in blocks \X (changed \cap BookedIn(t)) : Matches(x[1], t[x[2]].wish)}

\* venue_booking_flag_disruptions, for bookings that were made or cancelled.
BookingFlags(t, changed) ==
    {x \in affected : x[2] \notin changed}
        \cup {x \in blocks \X (changed \cap BookedIn(t)) : Matches(x[1], t[x[2]].wish)}

\* venue_unavailability_flag_bookings, for a new block.
BlockFlags(k) == affected \cup {<<k, b>> : b \in {r \in BookedIn(rows) : Matches(k, rows[r].wish)}}

\* The pairs of bookings at the venues vs that are closer together than g allows.
Clashing(t, g, vs) ==
    {{x[1], x[2]} : x \in {y \in BookedIn(t) \X BookedIn(t) :
        LET p == t[y[1]].wish
            q == t[y[2]].wish
        IN  /\ y[1] # y[2] /\ p.venue \in vs /\ q.venue = p.venue
            /\ Close(p.period, q.period, g[p.venue])}}

\* MUTANT of Clashes: only adds flags.
ClashesKept(t, g, vs) == clashes \cup Clashing(t, g, vs)

\* refresh_venue_booking_clashes, for the venues vs with the gaps g.
Clashes(t, g, vs) ==
    {c \in clashes : \A r \in c : rows[r].wish.venue \notin vs} \cup Clashing(t, g, vs)

\* MUTANT of Returned: a prepared event stays prepared.
ReturnedConfirmedOnly(ev) ==
    IF ev.status = "confirmed" THEN [ev EXCEPT !.status = "planning"] ELSE ev

\* return_event_to_planning_for_venue, and venue_disruption_notify for an event
\* with a booking that is newly affected.
Returned(ev) == IF ev.status \in {"preparation", "confirmed"}
                THEN [ev EXCEPT !.status = "planning"] ELSE ev

\* refresh_safety_check_status.
Refreshed(ev, ready) ==
    IF ev.status \in {"approved", "planning"} /\ ~ev.recheck /\ ready
    THEN [ev EXCEPT !.status = "awaiting_safety_check"]
    ELSE IF ev.status = "awaiting_safety_check" /\ (ev.recheck \/ ~ready)
    THEN [ev EXCEPT !.status = "planning"]
    ELSE ev

\* MUTANT of Touched: changes of venue_booking_disruptions refresh no event.
TouchedByRows(t, aff) ==
    {t[r].wish.event : r \in {q \in DOMAIN t : q \notin DOMAIN rows \/ t[q] # rows[q]}}

\* The events whose arrangement rows the call changes, each refreshed by a
\* trigger on the table it changes.
Touched(t, aff) ==
    {t[r].wish.event : r \in {q \in DOMAIN t : q \notin DOMAIN rows \/ t[q] # rows[q]}}
        \cup {t[x[2]].wish.event : x \in (aff \ affected) \cup (affected \ aff)}

\* The event rows after the call: evs as the call itself leaves them, t and aff
\* the tables as it leaves those.
Followed(evs, t, aff) ==
    LET hit(e)  == \E x \in aff \ affected : t[x[2]].wish.event = e
        row(e)  == IF hit(e) THEN Returned(evs[e]) ELSE evs[e]
        moves(e) == e \in Touched(t, aff) \/ evs[e].recheck # event[e].recheck
    IN  [e \in Events |-> IF moves(e) THEN Refreshed(row(e), VenueReady(t, aff, e)) ELSE row(e)]

\* A call that leaves the tables as t and the events as evs, with the triggers
\* on requests, holds and bookings; changed are the bookings made or cancelled.
Written(t, evs, changed) ==
    /\ rows' = t
    /\ affected' = IF changed = {} THEN affected ELSE BookingFlags(t, changed)
    /\ clashes' = IF changed = {} THEN clashes
                  ELSE Clashes(t, gap, {t[r].wish.venue : r \in changed})
    /\ event' = Followed(evs, t, affected')

-----------------------------------------------------------------------------
(* Requests and their decisions.                                           *)

Requestable == {"approved", "planning", "awaiting_safety_check"}
Replaceable == Requestable \cup {"preparation", "confirmed"}

CurrentBooking(r, e) ==
    r \in BookedIn(rows) /\ rows[r].wish.event = e /\ ~Over(rows, r)

\* The event has a live request for the venue over the same time. Requests of
\* holds have no requested_by and do not count.
Duplicate(w) ==
    \E r \in DOMAIN rows :
        /\ rows[r].status \in {"pending", "approved"} /\ ~IsHold(rows, r)
        /\ rows[r].wish.event = w.event /\ rows[r].wish.venue = w.venue
        /\ Close(rows[r].wish.period, w.period, 0)

\* POST /: everything the route reads before it writes.
RequestCalled(w) ==
    /\ request = Null
    /\ w.period.from > now
    /\ event[w.event].status \in (IF w.replaces = Null THEN Requestable ELSE Replaceable)
    /\ w.replaces # Null => CurrentBooking(w.replaces, w.event)
    /\ w.venue \notin deleted \cup lacking
    /\ ~Duplicate(w)
    /\ request' = w
    /\ UNCHANGED <<now, event, rows, blocks, affected, clashes, gap, lacking, deleted, due,
                   approval, edit, completion>>

\* The triggers and constraints on the insert: venue_refuse_deleted,
\* venue_change_request_check and venue_booking_requests_no_duplicate.
RequestAccepted(w) ==
    /\ w.venue \notin deleted
    /\ w.replaces # Null => CurrentBooking(w.replaces, w.event)
    /\ ~Duplicate(w)

NewRow(w) == [status |-> "pending", wish |-> w, booking |-> "none",
              hold |-> "none", expires |-> 0, warned |-> FALSE]

With(t, r, row) == [q \in DOMAIN t \cup {r} |-> IF q = r THEN row ELSE t[q]]

\* The route's insert, with the triggers of a change.
RequestInserted ==
    /\ request # Null
    /\ request' = Null
    /\ IF RequestAccepted(request)
       THEN \E r \in Requests \ DOMAIN rows :
              Written(With(rows, r, NewRow(request)),
                      IF request.replaces = Null THEN event
                      ELSE [event EXCEPT ![request.event] = Returned(@)], {})
       ELSE UNCHANGED <<event, rows, affected, clashes>>
    /\ UNCHANGED <<now, blocks, gap, lacking, deleted, due, approval, edit, completion>>

\* withdraw_venue_booking_request
Withdraw(r) ==
    /\ rows[r].status \in {"pending", "rejected"} /\ ~IsHold(rows, r)
    /\ Written([rows EXCEPT ![r].status = "cancelled"], event, {})
    /\ UNCHANGED <<now, blocks, gap, lacking, deleted, calls>>

\* POST /:requestId/decision, an approval: what the route reads before it
\* calls decide_venue_booking_request.
DecisionCalled(r) ==
    /\ approval = Null
    /\ rows[r].status = "pending" /\ ~IsHold(rows, r)
    /\ rows[r].wish.venue \notin lacking
    /\ approval' = r
    /\ UNCHANGED <<now, event, rows, blocks, affected, clashes, gap, lacking, deleted, due,
                   request, edit, completion>>

\* MUTANT of ReplacedReleased: the booking is given a hold's status.
ReplacedReleasedWord(t, b) ==
    IF b = Null \/ t[b].booking # "confirmed" \/ Over(t, b) THEN t
    ELSE [t EXCEPT ![b].status = "cancelled", ![b].booking = "released"]

\* MUTANT of ReplacedReleased: the request of the released booking stays approved.
ReplacedReleasedKept(t, b) ==
    IF b = Null \/ t[b].booking # "confirmed" \/ Over(t, b) THEN t
    ELSE [t EXCEPT ![b].booking = "cancelled"]

\* release_replaced_booking: the booking b that an approved change replaces.
ReplacedReleased(t, b) ==
    IF b = Null \/ t[b].booking # "confirmed" \/ Over(t, b) THEN t
    ELSE [t EXCEPT ![b].status = "cancelled", ![b].booking = "cancelled"]

Decidable(r) ==
    LET status == event[rows[r].wish.event].status
    IN  /\ \/ status \in {"approved", "planning"}
           \/ rows[r].wish.replaces # Null /\ status \in {"preparation", "confirmed"}
        /\ ~Over(rows, r)

\* The approval itself: refused, or the booking is made and the one it
\* replaces, if any, released.
Approve(r) ==
    LET w == rows[r].wish
        e == w.event
        booked == [rows EXCEPT ![r].status = "approved", ![r].booking = "confirmed"]
        t == ReplacedReleased(booked, w.replaces)
        gone == {b \in DOMAIN rows : t[b].booking # booked[b].booking}
        first == IF event[e].main = Null THEN r ELSE event[e].main
    IN  /\ approval = r
        /\ approval' = Null
        /\ IF /\ rows[r].status = "pending" /\ Decidable(r)
              /\ ~Conflict(w, {}) /\ BookingAccepted(w, {})
           THEN \E m \in (IF first \in gone THEN Earliest(t, e) ELSE {first}) :
                  Written(t, [event EXCEPT ![e].main = m], gone \cup {r})
           ELSE UNCHANGED <<event, rows, affected, clashes>>
        /\ UNCHANGED <<now, blocks, gap, lacking, deleted, due, request, edit, completion>>

Reject(r) ==
    /\ rows[r].status = "pending" /\ ~IsHold(rows, r)
    /\ Written([rows EXCEPT ![r].status = "rejected"], event, {})
    /\ UNCHANGED <<now, blocks, gap, lacking, deleted, calls>>

-----------------------------------------------------------------------------
(* Tentative holds.                                                        *)

WarnAt(expires) == expires <= now + Lead

CreateHold(w, expires) ==
    /\ w.venue \notin deleted
    /\ w.period.to > now /\ expires > now
    /\ event[w.event].status \in Requestable
    /\ ~Conflict(w, {})
    /\ \E r \in Requests \ DOMAIN rows :
        Written(With(rows, r, [NewRow(w) EXCEPT !.hold = "tentative", !.expires = expires,
                                                !.warned = WarnAt(expires)]), event, {})
    /\ UNCHANGED <<now, blocks, gap, lacking, deleted, calls>>

\* expire_venue_hold
Expired(t, r) ==
    [t EXCEPT ![r].hold = "expired",
              ![r].status = IF @ = "pending" THEN "cancelled" ELSE @]

\* change_venue_hold, change_venue_hold_expiry: a hold found past its deadline
\* is expired by the call, which is then refused.
HoldFoundExpired(r) ==
    /\ rows[r].hold = "tentative" /\ rows[r].expires <= now
    /\ Written(Expired(rows, r), event, {})
    /\ UNCHANGED <<now, blocks, gap, lacking, deleted, calls>>

ReleaseHold(r) ==
    /\ LiveHold(rows, r) /\ rows[r].status = "pending"
    /\ Written([rows EXCEPT ![r].hold = "released", ![r].status = "cancelled"], event, {})
    /\ UNCHANGED <<now, blocks, gap, lacking, deleted, calls>>

\* Unlike an approval, a conversion checks the facilities in the database and
\* makes its booking the main venue whatever the event had.
ConvertHold(r) ==
    LET w == rows[r].wish
    IN  /\ LiveHold(rows, r) /\ rows[r].status = "pending"
        /\ event[w.event].status \in {"approved", "planning"}
        /\ ~Over(rows, r)
        /\ ~Conflict(w, {r}) /\ BookingAccepted(w, {r})
        /\ w.venue \notin lacking
        /\ Written([rows EXCEPT ![r].hold = "converted", ![r].status = "approved",
                                ![r].booking = "confirmed"],
                   [event EXCEPT ![w.event].main = r], {r})
        /\ UNCHANGED <<now, blocks, gap, lacking, deleted, calls>>

\* MUTANT of ExpiryChangeable: a hold past its deadline is revived.
ExpiryChangeableLate(r) == rows[r].hold = "tentative"

ExpiryChangeable(r) == LiveHold(rows, r)

ChangeHoldExpiry(r, expires) ==
    /\ ExpiryChangeable(r)
    /\ expires > now /\ expires # rows[r].expires
    /\ Written([rows EXCEPT ![r].expires = expires, ![r].warned = WarnAt(expires)], event, {})
    /\ UNCHANGED <<now, blocks, gap, lacking, deleted, calls>>

\* MUTANT of HoldDue: only holds that still need their warning are selected.
HoldDueUnwarned(r) == rows[r].hold = "tentative" /\ ~rows[r].warned /\ WarnAt(rows[r].expires)

\* What process_venue_hold_deadlines selects.
HoldDue(r) ==
    /\ rows[r].hold = "tentative"
    /\ rows[r].expires <= now \/ (~rows[r].warned /\ WarnAt(rows[r].expires))

HoldsSelected ==
    /\ due = {}
    /\ due' = {r \in DOMAIN rows : HoldDue(r)}
    /\ due' # {}
    /\ UNCHANGED <<now, event, rows, blocks, affected, clashes, gap, lacking, deleted,
                   request, approval, edit, completion>>

\* MUTANT of Swept: warnings are not sent.
SweptUnwarned(t, r) ==
    IF t[r].hold = "tentative" /\ t[r].expires <= now THEN Expired(t, r) ELSE t

\* The hold as the sweep finds it once it has the venue's lock.
Swept(t, r) ==
    IF t[r].hold # "tentative" THEN t
    ELSE IF t[r].expires <= now THEN Expired(t, r)
    ELSE IF ~t[r].warned /\ WarnAt(t[r].expires) THEN [t EXCEPT ![r].warned = TRUE]
    ELSE t

HoldProcessed(r) ==
    /\ r \in due
    /\ due' = due \ {r}
    /\ Written(Swept(rows, r), event, {})
    /\ UNCHANGED <<now, blocks, gap, lacking, deleted, request, approval, edit, completion>>

\* Another call has the venue: the hold is left for a later sweep.
HoldSkipped(r) ==
    /\ r \in due
    /\ due' = due \ {r}
    /\ UNCHANGED <<now, event, rows, blocks, affected, clashes, gap, lacking, deleted,
                   request, approval, edit, completion>>

-----------------------------------------------------------------------------
(* Releases and cancellation.                                              *)

\* MUTANT of ReleaseBookings: the main venue is not moved.
ReleaseBookingsMainKept(e, bs) ==
    /\ bs # {} /\ \A b \in bs : b \in DOMAIN rows /\ CurrentBooking(b, e)
    /\ Written([r \in DOMAIN rows |->
                  IF r \in bs THEN [rows[r] EXCEPT !.booking = "cancelled", !.status = "cancelled"]
                  ELSE IF rows[r].status = "pending" /\ rows[r].wish.replaces \in bs
                  THEN [rows[r] EXCEPT !.status = "cancelled"] ELSE rows[r]],
               [event EXCEPT ![e] = IF @.status \in {"preparation", "confirmed"}
                                    THEN [Returned(@) EXCEPT !.recheck = TRUE] ELSE @], bs)
    /\ UNCHANGED <<now, blocks, gap, lacking, deleted, calls>>

\* release_venue_bookings: the coordinator gives up bookings of one event. The
\* changes waiting to replace them are withdrawn, and a prepared or confirmed
\* event goes back to planning with its venues to be rechecked.
ReleaseBookings(e, bs) ==
    LET t == [r \in DOMAIN rows |->
                IF r \in bs THEN [rows[r] EXCEPT !.booking = "cancelled", !.status = "cancelled"]
                ELSE IF rows[r].status = "pending" /\ rows[r].wish.replaces \in bs
                THEN [rows[r] EXCEPT !.status = "cancelled"]
                ELSE rows[r]]
        back == event[e].status \in {"preparation", "confirmed"}
        left(m) == [Returned(event[e]) EXCEPT !.main = m, !.recheck = @ \/ back]
    IN  /\ bs # {} /\ \A b \in bs : b \in DOMAIN rows /\ CurrentBooking(b, e)
        /\ \E m \in (IF event[e].main \in bs THEN Earliest(t, e) ELSE {event[e].main}) :
            Written(t, [event EXCEPT ![e] = left(m)], bs)
        /\ UNCHANGED <<now, blocks, gap, lacking, deleted, calls>>

\* cancel_event, once the organiser has asked for it: everything the event
\* holds, has booked or waits for is given up.
CancelEvent(e) ==
    LET mine(r) == rows[r].wish.event = e
        ends(r) == mine(r) /\ rows[r].booking = "confirmed" /\ ~Over(rows, r)
        t == [r \in DOMAIN rows |->
                IF ends(r) THEN [rows[r] EXCEPT !.booking = "cancelled", !.status = "cancelled"]
                ELSE IF mine(r)
                THEN [rows[r] EXCEPT !.status = IF @ = "pending" THEN "cancelled" ELSE @,
                                     !.hold = IF @ = "tentative" THEN "released" ELSE @]
                ELSE rows[r]]
    IN  /\ event[e].status \notin {"completed", "cancelled"}
        /\ Written(t, [event EXCEPT ![e].status = "cancelled", ![e].main = Null],
                   {r \in DOMAIN rows : ends(r)})
        /\ UNCHANGED <<now, blocks, gap, lacking, deleted, calls>>

-----------------------------------------------------------------------------
(* Venue Staff: unavailable periods, times, facilities and deletion.       *)

BlockAdded(k) ==
    /\ k \notin blocks /\ k.venue \notin deleted /\ k.period.to > now
    /\ blocks' = blocks \cup {k}
    /\ affected' = BlockFlags(k)
    /\ event' = Followed(event, rows, affected')
    /\ UNCHANGED <<now, rows, clashes, gap, lacking, deleted, calls>>

BlockRemoved(k) ==
    /\ k \in blocks
    /\ blocks' = blocks \ {k}
    /\ affected' = {x \in affected : x[1] # k}
    /\ event' = Followed(event, rows, affected')
    /\ UNCHANGED <<now, rows, clashes, gap, lacking, deleted, calls>>

GapChanged(v, g) ==
    /\ gap[v] # g
    /\ gap' = [gap EXCEPT ![v] = g]
    /\ clashes' = Clashes(rows, gap', {v})
    /\ UNCHANGED <<now, event, rows, blocks, affected, lacking, deleted, calls>>

FacilitiesEdited(v) ==
    /\ v \notin deleted
    /\ lacking' = IF v \in lacking THEN lacking \ {v} ELSE lacking \cup {v}
    /\ UNCHANGED <<now, event, rows, blocks, affected, clashes, gap, deleted, calls>>

\* MUTANT of Blockers: pending requests do not stand in the way.
BlockersNoRequests(v) ==
    {r \in DOMAIN rows :
        /\ rows[r].wish.venue = v /\ ~Over(rows, r)
        /\ rows[r].booking = "confirmed" \/ LiveHold(rows, r)}

\* What delete_venue refuses to delete a venue for.
Blockers(v) ==
    {r \in DOMAIN rows :
        /\ rows[r].wish.venue = v /\ ~Over(rows, r)
        /\ \/ rows[r].booking = "confirmed" \/ LiveHold(rows, r)
           \/ rows[r].status = "pending" /\ ~(rows[r].hold = "tentative" /\ rows[r].expires <= now)}

\* Holds of the venue past their deadline are expired, deleted or not.
DeleteVenue(v) ==
    LET late(r) == rows[r].wish.venue = v /\ rows[r].hold = "tentative" /\ rows[r].expires <= now
    IN  /\ v \notin deleted
        /\ Written([r \in DOMAIN rows |-> IF late(r) THEN Expired(rows, r)[r] ELSE rows[r]], event, {})
        /\ deleted' = IF Blockers(v) = {} THEN deleted \cup {v} ELSE deleted
        /\ UNCHANGED <<now, blocks, gap, lacking, calls>>

-----------------------------------------------------------------------------
(* The event's own life, as far as its venues are concerned.               *)

EventOnly(evs) ==
    /\ event' = evs
    /\ UNCHANGED <<now, rows, blocks, affected, clashes, gap, lacking, deleted, calls>>

\* record_safety_decision: the three decisions.
SafetyDecided(e, status, recheck) ==
    /\ event[e].status = "awaiting_safety_check"
    /\ EventOnly([event EXCEPT ![e].status = status, ![e].recheck = @ \/ recheck])

SafetyApproved(e) == SafetyDecided(e, "preparation", FALSE)
SafetyRejected(e) == SafetyDecided(e, "safety_rejected", FALSE)
ChangesRequested(e) == SafetyDecided(e, "planning", TRUE)

\* rework_safety_rejected_event
Reworked(e) ==
    /\ event[e].status = "safety_rejected"
    /\ EventOnly([event EXCEPT ![e].status = "planning", ![e].recheck = TRUE])

\* settle_arrangement_recheck
RecheckSettled(e) ==
    /\ event[e].recheck
    /\ EventOnly(Followed([event EXCEPT ![e].recheck = FALSE], rows, affected))

\* confirm_event; only a prepared event has a safety approval that counts.
EventConfirmed(e) ==
    /\ event[e].status = "preparation"
    /\ ~event[e].recheck /\ VenueReady(rows, affected, e)
    /\ EventOnly([event EXCEPT ![e].status = "confirmed"])

\* apply_accepted_event_change, with a recheck named or with a significant
\* change to a prepared or confirmed event that names none.
EventChanged(e, recheck) ==
    /\ event[e].status \in (IF recheck THEN Replaceable ELSE {"preparation", "confirmed"})
    /\ LET ev == [event[e] EXCEPT !.status = "planning", !.recheck = @ \/ recheck]
       IN  EventOnly([event EXCEPT ![e] =
                IF recheck THEN ev ELSE Refreshed(ev, VenueReady(rows, affected, e))])

\* completeEvent: the status and the bookings are read, then the status is
\* written if it is still the one read.
CompletionCalled(e) ==
    /\ Completing /\ completion = Null
    /\ event[e].status \in {"preparation", "confirmed"}
    /\ LET mine == {b \in BookedIn(rows) : rows[b].wish.event = e}
       IN  mine # {} /\ \A b \in mine : Over(rows, b)
    /\ completion' = [event |-> e, status |-> event[e].status]
    /\ UNCHANGED <<now, event, rows, blocks, affected, clashes, gap, lacking, deleted, due,
                   request, approval, edit>>

CompletionWritten ==
    /\ completion # Null
    /\ completion' = Null
    /\ event' = [event EXCEPT ![completion.event].status =
                    IF @ = completion.status THEN "completed" ELSE @]
    /\ UNCHANGED <<now, rows, blocks, affected, clashes, gap, lacking, deleted, due,
                   request, approval, edit>>

\* PATCH /:eventId/planning: the event and its arrangements are read; a change
\* of date or attendance asks for a recheck of what is arranged. Of a prepared
\* or confirmed event neither can be edited.
PlanningCalled(e, impact) ==
    /\ edit = Null
    /\ event[e].status \in (IF impact THEN Requestable \cup {"safety_rejected"} ELSE {"approved"})
    /\ impact => \E r \in DOMAIN rows :
        rows[r].wish.event = e /\ rows[r].status \in {"pending", "approved"}
    /\ edit' = [event |-> e, impact |-> impact]
    /\ UNCHANGED <<now, event, rows, blocks, affected, clashes, gap, lacking, deleted, due,
                   request, approval, completion>>

Replanned(ev, impact) == [ev EXCEPT !.status = "planning", !.recheck = @ \/ impact]

\* The route's update, whatever the status is by now; only a cancelled event
\* keeps its own.
PlanningWritten ==
    /\ edit # Null
    /\ edit' = Null
    /\ event' = IF event[edit.event].status = "cancelled" THEN event
                ELSE Followed([event EXCEPT ![edit.event] = Replanned(@, edit.impact)],
                              rows, affected)
    /\ UNCHANGED <<now, rows, blocks, affected, clashes, gap, lacking, deleted, due,
                   request, approval, completion>>

Tick ==
    /\ now < MaxTime
    /\ now' = now + 1
    /\ UNCHANGED <<event, rows, blocks, affected, clashes, gap, lacking, deleted, calls>>

RequestNext ==
    \/ \E w \in Requested : RequestCalled(w)
    \/ RequestInserted
    \/ \E r \in DOMAIN rows : Withdraw(r) \/ Reject(r) \/ DecisionCalled(r) \/ Approve(r)

HoldNext ==
    \/ \E w \in Held, x \in Expiries : CreateHold(w, x)
    \/ \E r \in DOMAIN rows : HoldFoundExpired(r) \/ ReleaseHold(r) \/ ConvertHold(r)
    \/ \E r \in DOMAIN rows, x \in Expiries : ChangeHoldExpiry(r, x)
    \/ HoldsSelected
    \/ \E r \in due : HoldProcessed(r) \/ HoldSkipped(r)

VenueNext ==
    \/ \E k \in Blocked : BlockAdded(k) \/ BlockRemoved(k)
    \/ \E v \in Venues, g \in Gaps : GapChanged(v, g)
    \/ \E v \in Edited : FacilitiesEdited(v)
    \/ \E v \in Venues : DeleteVenue(v)

EventNext ==
    \/ \E e \in Events, bs \in SUBSET DOMAIN rows : ReleaseBookings(e, bs)
    \/ \E e \in Events : CancelEvent(e) \/ SafetyApproved(e) \/ SafetyRejected(e)
    \/ \E e \in Events : ChangesRequested(e) \/ Reworked(e)
    \/ \E e \in Events : RecheckSettled(e) \/ EventConfirmed(e) \/ CompletionCalled(e)
    \/ \E e \in Events, k \in BOOLEAN : EventChanged(e, k)
    \/ \E e \in Planned, k \in BOOLEAN : PlanningCalled(e, k)
    \/ PlanningWritten \/ CompletionWritten

Next == RequestNext \/ HoldNext \/ VenueNext \/ EventNext \/ Tick

Spec == Init /\ [][Next]_vars

\* pg_cron starts the sweep every minute, and no call has the venue's row every
\* time the sweep comes to it.
FairSpec == Spec /\ WF_vars(HoldsSelected)
                 /\ \A r \in Requests : SF_vars(r \in due /\ HoldProcessed(r))

-----------------------------------------------------------------------------
(* Safety.                                                                 *)

Instants(p) == p.from .. (p.to - 1)

\* Two rows that have one venue at one time.
Share(a, b) ==
    /\ rows[a].wish.venue = rows[b].wish.venue
    /\ Instants(rows[a].wish.period) \cap Instants(rows[b].wish.period) # {}

\* A venue is never booked twice for the same time, whichever of approvals,
\* conversions and releases come in what order.
NoDoubleBooking ==
    \A a, b \in BookedIn(rows) : a # b => ~Share(a, b)

\* While a hold runs nobody else gets its venue and time: no booking is made
\* over it and no other hold.
HoldKeepsVenue ==
    \A h \in DOMAIN rows : LiveHold(rows, h) =>
        \A r \in DOMAIN rows \ {h} :
            rows[r].booking = "confirmed" \/ LiveHold(rows, r) => ~Share(h, r)

\* The three tables agree: a tentative hold's request waits for a decision, and
\* the request of one that ended does not; exactly the approved requests have
\* a confirmed booking.
TablesAgree ==
    \A r \in DOMAIN rows :
        /\ rows[r].hold = "tentative" <=> IsHold(rows, r) /\ rows[r].status = "pending"
        /\ rows[r].booking = "confirmed" <=> rows[r].status = "approved"

\* An event's main venue is one of its confirmed bookings, and an event with a
\* booking still to come has a main venue.
MainVenueBooked ==
    \A e \in Events :
        /\ event[e].main # Null =>
            event[e].main \in BookedIn(rows) /\ rows[event[e].main].wish.event = e
        /\ (\E r \in BookedIn(rows) : CurrentBooking(r, e)) => event[e].main # Null

\* A booking is shown as affected exactly while its venue is blocked for a part
\* of its time.
AffectedExactly ==
    affected = {x \in blocks \X BookedIn(rows) : Matches(x[1], rows[x[2]].wish)}

\* Two bookings are shown as clashing exactly while they are closer together
\* than the venue's setup and turnaround.
ClashesExactly ==
    \A a, b \in DOMAIN rows : a # b =>
        ({a, b} \in clashes <=>
            /\ {a, b} \subseteq BookedIn(rows) /\ rows[a].wish.venue = rows[b].wish.venue
            /\ Close(rows[a].wish.period, rows[b].wish.period, gap[rows[a].wish.venue]))

\* A deleted venue has nothing left to come: no booking, no hold and no request
\* that somebody could still approve.
DeletedVenueFree ==
    \A r \in DOMAIN rows :
        rows[r].wish.venue \in deleted /\ ~Over(rows, r)
            => rows[r].booking # "confirmed" /\ rows[r].status # "pending"

\* An event waits for its safety check exactly when its venues are in place:
\* whichever table changed last, the event has been moved in or back out.
AwaitingWhenReady ==
    \A e \in Events :
        /\ event[e].status = "awaiting_safety_check" =>
            ~event[e].recheck /\ VenueReady(rows, affected, e)
        /\ event[e].status \in {"approved", "planning"} => event[e].recheck \/ ~VenueReady(rows, affected, e)

\* A prepared or confirmed event still has the venues it was approved with: one
\* at least, none of them affected by a block.
SecuredEventsHoused ==
    \A e \in Events : event[e].status \in {"preparation", "confirmed"} =>
        /\ \E r \in BookedIn(rows) : rows[r].wish.event = e
        /\ ~\E x \in affected : rows[x[2]].wish.event = e

\* A booking when it is made keeps clear of blocks and leaves setup and
\* turnaround to every other booking and running hold.
NewBookingsHaveRoom ==
    [][\A r \in DOMAIN rows : rows[r].booking = "none" /\ rows'[r].booking = "confirmed" =>
        LET w == rows[r].wish
        IN  /\ ~\E k \in blocks : Matches(k, w)
            /\ \A o \in DOMAIN rows \ {r} :
                /\ o \in BookedIn(rows) \/ LiveHold(rows, o)
                /\ rows[o].wish.venue = w.venue
                => \/ w.period.to + gap[w.venue] <= rows[o].wish.period.from
                   \/ rows[o].wish.period.to + gap[w.venue] <= w.period.from]_vars

\* No pending change is left naming a cancelled booking.
NoChangeOfCancelledBooking ==
    \A r \in PendingIn(rows) :
        rows[r].wish.replaces # Null => rows[rows[r].wish.replaces].booking = "confirmed"

\* Confirmation is serialised against every writer of venue requests: a
\* confirmed event has no request that its confirmation did not see.
ConfirmedEventsReady ==
    \A e \in Events : event[e].status = "confirmed" => VenueReady(rows, affected, e)

-----------------------------------------------------------------------------
(* Liveness.                                                               *)

\* A hold past its deadline is expired, and its venue's request cancelled,
\* without anybody touching the hold.
HoldsExpire ==
    \A r \in Requests :
        (r \in DOMAIN rows /\ rows[r].hold = "tentative" /\ rows[r].expires <= now)
            ~> (r \in DOMAIN rows /\ rows[r].hold # "tentative")

NeedsWarning(r) ==
    r \in DOMAIN rows /\ rows[r].hold = "tentative" /\ ~rows[r].warned /\ WarnAt(rows[r].expires)

\* The coordinator of a hold about to expire is warned, unless it ends or is
\* given more time first.
HoldsWarned == \A r \in Requests : NeedsWarning(r) ~> ~NeedsWarning(r)
=============================================================================
