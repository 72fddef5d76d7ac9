---------------------------- MODULE Registration ----------------------------
(***************************************************************************)
(* Registration for one event: the places, the waiting list, the offers of *)
(* freed places, the organiser's settings and the two scheduled sweeps     *)
(* (supabase/migrations/202610280001_waiting_list.sql and                  *)
(* 202610200004_event_registration_settings.sql).                          *)
(*                                                                         *)
(* Every database function below locks the event row before it reads, so   *)
(* one call is one action. Three things are not covered by that lock and   *)
(* are modelled step by step:                                              *)
(*   - clock_timestamp() is read again by every function that is called,   *)
(*     so one call sees several instants: t1 <= t2 <= ... below, at most   *)
(*     MaxDrift ticks apart each;                                          *)
(*   - update_registration_settings reads the clock in DECLARE, before it  *)
(*     waits for the lock: SettingsCalled, then SettingsSaved;             *)
(*   - the sweeps select events first and lock each one later (skip        *)
(*     locked): ...Selected, ...Processed or ...Skipped.                   *)
(* The event's own life (confirmation, an accepted change, cancellation,   *)
(* completion) appears as what it does to the fields registration reads.   *)
(* Contact details, notices other than the window announcement and the     *)
(* history of ended entries are left out.                                  *)
(***************************************************************************)
EXTENDS Integers, FiniteSets

CONSTANTS
    Attendees,      \* the accounts that act as attendees
    Null,           \* SQL null
    Keep,           \* a setting that the organiser's request does not name
    Patches,        \* the settings requests the organiser may send
    Dates,          \* the start times the event may have
    MaxTime,        \* bound on the clock
    MaxDrift        \* how far the clock moves between two reads in one call

ASSUME AttendeesFinite == IsFiniteSet(Attendees)
ASSUME NullNoInteger == Null \notin Int /\ Keep \notin Int /\ Keep # Null
ASSUME TimeAssumption == MaxTime \in Nat /\ MaxDrift \in Nat /\ Dates \subseteq Nat

\* registration_capacity, the two registration times, and the request for a
\* change of settings: closeNow, or the settings to set. The column checks and
\* the range tests of the request parser allow only these values.
Capacity == {Null} \cup (Nat \ {0})
Time == {Null} \cup Nat
Patch == [closeNow : BOOLEAN, capacity : Capacity \cup {Keep}, opens : Time \cup {Keep},
          closes : Time \cup {Keep}, hours : (Nat \ {0}) \cup {Keep}]

ASSUME PatchesAssumption == Patches \subseteq Patch

\* A waiting_list_entries row with status waiting or offered; an attendee
\* without one has NoEntry (the ended rows are history).
NoEntry == [status |-> "none", expires |-> Null]
Entry == [status : {"none", "waiting", "offered"}, expires : Time]
NoCall == [instant |-> Null, patch |-> Null]
Call == {NoCall} \cup [instant : Nat, patch : Patches]

VARIABLES
    now,            \* clock_timestamp()
    event,          \* the columns of the event row that registration reads
    registered,     \* attendees with a registration that is not cancelled
    entry,          \* each attendee's live waiting-list entry
    queue,          \* <<a, b>>: a's entry precedes b's by (joined_at, entry_id)
    announced,      \* events.registration_announced
    settingsCall,   \* the organiser's settings change waiting for the row lock
    selected        \* the sweeps that have selected the event but not locked it

vars == <<now, event, registered, entry, queue, announced, settingsCall, selected>>

TypeOK ==
    /\ now \in Nat
    /\ event \in [status : {"planning", "confirmed", "completed", "cancelled"},
                  capacity : Capacity, opens : Time, closes : Time,
                  date : Nat, hours : Nat \ {0}]
    /\ registered \subseteq Attendees
    /\ entry \in [Attendees -> Entry]
    /\ queue \subseteq Attendees \X Attendees
    /\ announced \in {Null, "open", "closed"}
    /\ settingsCall \in Call
    /\ selected \subseteq {"offers", "windows"}

Init ==
    /\ now = 0
    /\ event \in [status : {"planning"}, capacity : {Null}, opens : {Null},
                  closes : {Null}, date : Dates, hours : {1}]
    /\ registered = {}
    /\ entry = [a \in Attendees |-> NoEntry]
    /\ queue = {}
    /\ announced = Null
    /\ settingsCall = NoCall
    /\ selected = {}

-----------------------------------------------------------------------------
(* Operators.                                                              *)

\* The instants a later read of the clock in the same call may return.
Later(t) == {u \in t .. t + MaxDrift : u <= MaxTime}

Findable(e) == e.status = "confirmed" /\ e.opens # Null /\ e.closes # Null

\* Registration can no longer be taken at t.
Over(e, t) == e.status # "confirmed" \/ e.closes = Null \/ t >= e.closes \/ t >= e.date

\* Registration is open to attendees at t.
Open(e, t) == Findable(e) /\ e.opens <= t /\ t < e.closes /\ t < e.date

WaitingIn(ent) == {a \in Attendees : ent[a].status = "waiting"}
RunningIn(ent, t) == {a \in Attendees : ent[a].status = "offered" /\ ent[a].expires > t}

\* private.places_held: active registrations, and the offers still running of
\* the attendees outside except.
PlacesHeld(reg, ent, t, except) == Cardinality(reg) + Cardinality(RunningIn(ent, t) \ except)

\* MUTANT of Full: one place too many.
FullOffByOne(e, held) == e.capacity # Null /\ held > e.capacity

Full(e, held) == e.capacity # Null /\ held >= e.capacity

\* Offers that ran out, or that registration no longer honours, leave the list.
OfferEnded(e, x, t) == x.status = "offered" /\ (t >= x.expires \/ Over(e, t))

\* MUTANT of Lapse: a lapsed entry stays among the live ones.
LapseKeepsRow(e, ent, t) ==
    [a \in Attendees |-> IF OfferEnded(e, ent[a], t) THEN [ent[a] EXCEPT !.status = "lapsed"]
                         ELSE ent[a]]

Lapse(e, ent, t) == [a \in Attendees |-> IF OfferEnded(e, ent[a], t) THEN NoEntry ELSE ent[a]]

EarliestOf(a, b, c) == CHOOSE t \in {a, b, c} : \A u \in {a, b, c} : t <= u

\* MUTANT of OfferFree: every waiting attendee is offered the same free place.
OfferFreeUncounted(e, reg, ent, q, instant, t) ==
    LET expires == EarliestOf(instant + e.hours, e.closes, e.date)
    IN  [a \in Attendees |->
            IF ent[a].status = "waiting" /\ ~Full(e, PlacesHeld(reg, ent, t, {}))
            THEN [status |-> "offered", expires |-> expires]
            ELSE ent[a]]

\* MUTANT of OfferFree: the last to join is offered first.
OfferFreeLastFirst(e, reg, ent, q, instant, t) ==
    LET expires   == EarliestOf(instant + e.hours, e.closes, e.date)
        behind(a) == {b \in WaitingIn(ent) : <<a, b>> \in q}
    IN  [a \in Attendees |->
            IF ent[a].status = "waiting"
               /\ ~Full(e, PlacesHeld(reg, ent, t, {}) + Cardinality(behind(a)))
            THEN [status |-> "offered", expires |-> expires]
            ELSE ent[a]]

\* MUTANT of OfferFree: running offers are renewed by every pass.
OfferFreeRenews(e, reg, ent, q, instant, t) ==
    LET expires == EarliestOf(instant + e.hours, e.closes, e.date)
    IN  [a \in Attendees |->
            IF ent[a].status # "none" /\ ~Full(e, PlacesHeld(reg, ent, t, {a}))
            THEN [status |-> "offered", expires |-> expires]
            ELSE ent[a]]

\* The loop that offers every free place to the next waiting attendee. It
\* visits the queue in order, so a is offered a place iff the ones ahead of a
\* leave one free. The instant is the function's own reading of the clock, t
\* the one places_held takes in the loop: an offer made already over by then
\* (just before closing) holds no place.
OfferFree(e, reg, ent, q, instant, t) ==
    LET expires  == EarliestOf(instant + e.hours, e.closes, e.date)
        ahead(a) == {b \in WaitingIn(ent) : <<b, a>> \in q}
        taken(a) == IF expires > t THEN Cardinality(ahead(a)) ELSE 0
    IN  [a \in Attendees |->
            IF ent[a].status = "waiting" /\ ~Full(e, PlacesHeld(reg, ent, t, {}) + taken(a))
            THEN [status |-> "offered", expires |-> expires]
            ELSE ent[a]]

OfferWaitingPlaces(e, reg, ent, q, instant, t) ==
    LET left == Lapse(e, ent, instant)
    IN  IF Open(e, instant) THEN OfferFree(e, reg, left, q, instant, t) ELSE left

\* The queue holds only attendees who are on the list.
Prune(q, ent) == {p \in q : ent[p[1]].status # "none" /\ ent[p[2]].status # "none"}

\* announce_registration_window: what was last announced becomes where the
\* window stands.
WindowState(e, t) ==
    IF ~Findable(e) \/ t < e.opens THEN Null
    ELSE IF t >= e.closes THEN "closed" ELSE "open"

-----------------------------------------------------------------------------
(* The attendee's calls. A refusal changes nothing but what the call has   *)
(* already done: registering and joining let go of lapsed offers first.    *)

Register(a) ==
    /\ a \notin registered
    /\ Open(event, now)
    /\ \E t1 \in Later(now) : \E t2 \in Later(t1) : \E t3 \in Later(t2) :
        LET ent == OfferWaitingPlaces(event, registered, entry, queue, t1, t2)
        IN  /\ now' = t3
            /\ IF Full(event, PlacesHeld(registered, ent, t3, {a}))
               THEN entry' = ent /\ UNCHANGED registered
               ELSE entry' = [ent EXCEPT ![a] = NoEntry] /\ registered' = registered \cup {a}
            /\ queue' = Prune(queue, entry')
    /\ UNCHANGED <<event, announced, settingsCall, selected>>

\* MUTANT of JoinWaitingList: an attendee with a registration may join.
JoinRegisteredToo(a) ==
    /\ Open(event, now)
    /\ entry[a].status = "none"
    /\ Full(event, PlacesHeld(registered, entry, now, {}))
    /\ entry' = [entry EXCEPT ![a] = [status |-> "waiting", expires |-> Null]]
    /\ queue' = queue \cup ({b \in Attendees : entry[b].status # "none"} \X {a})
    /\ UNCHANGED <<now, event, registered, announced, settingsCall, selected>>

JoinWaitingList(a) ==
    /\ a \notin registered
    /\ Open(event, now)
    /\ \E t1 \in Later(now) : \E t2 \in Later(t1) : \E t3 \in Later(t2) :
        LET ent    == OfferWaitingPlaces(event, registered, entry, queue, t1, t2)
            joins  == ent[a].status = "none" /\ Full(event, PlacesHeld(registered, ent, t3, {}))
            listed == {b \in Attendees : ent[b].status # "none"}
        IN  /\ now' = t3
            /\ entry' = IF joins THEN [ent EXCEPT ![a] = [status |-> "waiting", expires |-> Null]]
                        ELSE ent
            /\ queue' = Prune(queue, ent) \cup (IF joins THEN listed \X {a} ELSE {})
    /\ UNCHANGED <<event, registered, announced, settingsCall, selected>>

LeaveWaitingList(a) ==
    /\ entry[a].status # "none"
    /\ \E t1 \in Later(now) : \E t2 \in Later(t1) :
        LET without == [entry EXCEPT ![a] = NoEntry]
        IN  /\ now' = t2
            /\ entry' = IF entry[a].status = "offered"
                        THEN OfferWaitingPlaces(event, registered, without, queue, t1, t2)
                        ELSE without
            /\ queue' = Prune(queue, entry')
    /\ UNCHANGED <<event, registered, announced, settingsCall, selected>>

\* Allowed until the event starts, whether or not registration is open.
WithdrawRegistration(a) ==
    /\ a \in registered
    /\ event.status \notin {"cancelled", "completed"}
    /\ now < event.date
    /\ registered' = registered \ {a}
    /\ \E t1 \in Later(now) : \E t2 \in Later(t1) :
        /\ now' = t2
        /\ entry' = OfferWaitingPlaces(event, registered', entry, queue, t1, t2)
        /\ queue' = Prune(queue, entry')
    /\ UNCHANGED <<event, announced, settingsCall, selected>>

-----------------------------------------------------------------------------
(* The organiser's settings.                                               *)

\* The call has read the clock and now waits for the event row.
SettingsCalled(p) ==
    /\ settingsCall = NoCall
    /\ settingsCall' = [instant |-> now, patch |-> p]
    /\ UNCHANGED <<now, event, registered, entry, queue, announced, selected>>

Patched(e, p, instant) ==
    LET set(old, new) == IF new = Keep THEN old ELSE new
    IN  IF p.closeNow THEN [e EXCEPT !.closes = instant]
        ELSE [e EXCEPT !.capacity = set(@, p.capacity), !.opens = set(@, p.opens),
                       !.closes = set(@, p.closes), !.hours = set(@, p.hours)]

\* MUTANT of ValuesAccepted: the registrations are not counted.
ValuesAcceptedUncounted(e, n, reg, p, instant) ==
    /\ e.status = "confirmed" => Null \notin {p.capacity, p.opens, p.closes}
    /\ n.opens # Null /\ n.closes # Null => n.opens < n.closes /\ n.closes < e.date
    /\ p.closes \notin {Keep, Null} => p.closes > instant

\* The checks of update_registration_settings on a request that sets values,
\* n being the event with the request applied.
ValuesAccepted(e, n, reg, p, instant) ==
    /\ e.status = "confirmed" => Null \notin {p.capacity, p.opens, p.closes}
    /\ n.capacity # Null => n.capacity >= Cardinality(reg)
    /\ n.opens # Null /\ n.closes # Null => n.opens < n.closes
    /\ p.closes \notin {Keep, Null} => p.closes > instant
    /\ n.opens # Null => n.opens < e.date
    /\ n.closes # Null => n.closes < e.date

\* Closing early asks for an open registration. Closing at the opening instant
\* fails the column check that registration closes after it opens.
CloseAccepted(e, instant) == Findable(e) /\ e.opens < instant /\ instant < e.closes

SettingsAccepted(e, n, reg, p, instant) ==
    /\ e.status \notin {"completed", "cancelled"}
    /\ instant < e.date
    /\ IF p.closeNow THEN CloseAccepted(e, instant) ELSE ValuesAccepted(e, n, reg, p, instant)

\* The call has the lock: it saves, announces the window and offers the places
\* the change frees, all under the instant it read before waiting.
SettingsSaved ==
    /\ settingsCall # NoCall
    /\ settingsCall' = NoCall
    /\ LET instant == settingsCall.instant
           p == settingsCall.patch
           n == Patched(event, p, instant)
       IN  IF SettingsAccepted(event, n, registered, p, instant)
           THEN \E t1 \in Later(now) : \E t2 \in Later(t1) : \E t3 \in Later(t2) :
                  /\ now' = t3
                  /\ event' = n
                  /\ announced' = WindowState(n, t1)
                  /\ entry' = OfferWaitingPlaces(n, registered, entry, queue, t2, t3)
                  /\ queue' = Prune(queue, entry')
           ELSE UNCHANGED <<now, event, announced, entry, queue>>
    /\ UNCHANGED <<registered, selected>>

-----------------------------------------------------------------------------
(* The scheduled sweeps, each run by pg_cron every minute.                 *)

\* MUTANT of OffersDue: offers that registration no longer honours are missed.
OffersDueExpiredOnly ==
    \E a \in Attendees : entry[a].status = "offered" /\ now >= entry[a].expires

\* What process_waiting_list_offers selects.
OffersDue == \E a \in Attendees : OfferEnded(event, entry[a], now)

\* MUTANT of WindowDue: a window announced as open is never looked at again.
WindowDueOnce == Findable(event) /\ event.opens <= now /\ announced = Null

\* What process_registration_windows selects.
WindowDue == Findable(event) /\ event.opens <= now /\ announced # WindowState(event, now)

OffersSelected ==
    /\ OffersDue /\ "offers" \notin selected
    /\ selected' = selected \cup {"offers"}
    /\ UNCHANGED <<now, event, registered, entry, queue, announced, settingsCall>>

OffersProcessed ==
    /\ "offers" \in selected
    /\ selected' = selected \ {"offers"}
    /\ \E t1 \in Later(now) : \E t2 \in Later(t1) :
        /\ now' = t2
        /\ entry' = OfferWaitingPlaces(event, registered, entry, queue, t1, t2)
        /\ queue' = Prune(queue, entry')
    /\ UNCHANGED <<event, registered, announced, settingsCall>>

WindowSelected ==
    /\ WindowDue /\ "windows" \notin selected
    /\ selected' = selected \cup {"windows"}
    /\ UNCHANGED <<now, event, registered, entry, queue, announced, settingsCall>>

WindowProcessed ==
    /\ "windows" \in selected
    /\ selected' = selected \ {"windows"}
    /\ \E t1 \in Later(now) : now' = t1 /\ announced' = WindowState(event, t1)
    /\ UNCHANGED <<event, registered, entry, queue, settingsCall>>

\* Another transaction holds the row: the sweep leaves the event for later.
SweepSkipped(s) ==
    /\ s \in selected
    /\ selected' = selected \ {s}
    /\ UNCHANGED <<now, event, registered, entry, queue, announced, settingsCall>>

-----------------------------------------------------------------------------
(* The event's own life, as far as registration reads it.                  *)

EventOnly == UNCHANGED <<now, registered, entry, queue, announced, settingsCall, selected>>

\* confirm_event (planning stands for every live status before Confirmed): unset
\* registration settings do not hold it up, and it offers no place.
EventConfirmed ==
    /\ event.status = "planning"
    /\ event' = [event EXCEPT !.status = "confirmed"]
    /\ EventOnly

\* apply_accepted_event_change with a significant change: a confirmed event
\* goes back to planning, perhaps on another date; its window is left alone.
EventChanged(d) ==
    /\ event.status \in {"planning", "confirmed"}
    /\ event' = [event EXCEPT !.status = "planning", !.date = d]
    /\ EventOnly

EventCancelled ==
    /\ event.status \in {"planning", "confirmed"}
    /\ event' = [event EXCEPT !.status = "cancelled"]
    /\ EventOnly

\* completeEvent, from preparation too: once the last booking has ended. The
\* bookings are not part of this module, so the moment is left open.
EventCompleted ==
    /\ event.status \in {"planning", "confirmed"}
    /\ event' = [event EXCEPT !.status = "completed"]
    /\ EventOnly

Tick ==
    /\ now < MaxTime
    /\ now' = now + 1
    /\ UNCHANGED <<event, registered, entry, queue, announced, settingsCall, selected>>

Sweep ==
    \/ OffersSelected \/ OffersProcessed
    \/ WindowSelected \/ WindowProcessed
    \/ \E s \in {"offers", "windows"} : SweepSkipped(s)

Next ==
    \/ \E a \in Attendees : Register(a) \/ JoinWaitingList(a)
    \/ \E a \in Attendees : LeaveWaitingList(a) \/ WithdrawRegistration(a)
    \/ \E p \in Patches : SettingsCalled(p)
    \/ SettingsSaved
    \/ Sweep
    \/ EventConfirmed \/ EventCancelled \/ EventCompleted
    \/ \E d \in Dates : EventChanged(d)
    \/ Tick

Spec == Init /\ [][Next]_vars

\* pg_cron starts every sweep again and again, and no transaction holds the
\* event row at every one of its runs.
SweepFairness ==
    /\ WF_vars(OffersSelected) /\ SF_vars(OffersProcessed)
    /\ WF_vars(WindowSelected) /\ SF_vars(WindowProcessed)

FairSpec == Spec /\ SweepFairness

-----------------------------------------------------------------------------
(* Safety.                                                                 *)

\* There are never more active registrations than places, whatever settings
\* change arrives while attendees register and withdraw.
CapacityRespected == event.capacity # Null => Cardinality(registered) <= event.capacity

\* An attendee who holds a place is not on the waiting list (join_waiting_list
\* refuses them, and registering ends their entry).
RegisteredNotListed == \A a \in registered : entry[a].status = "none"

HeldNow == PlacesHeld(registered, entry, now, {})

\* No step that gives a place away (a registration or an offer) leaves more
\* places held than there are: a place is never promised twice.
NoPlacePromisedTwice ==
    [][HeldNow' > HeldNow /\ event'.capacity # Null => HeldNow' <= event'.capacity]_vars

\* The attendees who get a place in this step without one held for them.
Obtains(a) ==
    \/ a \in registered' \ registered /\ a \notin RunningIn(entry, now)
    \/ entry[a].status = "waiting" /\ entry'[a].status = "offered"

\* A place goes to the waiting list in order: nobody gets one by a step after
\* which someone who was already waiting ahead of them still waits. A call
\* during which the clock moves is excepted: an offer that runs out, or a window
\* that closes, between two of its reads lets its caller pass the list.
NobodyOvertaken ==
    [][now' = now =>
        \A a, b \in Attendees :
            Obtains(a) /\ entry[b].status = "waiting" /\ <<a, b>> \notin queue /\ a # b
                => entry'[b].status # "waiting"]_vars

\* "It is held for you until ...": while registration can be taken, a running
\* offer ends only because its attendee registers or leaves, and nothing
\* shortens or prolongs it.
OfferHeldUntilExpiry ==
    [][\A a \in RunningIn(entry, now') :
        \/ entry'[a] = entry[a] \/ a \in registered' \/ LeaveWaitingList(a)
        \/ Over(event', now')]_vars

\* When a place is free and registration is open, somebody waiting for it is
\* offered it, or at least the sweep that makes offers selects the event.
FreePlacesAreOffered ==
    Open(event, now) /\ WaitingIn(entry) # {} /\ ~Full(event, HeldNow) => OffersDue

-----------------------------------------------------------------------------
(* Liveness.                                                               *)

\* An offer that has run out, or that registration no longer honours, is
\* released without any attendee or organiser acting.
LapsedOffersReleased ==
    \A a \in Attendees :
        OfferEnded(event, entry[a], now) ~> ~OfferEnded(event, entry[a], now)

\* A confirmed event's window has opened or closed and nobody has been told.
Unannounced == Findable(event) /\ WindowState(event, now) \notin {Null, announced}

\* A window that opens or closes on schedule is announced without anybody
\* acting, unless the event or its settings change first.
WindowAnnounced == Unannounced ~> ~Unannounced
=============================================================================
