------------------------- MODULE VenueEventsProofs -------------------------
(***************************************************************************)
(* What else holds of VenueBooking for any events, venues, requests,       *)
(* periods and times: that the stored flags are what the tables say, that  *)
(* an event's main venue is booked, that a deleted venue is free, and that *)
(* the event's status keeps up with its venues.                            *)
(***************************************************************************)
EXTENDS VenueBookingProofs

Secured == {"preparation", "confirmed"}

\* A change replaces another booking of its own event.
ReplacesOwn ==
    \A r \in DOMAIN rows : rows[r].wish.replaces # Null =>
        /\ rows[r].wish.replaces \in DOMAIN rows \ {r}
        /\ rows[rows[r].wish.replaces].wish.event = rows[r].wish.event

\* An event is in the safety check only with its venues in place.
CheckedReady ==
    \A e \in Events : event[e].status = "awaiting_safety_check" =>
        ~event[e].recheck /\ VenueReady(rows, affected, e)

IInv == /\ TypeOK /\ TablesInv /\ ReplacesOwn
        /\ AffectedExactly /\ MainVenueBooked /\ CheckedReady /\ SecuredEventsHoused

-----------------------------------------------------------------------------
(* What every call does to the rows, the events and the rest.  `changed`    *)
(* are the bookings it made or cancelled, evs the events as it leaves them  *)
(* before the triggers.                                                     *)

MovedRow(r, changed) ==
    /\ rows'[r].wish = rows[r].wish
    /\ rows[r].status # "pending" => rows'[r].status # "pending"
    /\ r \notin changed => rows'[r].booking = rows[r].booking
    /\ rows'[r].booking = "confirmed" => rows[r].booking = "confirmed" \/ rows[r].status = "pending"

\* What is asked of the wish of a new row.
Granted(w) ==
    /\ w.venue \notin deleted
    /\ w.replaces # Null => w.replaces \in DOMAIN rows /\ rows[w.replaces].wish.event = w.event

Moved(changed) ==
    /\ changed \subseteq DOMAIN rows /\ DOMAIN rows \subseteq DOMAIN rows'
    /\ \A r \in DOMAIN rows : MovedRow(r, changed)
    /\ \A r \in DOMAIN rows' \ DOMAIN rows : rows'[r].booking = "none" /\ Granted(rows'[r].wish)

\* The event has a row that the call made or changed.
RowsOf(e) == \E r \in DOMAIN rows' : /\ r \notin DOMAIN rows \/ rows'[r] # rows[r]
                                     /\ rows'[r].wish.event = e

Eased(evs) ==
    \A e \in Events : \/ evs[e].status = event[e].status
                      \/ evs[e].status = "cancelled"
                      \/ evs[e].status = "planning" /\ (evs[e].recheck \/ RowsOf(e))

Housed(t, e) == \E r \in BookedIn(t) : t[r].wish.event = e

KeepsHoused(evs) ==
    \A e \in Events : evs[e].status \in Secured /\ Housed(rows, e) => Housed(rows', e)

MainOf(evs, e) ==
    /\ evs[e].main # Null =>
        evs[e].main \in BookedIn(rows') /\ rows'[evs[e].main].wish.event = e
    /\ (\E r \in BookedIn(rows') : CurrentBooking(r, e)') => evs[e].main # Null

Wrote(evs, changed) ==
    /\ Written(rows', evs, changed)
    /\ Moved(changed)
    /\ Eased(evs) /\ KeepsHoused(evs)
    /\ \A e \in Events : MainOf(evs, e)
    /\ UNCHANGED <<now, blocks, gap>>

Writes == \E evs \in [Events -> EventRow], changed \in SUBSET DOMAIN rows : Wrote(evs, changed)

\* The event's bookings are untouched and its main venue with them.
LEMMA MainKept ==
  ASSUME IInv, UNCHANGED now, NEW evs, NEW e \in Events, NEW changed, Moved(changed),
         evs[e].main = event[e].main,
         \A r \in DOMAIN rows : rows[r].wish.event = e => rows'[r].booking = rows[r].booking
  PROVE  MainOf(evs, e)
  <1>1. /\ event[e].main # Null => event[e].main \in BookedIn(rows) /\ rows[event[e].main].wish.event = e
        /\ (\E r \in BookedIn(rows) : CurrentBooking(r, e)) => event[e].main # Null
    BY DEF IInv, MainVenueBooked
  <1>2. evs[e].main # Null => evs[e].main \in BookedIn(rows') /\ rows'[evs[e].main].wish.event = e
    BY <1>1 DEF Moved, MovedRow, BookedIn
  <1>3. ASSUME NEW r \in BookedIn(rows'), CurrentBooking(r, e)' PROVE evs[e].main # Null
    <2>1. r \in DOMAIN rows /\ rows'[r].wish = rows[r].wish /\ rows'[r].wish.event = e
      BY <1>3 DEF Moved, MovedRow, BookedIn, CurrentBooking
    <2>2. r \in BookedIn(rows) /\ CurrentBooking(r, e)
      BY <1>3, <2>1 DEF BookedIn, CurrentBooking, Over
    <2>3. QED
      BY <1>1, <2>2
  <1>4. QED
    BY <1>2, <1>3 DEF MainOf

\* A call that makes and cancels no booking and leaves the events' main venues.
LEMMA QuietWrite ==
  ASSUME IInv, UNCHANGED <<now, blocks, gap>>, NEW evs \in [Events -> EventRow],
         Written(rows', evs, {}), Moved({}), Eased(evs),
         \A e \in Events : evs[e].main = event[e].main
  PROVE  Writes
  <1>1. \A e \in Events : MainOf(evs, e)
    BY ZenonT(60), MainKept DEF Moved, MovedRow
  <1>2. KeepsHoused(evs)
    BY DEF KeepsHoused, Housed, BookedIn, Moved, MovedRow
  <1>3. QED
    BY <1>1, <1>2 DEF Writes, Wrote

\* The events as they were.
LEMMA SameEvents ==
  ASSUME IInv
  PROVE  event \in [Events -> EventRow] /\ Eased(event) /\ \A e \in Events : event[e].main = event[e].main
  BY TypedTables DEF IInv, Eased

\* One row changes, and not its booking.
LEMMA OneRow ==
  ASSUME NEW r \in DOMAIN rows, DOMAIN rows' = DOMAIN rows,
         \A q \in DOMAIN rows \ {r} : rows'[q] = rows[q],
         rows'[r].wish = rows[r].wish, rows'[r].booking = rows[r].booking,
         rows[r].status # "pending" => rows'[r].status # "pending"
  PROVE  Moved({})
  BY DEF Moved, MovedRow

\* One row is made, without a booking.
LEMMA OneMore ==
  ASSUME NEW r, r \notin DOMAIN rows, NEW row, row.booking = "none", Granted(row.wish),
         rows' = With(rows, r, row)
  PROVE  /\ Moved({}) /\ DOMAIN rows' = DOMAIN rows \cup {r} /\ rows'[r] = row
         /\ \A q \in DOMAIN rows : rows'[q] = rows[q]
  BY DEF Moved, MovedRow, With

LEMMA QuietCall ==
  ASSUME IInv, UNCHANGED <<now, blocks, gap>>, NEW t, Written(t, event, {}), Moved({})
  PROVE  Writes
  BY QuietWrite, SameEvents DEF Written
-----------------------------------------------------------------------------
(* Requests and their decisions.                                           *)

\* The call leaves tables, events and clock.
Still == UNCHANGED <<now, event, rows, blocks, affected, clashes, gap>>

\* The earliest booking to come, or none, is a main venue.
LEMMA EarliestIsMain ==
  ASSUME UNCHANGED now, DOMAIN rows' \subseteq Requests, NEW e, NEW m \in Earliest(rows', e),
         NEW evs, evs[e].main = m
  PROVE  MainOf(evs, e)
  <1> DEFINE coming == {r \in BookedIn(rows') : rows'[r].wish.event = e /\ ~Over(rows', r)}
  <1>1. \A r \in BookedIn(rows') : CurrentBooking(r, e)' => r \in coming
    BY DEF CurrentBooking, Over
  <1>2. CASE coming = {}
    BY <1>1, <1>2 DEF Earliest, MainOf
  <1>3. CASE coming # {}
    <2>1. m \in coming
      BY <1>3 DEF Earliest
    <2>2. m # Null
      BY <2>1, IdAssumption DEF BookedIn
    <2>3. QED
      BY <2>1, <2>2 DEF MainOf
  <1>4. QED
    BY <1>2, <1>3

LEMMA InsertWrites == IInv /\ RequestInserted => Writes \/ Still
  <1> SUFFICES ASSUME IInv, RequestInserted, ~Still PROVE Writes
    OBVIOUS
  <1> DEFINE evs == IF request.replaces = Null THEN event
                    ELSE [event EXCEPT ![request.event] = Returned(@)]
  <1>1. PICK r \in Requests \ DOMAIN rows : Written(With(rows, r, NewRow(request)), evs, {})
    BY DEF RequestInserted, Still
  <1>2. request \in Wish /\ UNCHANGED <<now, blocks, gap>>
    BY DEF RequestInserted, IInv, TypeOK
  <1>3. rows' = With(rows, r, NewRow(request)) /\ Written(rows', evs, {})
    BY <1>1 DEF Written
  <1>4. /\ Moved({}) /\ DOMAIN rows' = DOMAIN rows \cup {r} /\ rows'[r] = NewRow(request)
    <2>1. Granted(request)
      BY DEF RequestInserted, Still, RequestAccepted, CurrentBooking, BookedIn, Granted
    <2>2. NewRow(request).booking = "none" /\ NewRow(request).wish = request
      BY DEF NewRow
    <2>3. Granted(NewRow(request).wish)
      BY <2>1, <2>2
    <2>4. QED
      BY <1>1, <1>3, <2>2, <2>3, OneMore
  <1>5. RowsOf(request.event)
    BY <1>1, <1>4 DEF RowsOf, NewRow
  <1>6. event \in [Events -> EventRow] /\ request.event \in Events
    BY <1>2, TypedTables DEF IInv, Wish
  <1>7. evs \in [Events -> EventRow]
    BY <1>6, ReturnedType
  <1>8. Eased(evs) /\ \A e \in Events : evs[e].main = event[e].main
    <2>1. \A ev \in EventRow : /\ Returned(ev).main = ev.main
                               /\ Returned(ev).status \in {ev.status, "planning"}
      BY DEF Returned, EventRow
    <2>2. \A e \in Events : evs[e] = event[e] \/ (e = request.event /\ evs[e] = Returned(event[e]))
      BY <1>6
    <2> HIDE DEF evs
    <2>3. QED
      BY <1>5, <1>6, <2>1, <2>2 DEF Eased
  <1>9. QED
    BY <1>2, <1>3, <1>4, <1>7, <1>8, QuietWrite

LEMMA RefuseWrites ==
  ASSUME IInv, NEW r \in DOMAIN rows, Withdraw(r) \/ Reject(r) PROVE Writes
  <1>1. PICK s \in {"cancelled", "rejected"} : Written([rows EXCEPT ![r].status = s], event, {})
    BY DEF Withdraw, Reject
  <1>2. UNCHANGED <<now, blocks, gap>>
    BY DEF Withdraw, Reject
  <1>3. rows' = [rows EXCEPT ![r].status = s]
    BY <1>1 DEF Written
  <1>4. Moved({})
    BY <1>3, RowFields, OneRow DEF Row, IInv
  <1>5. QED
    BY <1>1, <1>2, <1>4, QuietCall

\* What an approval leaves, and the bookings it releases.
BookedRows(r) == [rows EXCEPT ![r].status = "approved", ![r].booking = "confirmed"]
ApprovedRows(r) == ReplacedReleased(BookedRows(r), rows[r].wish.replaces)
GoneFor(r) == {b \in DOMAIN rows : ApprovedRows(r)[b].booking # BookedRows(r)[b].booking}

\* An approval changes its own row, and the one it replaces.
LEMMA ApprovalRows ==
  ASSUME IInv, NEW r \in DOMAIN rows, rows[r].status = "pending"
  PROVE  LET t == ApprovedRows(r)
             gone == GoneFor(r)
         IN  /\ Table(t) /\ DOMAIN t = DOMAIN rows /\ gone \subseteq DOMAIN rows \ {r}
             /\ t[r].wish = rows[r].wish /\ t[r].status = "approved" /\ t[r].booking = "confirmed"
             /\ \A q \in DOMAIN rows \ (gone \cup {r}) : t[q] = rows[q]
             /\ \A q \in gone : /\ t[q].wish = rows[q].wish
                                /\ rows[q].wish.event = rows[r].wish.event
                                /\ t[q].status = "cancelled" /\ t[q].booking = "cancelled"
  <1> DEFINE t == ApprovedRows(r)
             gone == GoneFor(r)
             booked == BookedRows(r)
             b == rows[r].wish.replaces
             freed == [booked EXCEPT ![b].status = "cancelled", ![b].booking = "cancelled"]
  <1>1. Table(rows) /\ Table(booked) /\ DOMAIN booked = DOMAIN rows
    BY TypedTables, TableChanges DEF IInv, BookedRows
  <1>2. Table(t) /\ DOMAIN t = DOMAIN rows
    BY <1>1, ReplacedReleasedTable DEF ApprovedRows
  <1>3. /\ booked[r].wish = rows[r].wish /\ booked[r].status = "approved"
        /\ booked[r].booking = "confirmed" /\ \A q \in DOMAIN rows \ {r} : booked[q] = rows[q]
    <2>1. rows[r] \in Row
      BY <1>1 DEF Table
    <2>2. booked[r] = [rows[r] EXCEPT !.status = "approved", !.booking = "confirmed"]
      BY DEF BookedRows
    <2>3. QED
      BY <2>1, <2>2 DEF Row, BookedRows
  <1> HIDE DEF booked
  <1>4. CASE t = booked
    <2>1. gone = {}
      BY <1>4 DEF GoneFor, booked
    <2>2. QED
      BY <1>2, <1>3, <1>4, <2>1
  <1>5. CASE b # Null /\ booked[b].booking = "confirmed" /\ t = freed
    <2>1. b \in DOMAIN rows \ {r} /\ rows[b].wish.event = rows[r].wish.event
      BY <1>5 DEF IInv, ReplacesOwn
    <2>2. booked[b] \in Row /\ booked[b] = rows[b]
      BY <1>1, <1>3, <2>1 DEF Table
    <2>3. \A q \in DOMAIN rows \ {b} : t[q] = booked[q]
      BY <1>1, <1>5
    <2>4. t[b] = [booked[b] EXCEPT !.status = "cancelled", !.booking = "cancelled"]
      BY <1>1, <1>5, <2>1
    <2>5. t[b].wish = rows[b].wish /\ t[b].status = "cancelled" /\ t[b].booking = "cancelled"
      BY <2>2, <2>4 DEF Row
    <2>6. gone = {b}
      BY <1>5, <2>1, <2>3, <2>5 DEF GoneFor, booked
    <2>7. QED
      BY <1>2, <1>3, <2>1, <2>3, <2>5, <2>6
  <1>6. t = booked \/ (b # Null /\ booked[b].booking = "confirmed" /\ t = freed)
    BY DEF ApprovedRows, ReplacedReleased, booked
  <1>7. QED
    BY <1>4, <1>5, <1>6

LEMMA ApproveWrites ==
  ASSUME IInv, NEW r \in DOMAIN rows, Approve(r) PROVE Writes \/ Still
  <1> DEFINE w == rows[r].wish
             e == w.event
             t == ApprovedRows(r)
             gone == GoneFor(r)
             first == IF event[e].main = Null THEN r ELSE event[e].main
             changed == gone \cup {r}
             evs(m) == [event EXCEPT ![e].main = m]
  <1> SUFFICES ASSUME ~Still PROVE Writes
    OBVIOUS
  <1>1. /\ rows[r].status = "pending" /\ UNCHANGED <<now, blocks, gap>>
        /\ \E m \in (IF first \in gone THEN Earliest(t, e) ELSE {first}) :
              Written(t, evs(m), changed)
    BY DEF Approve, Still, ApprovedRows, BookedRows, GoneFor
  <1>2. PICK m \in (IF first \in gone THEN Earliest(t, e) ELSE {first}) : Written(t, evs(m), changed)
    BY <1>1
  <1>3. /\ Table(t) /\ DOMAIN t = DOMAIN rows /\ gone \subseteq DOMAIN rows \ {r}
        /\ t[r].wish = rows[r].wish /\ t[r].status = "approved" /\ t[r].booking = "confirmed"
        /\ \A q \in DOMAIN rows \ (gone \cup {r}) : t[q] = rows[q]
        /\ \A q \in gone : /\ t[q].wish = rows[q].wish
                           /\ rows[q].wish.event = rows[r].wish.event
                           /\ t[q].status = "cancelled" /\ t[q].booking = "cancelled"
    BY <1>1, ApprovalRows
  <1>4. rows' = t /\ Written(rows', evs(m), changed)
    BY <1>2 DEF Written
  <1>5. r \in Requests /\ e \in Events /\ event \in [Events -> EventRow] /\ r # Null
        /\ rows[r].booking # "confirmed"
    BY <1>1, RowFields, TypedTables, IdAssumption DEF IInv, Wish, TypeOK, TablesInv, Agree
  <1> HIDE DEF t, gone
  <1>6. m \in Requests \cup {Null}
    BY <1>2, <1>3, <1>5, EarliestType DEF EventRow
  <1>7. /\ evs(m) \in [Events -> EventRow] /\ evs(m)[e].main = m
        /\ \A e1 \in Events : /\ evs(m)[e1].status = event[e1].status
                              /\ e1 # e => evs(m)[e1] = event[e1]
    BY <1>5, <1>6 DEF EventRow
  <1> HIDE DEF evs
  <1>8. Moved(changed)
    BY <1>1, <1>3, <1>4 DEF Moved, MovedRow
  <1>9. Eased(evs(m))
    BY <1>7 DEF Eased
  <1>10. KeepsHoused(evs(m))
    BY <1>3, <1>4 DEF KeepsHoused, Housed, BookedIn
  <1>11. ASSUME NEW e1 \in Events PROVE MainOf(evs(m), e1)
    <2>1. CASE e1 # e
      <3>1. \A q \in DOMAIN rows : rows[q].wish.event = e1 => rows'[q].booking = rows[q].booking
        BY <1>3, <1>4, <2>1
      <3>2. QED
        BY <1>1, <1>7, <1>8, <2>1, <3>1, MainKept
    <2>2. CASE e1 = e /\ first \in gone
      <3>1. m \in Earliest(rows', e)
        BY <1>2, <1>4, <2>2
      <3>2. QED
        BY <1>1, <1>3, <1>4, <1>7, <2>2, <3>1, EarliestIsMain DEF Table
    <2>3. CASE e1 = e /\ first \notin gone
      <3>1. m = first
        BY <1>2, <2>3
      <3>2. first # Null /\ first \in BookedIn(rows') /\ rows'[first].wish.event = e
        <4>1. CASE event[e].main = Null
          BY <1>3, <1>4, <1>5, <4>1 DEF BookedIn
        <4>2. CASE event[e].main # Null
          <5>1. event[e].main \in BookedIn(rows) /\ rows[event[e].main].wish.event = e
            BY <1>5, <4>2 DEF IInv, MainVenueBooked
          <5>2. QED
            BY <1>3, <1>4, <1>5, <2>3, <4>2, <5>1 DEF BookedIn
        <4>3. QED
          BY <4>1, <4>2
      <3>3. QED
        BY <1>7, <2>3, <3>1, <3>2 DEF MainOf
    <2>4. QED
      BY <2>1, <2>2, <2>3
  <1>12. changed \in SUBSET DOMAIN rows
    BY <1>3
  <1>13. QED
    BY <1>1, <1>4, <1>7, <1>8, <1>9, <1>10, <1>11, <1>12 DEF Writes, Wrote

LEMMA RequestsWrite == IInv /\ RequestNext => Writes \/ Still
  BY InsertWrites, RefuseWrites, ApproveWrites
  DEF RequestNext, RequestCalled, DecisionCalled, Still

-----------------------------------------------------------------------------
(* Holds.                                                                  *)

\* A hold that is expired, by a call, the sweep or a deletion.
LEMMA ExpiredRow ==
  ASSUME NEW t, Table(t), NEW r \in DOMAIN t
  PROVE  /\ DOMAIN Expired(t, r) = DOMAIN t /\ \A q \in DOMAIN t \ {r} : Expired(t, r)[q] = t[q]
         /\ Expired(t, r)[r].wish = t[r].wish /\ Expired(t, r)[r].booking = t[r].booking
         /\ Expired(t, r)[r].status = IF t[r].status = "pending" THEN "cancelled" ELSE t[r].status
  <1>1. t[r] \in Row
    BY DEF Table
  <1>2. Expired(t, r)[r] = [t[r] EXCEPT !.hold = "expired",
                             !.status = IF t[r].status = "pending" THEN "cancelled" ELSE t[r].status]
    BY DEF Expired
  <1>3. QED
    BY <1>1, <1>2 DEF Row, Expired

LEMMA CreateWrites ==
  ASSUME IInv, NEW w \in Held, NEW x \in Expiries, CreateHold(w, x) PROVE Writes
  <1> DEFINE row == [NewRow(w) EXCEPT !.hold = "tentative", !.expires = x, !.warned = WarnAt(x)]
  <1>1. PICK r \in Requests \ DOMAIN rows : Written(With(rows, r, row), event, {})
    BY DEF CreateHold
  <1>2. row.booking = "none" /\ Granted(row.wish)
    <2>1. row.booking = "none" /\ row.wish = w
      BY DEF NewRow
    <2>2. w.replaces = Null /\ w.venue \notin deleted
      BY DataAssumption DEF CreateHold
    <2>3. QED
      BY <2>1, <2>2 DEF Granted
  <1> HIDE DEF row
  <1>3. Moved({})
    BY <1>1, <1>2, OneMore DEF Written
  <1>4. QED
    BY <1>1, <1>3, QuietCall DEF CreateHold

LEMMA HoldWrites ==
  ASSUME IInv, NEW r \in DOMAIN rows,
         \/ HoldFoundExpired(r) \/ ReleaseHold(r) \/ HoldProcessed(r)
         \/ \E x \in Expiries : ChangeHoldExpiry(r, x)
  PROVE  Writes
  <1>1. UNCHANGED <<now, blocks, gap>> /\ rows[r] \in Row /\ Table(rows)
    BY RowFields, TypedTables
    DEF IInv, HoldFoundExpired, ReleaseHold, HoldProcessed, ChangeHoldExpiry
  <1>2. CASE HoldFoundExpired(r) \/ (HoldProcessed(r) /\ Swept(rows, r) = Expired(rows, r))
    <2>1. Written(Expired(rows, r), event, {}) /\ rows' = Expired(rows, r)
      BY <1>2 DEF HoldFoundExpired, HoldProcessed, Written
    <2>2. Moved({})
      BY <1>1, <2>1, ExpiredRow, OneRow
    <2>3. QED
      BY <1>1, <2>1, <2>2, QuietCall
  <1>3. CASE ReleaseHold(r)
    <2> DEFINE t == [rows EXCEPT ![r].hold = "released", ![r].status = "cancelled"]
    <2>1. Written(t, event, {}) /\ rows' = t
      BY <1>3 DEF ReleaseHold, Written
    <2>2. t[r].wish = rows[r].wish /\ t[r].booking = rows[r].booking /\ t[r].status = "cancelled"
      BY <1>1 DEF Row
    <2>3. Moved({})
      BY <2>1, <2>2, OneRow
    <2>4. QED
      BY <1>1, <2>1, <2>3, QuietCall
  <1>4. CASE \E x \in Expiries : ChangeHoldExpiry(r, x)
    <2>1. PICK x \in Expiries : ChangeHoldExpiry(r, x)
      BY <1>4
    <2> DEFINE t == [rows EXCEPT ![r].expires = x, ![r].warned = WarnAt(x)]
    <2>2. Written(t, event, {}) /\ rows' = t
      BY <2>1 DEF ChangeHoldExpiry, Written
    <2>3. t[r].wish = rows[r].wish /\ t[r].booking = rows[r].booking /\ t[r].status = rows[r].status
      BY <1>1 DEF Row
    <2>4. Moved({})
      BY <2>2, <2>3, OneRow
    <2>5. QED
      BY <1>1, <2>2, <2>4, QuietCall
  <1>5. CASE HoldProcessed(r) /\ Swept(rows, r) \in {rows, [rows EXCEPT ![r].warned = TRUE]}
    <2>1. Written(Swept(rows, r), event, {}) /\ rows' \in {rows, [rows EXCEPT ![r].warned = TRUE]}
      BY <1>5 DEF HoldProcessed, Written
    <2>2. /\ DOMAIN rows' = DOMAIN rows /\ \A q \in DOMAIN rows \ {r} : rows'[q] = rows[q]
          /\ rows'[r].wish = rows[r].wish /\ rows'[r].booking = rows[r].booking
          /\ rows'[r].status = rows[r].status
      BY <1>1, <2>1 DEF Row
    <2>3. Moved({})
      BY <2>2, OneRow
    <2>4. QED
      BY <1>1, <2>1, <2>3, QuietCall
  <1>6. QED
    BY <1>2, <1>3, <1>4, <1>5 DEF Swept

LEMMA ConvertWrites ==
  ASSUME IInv, NEW r \in DOMAIN rows, ConvertHold(r) PROVE Writes
  <1> DEFINE e == rows[r].wish.event
             t == [rows EXCEPT ![r].hold = "converted", ![r].status = "approved",
                               ![r].booking = "confirmed"]
             evs == [event EXCEPT ![e].main = r]
  <1>1. /\ Written(t, evs, {r}) /\ rows' = t /\ UNCHANGED <<now, blocks, gap>>
        /\ rows[r].status = "pending"
    BY DEF ConvertHold, Written
  <1>2. rows[r] \in Row /\ r \in Requests /\ e \in Events /\ event \in [Events -> EventRow]
    BY RowFields, TypedTables DEF IInv, TypeOK, Wish
  <1>3. /\ DOMAIN t = DOMAIN rows /\ \A q \in DOMAIN rows \ {r} : t[q] = rows[q]
        /\ t[r].wish = rows[r].wish /\ t[r].status = "approved" /\ t[r].booking = "confirmed"
    BY <1>2 DEF Row
  <1>4. /\ evs \in [Events -> EventRow] /\ evs[e].main = r
        /\ \A e1 \in Events : /\ evs[e1].status = event[e1].status
                              /\ e1 # e => evs[e1] = event[e1]
    BY <1>2 DEF EventRow
  <1> HIDE DEF t, evs
  <1>5. Moved({r})
    BY <1>1, <1>3 DEF Moved, MovedRow
  <1>6. Eased(evs)
    BY <1>4 DEF Eased
  <1>7. KeepsHoused(evs)
    BY <1>1, <1>3 DEF KeepsHoused, Housed, BookedIn
  <1>8. ASSUME NEW e1 \in Events PROVE MainOf(evs, e1)
    <2>1. CASE e1 # e
      BY <1>1, <1>3, <1>4, <1>5, <2>1, MainKept
    <2>2. CASE e1 = e
      BY <1>1, <1>2, <1>3, <1>4, <2>2, IdAssumption DEF MainOf, BookedIn
    <2>3. QED
      BY <2>1, <2>2
  <1>9. QED
    BY <1>1, <1>4, <1>5, <1>6, <1>7, <1>8 DEF Writes, Wrote

LEMMA HoldsWrite == IInv /\ HoldNext => Writes \/ Still
  <1> SUFFICES ASSUME IInv, HoldNext PROVE Writes \/ Still
    OBVIOUS
  <1>1. due \subseteq DOMAIN rows
    BY DEF IInv, TypeOK
  <1>2. QED
    BY <1>1, CreateWrites, HoldWrites, ConvertWrites DEF HoldNext, HoldsSelected, HoldSkipped, Still

-----------------------------------------------------------------------------
(* Deletions, releases and cancellations.                                  *)

LEMMA DeleteWrites ==
  ASSUME IInv, NEW v \in Venues, DeleteVenue(v) PROVE Writes
  <1> DEFINE late(r) == rows[r].wish.venue = v /\ rows[r].hold = "tentative" /\ rows[r].expires <= now
             t == [r \in DOMAIN rows |-> IF late(r) THEN Expired(rows, r)[r] ELSE rows[r]]
  <1>1. Written(t, event, {}) /\ rows' = t /\ UNCHANGED <<now, blocks, gap>>
    BY DEF DeleteVenue, Written
  <1>2. \A r \in DOMAIN rows :
          /\ t[r].wish = rows[r].wish /\ t[r].booking = rows[r].booking
          /\ rows[r].status # "pending" => t[r].status # "pending"
    BY TypedTables, ExpiredRow DEF IInv
  <1> HIDE DEF late
  <1>3. Moved({})
    BY <1>1, <1>2 DEF Moved, MovedRow
  <1>4. QED
    BY <1>1, <1>3, QuietCall

LEMMA ReleaseWrites ==
  ASSUME IInv, NEW e \in Events, NEW bs \in SUBSET DOMAIN rows, ReleaseBookings(e, bs)
  PROVE  Writes
  <1> DEFINE t == [r \in DOMAIN rows |->
                    IF r \in bs
                    THEN [rows[r] EXCEPT !.booking = "cancelled", !.status = "cancelled"]
                    ELSE IF rows[r].status = "pending" /\ rows[r].wish.replaces \in bs
                    THEN [rows[r] EXCEPT !.status = "cancelled"]
                    ELSE rows[r]]
             back == event[e].status \in {"preparation", "confirmed"}
             left(m) == [Returned(event[e]) EXCEPT !.main = m, !.recheck = @ \/ back]
             evs(m) == [event EXCEPT ![e] = left(m)]
  <1>1. PICK m \in (IF event[e].main \in bs THEN Earliest(t, e) ELSE {event[e].main}) :
          Written(t, evs(m), bs)
    BY DEF ReleaseBookings
  <1>2. /\ rows' = t /\ Written(rows', evs(m), bs) /\ UNCHANGED <<now, blocks, gap>>
        /\ \A b \in bs : rows[b].booking = "confirmed" /\ rows[b].wish.event = e
    BY <1>1 DEF ReleaseBookings, Written, CurrentBooking, BookedIn
  <1>3. \A r \in DOMAIN rows :
          /\ t[r] \in Row /\ t[r].wish = rows[r].wish
          /\ rows[r].status # "pending" => t[r].status # "pending"
          /\ r \notin bs => t[r].booking = rows[r].booking
          /\ r \in bs => t[r].booking = "cancelled"
    BY ZenonT(60), RowFields DEF IInv, Row
  <1>4. Table(t) /\ DOMAIN t = DOMAIN rows /\ event \in [Events -> EventRow]
    BY <1>3, TypedTables DEF IInv, Table
  <1> HIDE DEF t
  <1>5. m \in Requests \cup {Null}
    BY <1>1, <1>4, EarliestType DEF EventRow
  <1>6. /\ left(m) \in EventRow /\ left(m).main = m
        /\ left(m).status = event[e].status \/ (left(m).status = "planning" /\ left(m).recheck)
        /\ left(m).status \notin Secured
    <2>1. Returned(event[e]) \in EventRow /\ Returned(event[e]).main = event[e].main
      BY <1>4, ReturnedType DEF Returned, EventRow
    <2>2. left(m) \in EventRow /\ left(m).main = m /\ left(m).status = Returned(event[e]).status
          /\ left(m).recheck = (Returned(event[e]).recheck \/ back)
      BY <1>5, <2>1 DEF EventRow
    <2>3. QED
      BY <2>1, <2>2 DEF Returned, Secured, EventRow
  <1> HIDE DEF left
  <1>7. evs(m) \in [Events -> EventRow] /\ evs(m)[e] = left(m)
        /\ \A e1 \in Events : e1 # e => evs(m)[e1] = event[e1]
    BY <1>4, <1>6
  <1> HIDE DEF evs
  <1>8. Moved(bs)
    BY <1>2, <1>3, <1>4 DEF Moved, MovedRow
  <1>9. Eased(evs(m))
    BY <1>6, <1>7 DEF Eased
  <1>10. KeepsHoused(evs(m))
    BY <1>2, <1>3, <1>4, <1>6, <1>7 DEF KeepsHoused, Housed, BookedIn
  <1>11. ASSUME NEW e1 \in Events PROVE MainOf(evs(m), e1)
    <2>1. CASE e1 # e
      <3>1. \A q \in DOMAIN rows : rows[q].wish.event = e1 => rows'[q].booking = rows[q].booking
        BY <1>2, <1>3, <2>1
      <3>2. QED
        BY <1>2, <1>7, <1>8, <2>1, <3>1, MainKept
    <2>2. CASE e1 = e /\ event[e].main \in bs
      BY <1>1, <1>2, <1>4, <1>6, <1>7, <2>2, EarliestIsMain DEF Table
    <2>3. CASE e1 = e /\ event[e].main \notin bs
      <3>1. m = event[e].main
        BY <1>1, <2>3
      <3>2. event[e].main # Null =>
              event[e].main \in BookedIn(rows') /\ rows'[event[e].main].wish.event = e
        BY <1>2, <1>3, <1>4, <2>3 DEF IInv, MainVenueBooked, BookedIn
      <3>3. ASSUME NEW q \in BookedIn(rows'), CurrentBooking(q, e)' PROVE event[e].main # Null
        <4>1. q \in BookedIn(rows) /\ CurrentBooking(q, e)
          BY <1>2, <1>3, <1>4, <3>3 DEF CurrentBooking, BookedIn, Over
        <4>2. QED
          BY <4>1 DEF IInv, MainVenueBooked
      <3>4. QED
        BY <1>6, <1>7, <2>3, <3>1, <3>2, <3>3 DEF MainOf
    <2>4. QED
      BY <2>1, <2>2, <2>3
  <1>12. QED
    BY <1>2, <1>7, <1>8, <1>9, <1>10, <1>11 DEF Writes, Wrote

LEMMA CancelWrites ==
  ASSUME IInv, NEW e \in Events, CancelEvent(e) PROVE Writes
  <1> DEFINE mine(r) == rows[r].wish.event = e
             ends(r) == mine(r) /\ rows[r].booking = "confirmed" /\ ~Over(rows, r)
             t == [r \in DOMAIN rows |->
                    IF ends(r)
                    THEN [rows[r] EXCEPT !.booking = "cancelled", !.status = "cancelled"]
                    ELSE IF mine(r)
                    THEN [rows[r] EXCEPT !.status = IF @ = "pending" THEN "cancelled" ELSE @,
                                         !.hold = IF @ = "tentative" THEN "released" ELSE @]
                    ELSE rows[r]]
             bs == {r \in DOMAIN rows : ends(r)}
             evs == [event EXCEPT ![e].status = "cancelled", ![e].main = Null]
  <1>1. rows' = t /\ Written(rows', evs, bs) /\ UNCHANGED <<now, blocks, gap>>
    BY DEF CancelEvent, Written
  <1>2. \A r \in DOMAIN rows :
          /\ t[r].wish = rows[r].wish
          /\ rows[r].status # "pending" => t[r].status # "pending"
          /\ r \notin bs => t[r].booking = rows[r].booking
          /\ r \in bs => t[r].booking = "cancelled" /\ rows[r].wish.event = e
          /\ rows[r].wish.event = e /\ t[r].booking = "confirmed" => Over(rows, r)
    BY RowFields DEF IInv, Row
  <1>3. DOMAIN t = DOMAIN rows /\ event \in [Events -> EventRow] /\ bs \subseteq DOMAIN rows
    BY TypedTables DEF IInv
  <1> HIDE DEF t, bs
  <1>4. /\ evs \in [Events -> EventRow] /\ evs[e].main = Null /\ evs[e].status = "cancelled"
        /\ \A e1 \in Events : e1 # e => evs[e1] = event[e1]
    BY <1>3 DEF EventRow, Status
  <1> HIDE DEF evs
  <1>5. Moved(bs)
    BY <1>1, <1>2, <1>3 DEF Moved, MovedRow
  <1>6. Eased(evs)
    BY <1>4 DEF Eased
  <1>7. KeepsHoused(evs)
    BY <1>1, <1>2, <1>3, <1>4 DEF KeepsHoused, Housed, BookedIn, Secured
  <1>8. ASSUME NEW e1 \in Events PROVE MainOf(evs, e1)
    <2>1. CASE e1 # e
      <3>1. \A q \in DOMAIN rows : rows[q].wish.event = e1 => rows'[q].booking = rows[q].booking
        BY <1>1, <1>2, <2>1
      <3>2. QED
        BY <1>1, <1>4, <1>5, <2>1, <3>1, MainKept
    <2>2. CASE e1 = e
      <3>1. \A q \in BookedIn(rows') : ~CurrentBooking(q, e)'
        BY <1>1, <1>2, <1>3 DEF BookedIn, CurrentBooking, Over
      <3>2. QED
        BY <1>4, <2>2, <3>1 DEF MainOf
    <2>3. QED
      BY <2>1, <2>2
  <1>9. QED
    BY <1>1, <1>3, <1>4, <1>5, <1>6, <1>7, <1>8 DEF Writes, Wrote

-----------------------------------------------------------------------------
(* The stored flags.                                                       *)

\* A booking made or cancelled has its flags written anew, and no other has.
LEMMA FlagsWritten ==
  ASSUME IInv, NEW evs, NEW changed, Wrote(evs, changed) PROVE AffectedExactly'
  <1>1. affected = {x \in blocks \X BookedIn(rows) : Matches(x[1], rows[x[2]].wish)}
    BY DEF IInv, AffectedExactly
  <1>2. /\ changed \subseteq DOMAIN rows /\ DOMAIN rows \subseteq DOMAIN rows'
        /\ \A r \in DOMAIN rows : rows'[r].wish = rows[r].wish
        /\ \A r \in DOMAIN rows' \ changed : r \in BookedIn(rows') <=> r \in BookedIn(rows)
        /\ BookedIn(rows) \subseteq DOMAIN rows /\ BookedIn(rows') \subseteq DOMAIN rows'
    BY DEF Wrote, Moved, MovedRow, BookedIn
  <1>3. blocks' = blocks
    BY DEF Wrote
  <1>4. affected' = {x \in affected : x[2] \notin changed}
                      \cup {x \in blocks \X (changed \cap BookedIn(rows')) : Matches(x[1], rows'[x[2]].wish)}
    BY DEF Wrote, Written, BookingFlags
  <1>5. \A x : x \in affected' <=> x \in blocks \X BookedIn(rows') /\ Matches(x[1], rows'[x[2]].wish)
    <2> TAKE x
    <2>1. CASE x \in blocks \X changed
      BY <1>1, <1>2, <1>4, <2>1
    <2>2. CASE x \notin blocks \X changed
      BY <1>1, <1>2, <1>4, <2>2
    <2>3. QED
      BY <2>1, <2>2
  <1>6. QED
    BY <1>3, <1>5 DEF AffectedExactly

LEMMA ClashingPair ==
  ASSUME NEW t, NEW g, NEW vs, NEW a, NEW b, a # b
  PROVE  {a, b} \in Clashing(t, g, vs) <=>
           /\ a \in BookedIn(t) /\ b \in BookedIn(t)
           /\ t[a].wish.venue \in vs /\ t[b].wish.venue = t[a].wish.venue
           /\ Close(t[a].wish.period, t[b].wish.period, g[t[a].wish.venue])
  <1> DEFINE Near(y) == /\ y[1] # y[2] /\ t[y[1]].wish.venue \in vs
                        /\ t[y[2]].wish.venue = t[y[1]].wish.venue
                        /\ Close(t[y[1]].wish.period, t[y[2]].wish.period, g[t[y[1]].wish.venue])
             pairs == {y \in BookedIn(t) \X BookedIn(t) : Near(y)}
  <1>1. Clashing(t, g, vs) = {{x[1], x[2]} : x \in pairs}
    BY DEF Clashing
  <1>2. \A p, q, h : Close(p, q, h) <=> Close(q, p, h)
    BY DEF Close
  <1>3. {a, b} \in Clashing(t, g, vs) <=> \E x \in pairs : {x[1], x[2]} = {a, b}
    BY <1>1
  <1>4. \A x \in pairs : {x[1], x[2]} = {a, b} => x = <<a, b>> \/ x = <<b, a>>
    OBVIOUS
  <1>5. <<a, b>> \in pairs <=> a \in BookedIn(t) /\ b \in BookedIn(t) /\ Near(<<a, b>>)
    OBVIOUS
  <1>6. <<b, a>> \in pairs <=> a \in BookedIn(t) /\ b \in BookedIn(t) /\ Near(<<b, a>>)
    OBVIOUS
  <1>7. Near(<<b, a>>) <=> Near(<<a, b>>)
    BY <1>2
  <1> HIDE DEF pairs, Near
  <1>8. {a, b} \in Clashing(t, g, vs) <=> <<a, b>> \in pairs \/ <<b, a>> \in pairs
    BY <1>3, <1>4
  <1>9. {a, b} \in Clashing(t, g, vs) <=> a \in BookedIn(t) /\ b \in BookedIn(t) /\ Near(<<a, b>>)
    BY <1>5, <1>6, <1>7, <1>8
  <1>10. QED
    BY <1>9 DEF Near

\* Writing the clashes of the venues vs anew puts them right, as long as
\* nothing else changes at other venues.
LEMMA ClashesWritten ==
  ASSUME TypeOK, ClashesExactly, NEW vs, clashes' = Clashes(rows', gap', vs),
         DOMAIN rows \subseteq DOMAIN rows',
         \A r \in DOMAIN rows : rows'[r].wish = rows[r].wish,
         \A r \in DOMAIN rows' \ DOMAIN rows : r \notin BookedIn(rows'),
         \A r \in DOMAIN rows : rows[r].wish.venue \notin vs =>
            /\ r \in BookedIn(rows') <=> r \in BookedIn(rows)
            /\ gap'[rows[r].wish.venue] = gap[rows[r].wish.venue]
  PROVE  ClashesExactly'
  <1> DEFINE Cond(a, b) == /\ a \in BookedIn(rows') /\ b \in BookedIn(rows')
                           /\ rows'[a].wish.venue = rows'[b].wish.venue
                           /\ Close(rows'[a].wish.period, rows'[b].wish.period,
                                    gap'[rows'[a].wish.venue])
  <1>1. SUFFICES ASSUME NEW a \in DOMAIN rows', NEW b \in DOMAIN rows', a # b
                 PROVE  {a, b} \in clashes' <=> Cond(a, b)
    BY DEF ClashesExactly
  <1>2. {a, b} \in clashes' <=> \/ {a, b} \in clashes /\ \A r \in {a, b} : rows[r].wish.venue \notin vs
                                \/ {a, b} \in Clashing(rows', gap', vs)
    BY DEF Clashes
  <1>3. {a, b} \in Clashing(rows', gap', vs) <=> Cond(a, b) /\ rows'[a].wish.venue \in vs
    <2>1. {a, b} \in Clashing(rows', gap', vs) <=>
            /\ a \in BookedIn(rows') /\ b \in BookedIn(rows')
            /\ rows'[a].wish.venue \in vs /\ rows'[b].wish.venue = rows'[a].wish.venue
            /\ Close(rows'[a].wish.period, rows'[b].wish.period, gap'[rows'[a].wish.venue])
      BY <1>1, ClashingPair
    <2>2. QED
      BY <2>1
  <1>4. CASE a \notin DOMAIN rows \/ b \notin DOMAIN rows
    <2>1. {a, b} \notin clashes
      BY <1>4 DEF TypeOK
    <2>2. ~Cond(a, b)
      BY <1>4
    <2>3. QED
      BY <1>2, <1>3, <2>1, <2>2
  <1>5. CASE a \in DOMAIN rows /\ b \in DOMAIN rows
    <2>1. {a, b} \in clashes <=>
            /\ a \in BookedIn(rows) /\ b \in BookedIn(rows)
            /\ rows[a].wish.venue = rows[b].wish.venue
            /\ Close(rows[a].wish.period, rows[b].wish.period, gap[rows[a].wish.venue])
      BY <1>1, <1>5 DEF ClashesExactly
    <2>2. rows'[a].wish = rows[a].wish /\ rows'[b].wish = rows[b].wish
      BY <1>5
    <2>3. CASE rows[a].wish.venue \in vs
      BY <1>2, <1>3, <2>2, <2>3
    <2>4. CASE rows[a].wish.venue \notin vs
      <3>1. CASE rows[b].wish.venue # rows[a].wish.venue
        BY <1>2, <1>3, <2>1, <2>2, <2>4, <3>1
      <3>2. CASE rows[b].wish.venue = rows[a].wish.venue
        BY <1>2, <1>3, <1>5, <2>1, <2>2, <2>4, <3>2
      <3>3. QED
        BY <3>1, <3>2
    <2>5. QED
      BY <2>3, <2>4
  <1>6. QED
    BY <1>4, <1>5

LEMMA ClashesFollow ==
  ASSUME TypeOK, ClashesExactly, NEW evs, NEW changed, Wrote(evs, changed) PROVE ClashesExactly'
  <1>1. /\ changed \subseteq DOMAIN rows /\ DOMAIN rows \subseteq DOMAIN rows' /\ gap' = gap
        /\ \A r \in DOMAIN rows : rows'[r].wish = rows[r].wish
        /\ \A r \in DOMAIN rows' \ changed : r \in BookedIn(rows') <=> r \in BookedIn(rows)
        /\ \A r \in DOMAIN rows' \ DOMAIN rows : r \notin BookedIn(rows')
    BY DEF Wrote, Moved, MovedRow, BookedIn
  <1>2. CASE changed = {}
    <2>1. clashes' = clashes
      BY <1>2 DEF Wrote, Written
    <2>2. \A a, b : {a, b} \in clashes => a \in DOMAIN rows /\ b \in DOMAIN rows
      BY DEF TypeOK
    <2>3. SUFFICES ASSUME NEW a \in DOMAIN rows', NEW b \in DOMAIN rows', a # b
                   PROVE  {a, b} \in clashes <=>
                            /\ {a, b} \subseteq BookedIn(rows')
                            /\ rows'[a].wish.venue = rows'[b].wish.venue
                            /\ Close(rows'[a].wish.period, rows'[b].wish.period,
                                     gap[rows'[a].wish.venue])
      BY <1>1, <2>1 DEF ClashesExactly
    <2>4. CASE a \in DOMAIN rows /\ b \in DOMAIN rows
      BY <1>1, <1>2, <2>3, <2>4 DEF ClashesExactly
    <2>5. CASE ~(a \in DOMAIN rows /\ b \in DOMAIN rows)
      BY <1>1, <2>2, <2>5
    <2>6. QED
      BY <2>4, <2>5
  <1>3. CASE changed # {}
    <2> DEFINE vs == {rows'[r].wish.venue : r \in changed}
    <2>1. clashes' = Clashes(rows', gap', vs)
      BY <1>1, <1>3 DEF Wrote, Written
    <2>2. \A r \in DOMAIN rows : rows[r].wish.venue \notin vs => r \notin changed
      BY <1>1
    <2> HIDE DEF vs
    <2>3. QED
      BY <1>1, <2>1, <2>2, ClashesWritten
  <1>4. QED
    BY <1>2, <1>3

-----------------------------------------------------------------------------
(* The statuses of the events.                                             *)

\* A call that leaves an event alone leaves its venues as ready as they were.
LEMMA ReadyKept ==
  ASSUME TypeOK, DOMAIN rows \subseteq DOMAIN rows',
         \A r \in DOMAIN rows : rows'[r].wish = rows[r].wish,
         NEW e, e \notin Touched(rows', affected')
  PROVE  VenueReady(rows', affected', e) <=> VenueReady(rows, affected, e)
  <1>1. \A r \in DOMAIN rows' : rows'[r].wish.event = e => r \in DOMAIN rows /\ rows'[r] = rows[r]
    BY DEF Touched
  <1>2. \A x : (x \in affected /\ rows[x[2]].wish.event = e) => x[2] \in DOMAIN rows
    BY DEF TypeOK
  <1>3. \A x : x \in (affected' \ affected) \cup (affected \ affected') =>
                  rows'[x[2]].wish.event # e
    BY DEF Touched
  <1>4. \A r \in DOMAIN rows : rows[r].wish.event = e => rows'[r] = rows[r]
    BY <1>1
  <1> DEFINE live == {r \in DOMAIN rows : rows[r].wish.event = e /\ rows[r].status # "cancelled"}
             live1 == {r \in DOMAIN rows' : rows'[r].wish.event = e /\ rows'[r].status # "cancelled"}
  <1>5. live1 = live
    BY <1>1, <1>4
  <1>6. ASSUME NEW x PROVE (x \in affected' /\ rows'[x[2]].wish.event = e /\ rows'[x[2]].booking = "confirmed")
                      <=> (x \in affected /\ rows[x[2]].wish.event = e /\ rows[x[2]].booking = "confirmed")
    <2>1. CASE x \in affected'
      <3>1. (rows'[x[2]].wish.event = e) => x \in affected
        BY <1>3, <2>1
      <3>2. x \in affected => x[2] \in DOMAIN rows
        BY DEF TypeOK
      <3>3. QED
        BY <1>3, <1>4, <2>1, <3>1, <3>2
    <2>2. CASE x \notin affected'
      BY <1>2, <1>3, <1>4, <2>2
    <2>3. QED
      BY <2>1, <2>2
  <1>7. \A r \in live : rows'[r] = rows[r]
    BY <1>4
  <1>8. QED
    BY <1>5, <1>6, <1>7 DEF VenueReady

\* What the triggers leave of one event.
AfterHit(evs, e) ==
    IF \E x \in affected' \ affected : rows'[x[2]].wish.event = e THEN Returned(evs[e]) ELSE evs[e]

LEMMA FollowedRow ==
  ASSUME NEW evs, event' = Followed(evs, rows', affected'), NEW e \in Events
  PROVE  \/ /\ e \in Touched(rows', affected') \/ evs[e].recheck # event[e].recheck
            /\ event'[e] = Refreshed(AfterHit(evs, e), VenueReady(rows', affected', e))
         \/ /\ e \notin Touched(rows', affected') /\ evs[e].recheck = event[e].recheck
            /\ event'[e] = AfterHit(evs, e) /\ AfterHit(evs, e) = evs[e]
            /\ ~\E x \in affected' \ affected : rows'[x[2]].wish.event = e
  BY DEF Followed, AfterHit, Touched

LEMMA RefreshedRow ==
  ASSUME NEW ev \in EventRow, NEW ready
  PROVE  LET new == Refreshed(ev, ready)
         IN  /\ new \in EventRow /\ new.recheck = ev.recheck
             /\ new.status \in {ev.status, "awaiting_safety_check", "planning"}
             /\ new.status = "awaiting_safety_check" => ~new.recheck /\ ready
             /\ new.status \in {"approved", "planning"} => new.recheck \/ ~ready
  BY DEF Refreshed, EventRow, Status

\* The triggers keep an event in the safety check, prepared or confirmed only
\* with its venues, whatever the call did.
LEMMA FollowedStatuses ==
  ASSUME TypeOK, CheckedReady, SecuredEventsHoused,
         NEW evs \in [Events -> EventRow], event' = Followed(evs, rows', affected'),
         DOMAIN rows \subseteq DOMAIN rows',
         \A r \in DOMAIN rows : rows'[r].wish = rows[r].wish,
         \A e \in Events : evs[e].status \in {event[e].status, "planning", "cancelled"},
         KeepsHoused(evs)
  PROVE  CheckedReady' /\ SecuredEventsHoused'
  <1>1. SUFFICES ASSUME NEW e \in Events
                 PROVE  /\ event'[e].status = "awaiting_safety_check" =>
                             ~event'[e].recheck /\ VenueReady(rows', affected', e)
                        /\ event'[e].status \in Secured =>
                             /\ Housed(rows', e)
                             /\ ~\E x \in affected' : rows'[x[2]].wish.event = e
    BY DEF CheckedReady, SecuredEventsHoused, Secured, Housed
  <1> DEFINE hit == \E x \in affected' \ affected : rows'[x[2]].wish.event = e
             row == AfterHit(evs, e)
  <1>2. /\ row \in EventRow /\ row.recheck = evs[e].recheck
        /\ row.status \in {evs[e].status, "planning"}
        /\ row.status \in Secured => ~hit /\ evs[e].status \in Secured
        /\ row.status = "awaiting_safety_check" => evs[e].status = "awaiting_safety_check"
    BY ReturnedType DEF AfterHit, Returned, EventRow, Secured
  <1>3. row.status \in Secured =>
          /\ Housed(rows', e)
          /\ ~\E x \in affected' : rows'[x[2]].wish.event = e
    <2> SUFFICES ASSUME row.status \in Secured
                 PROVE  /\ Housed(rows', e)
                        /\ ~\E x \in affected' : rows'[x[2]].wish.event = e
      OBVIOUS
    <2>1. ~hit /\ evs[e].status \in Secured /\ event[e].status \in Secured
      BY <1>2 DEF Secured
    <2>2. Housed(rows, e) /\ ~\E x \in affected : rows[x[2]].wish.event = e
      BY <2>1 DEF SecuredEventsHoused, Secured, Housed
    <2>3. \A x \in affected : x[2] \in DOMAIN rows
      BY DEF TypeOK
    <2>4. QED
      BY <2>1, <2>2, <2>3 DEF KeepsHoused
  <1>4. CASE e \in Touched(rows', affected') \/ evs[e].recheck # event[e].recheck
    <2>1. event'[e] = Refreshed(row, VenueReady(rows', affected', e))
      BY <1>4, FollowedRow
    <2>2. QED
      BY <1>2, <1>3, <2>1, RefreshedRow DEF Secured
  <1>5. CASE e \notin Touched(rows', affected') /\ evs[e].recheck = event[e].recheck
    <2>1. event'[e] = row
      BY <1>5, FollowedRow
    <2>2. VenueReady(rows', affected', e) <=> VenueReady(rows, affected, e)
      BY <1>5, ReadyKept
    <2>3. row.status = "awaiting_safety_check" => event[e].status = "awaiting_safety_check"
      BY <1>2
    <2>4. QED
      BY <1>2, <1>3, <1>5, <2>1, <2>2, <2>3 DEF CheckedReady
  <1>6. QED
    BY <1>4, <1>5

-----------------------------------------------------------------------------
(* The invariant.                                                          *)

\* What of IInv is not proved elsewhere.
Rest == ReplacesOwn /\ AffectedExactly /\ MainVenueBooked /\ CheckedReady /\ SecuredEventsHoused

LEMMA FollowedMain ==
  ASSUME NEW evs \in [Events -> EventRow], NEW t, NEW aff, NEW e \in Events
  PROVE  Followed(evs, t, aff)[e].main = evs[e].main
  <1> DEFINE hit(e1)  == \E x \in aff \ affected : t[x[2]].wish.event = e1
             row(e1)  == IF hit(e1) THEN Returned(evs[e1]) ELSE evs[e1]
             moves(e1) == e1 \in Touched(t, aff) \/ evs[e1].recheck # event[e1].recheck
             new(e1) == IF moves(e1) THEN Refreshed(row(e1), VenueReady(t, aff, e1)) ELSE row(e1)
  <1>1. evs[e] \in EventRow /\ Returned(evs[e]) \in EventRow
    BY ReturnedType
  <1>2. \A ev \in EventRow : \A ready : Refreshed(ev, ready).main = ev.main
    BY DEF Refreshed, EventRow
  <1>3. Returned(evs[e]).main = evs[e].main
    BY DEF Returned, EventRow
  <1>4. Followed(evs, t, aff)[e] = new(e)
    BY DEF Followed
  <1> HIDE DEF hit, moves
  <1>5. QED
    BY <1>1, <1>2, <1>3, <1>4

LEMMA WritesKeep == IInv /\ Writes => Rest'
  <1> SUFFICES ASSUME IInv, NEW evs \in [Events -> EventRow], NEW changed \in SUBSET DOMAIN rows,
                      Wrote(evs, changed)
               PROVE  Rest'
    BY DEF Writes
  <1>1. /\ DOMAIN rows \subseteq DOMAIN rows' /\ \A r \in DOMAIN rows : rows'[r].wish = rows[r].wish
        /\ \A r \in DOMAIN rows' \ DOMAIN rows : Granted(rows'[r].wish)
        /\ event' = Followed(evs, rows', affected')
    BY DEF Wrote, Written, Moved, MovedRow
  <1>2. ReplacesOwn'
    BY <1>1 DEF IInv, ReplacesOwn, Granted
  <1>3. AffectedExactly'
    BY FlagsWritten
  <1>4. MainVenueBooked'
    <2>1. \A e \in Events : event'[e].main = evs[e].main
      BY <1>1, FollowedMain
    <2>2. \A e \in Events : MainOf(evs, e)
      BY DEF Wrote
    <2>3. QED
      BY <2>1, <2>2 DEF MainVenueBooked, MainOf
  <1>5. CheckedReady' /\ SecuredEventsHoused'
    <2>1. \A e \in Events : evs[e].status \in {event[e].status, "planning", "cancelled"}
      BY DEF Wrote, Eased
    <2>2. QED
      BY <1>1, <2>1, FollowedStatuses DEF IInv, Wrote
  <1>6. QED
    BY <1>2, <1>3, <1>4, <1>5 DEF Rest

\* A step that makes and changes no row: the clock never goes back.
LEMMA RowsStill ==
  ASSUME IInv, UNCHANGED rows, now' \in Nat, now <= now',
         \A e \in Events : event'[e].main = event[e].main
  PROVE  ReplacesOwn' /\ MainVenueBooked'
  <1>1. ReplacesOwn'
    BY DEF IInv, ReplacesOwn
  <1>2. \A r \in BookedIn(rows), e \in Events : CurrentBooking(r, e)' => CurrentBooking(r, e)
    <2> SUFFICES ASSUME NEW r \in BookedIn(rows), NEW e \in Events, CurrentBooking(r, e)'
                 PROVE  CurrentBooking(r, e)
      OBVIOUS
    <2>1. rows[r].wish.period \in Period /\ now \in Nat
      BY RowFields DEF IInv, TypeOK, BookedIn
    <2>2. QED
      BY <2>1 DEF CurrentBooking, Over, Period, BookedIn
  <1>3. MainVenueBooked'
    BY <1>2 DEF IInv, MainVenueBooked, BookedIn
  <1>4. QED
    BY <1>1, <1>3

LEMMA StillKeeps ==
  ASSUME IInv, UNCHANGED <<rows, event, blocks, affected>>, now' \in Nat, now <= now'
  PROVE  Rest'
  BY RowsStill
  DEF IInv, Rest, AffectedExactly, CheckedReady, SecuredEventsHoused, VenueReady, BookedIn

\* A step of the event's own: x is its row after it.
LEMMA EventKeeps ==
  ASSUME IInv, UNCHANGED <<now, rows, blocks, affected>>, NEW e \in Events, NEW x,
         event' = [event EXCEPT ![e] = x], x.main = event[e].main,
         x.status = "awaiting_safety_check" => ~x.recheck /\ VenueReady(rows, affected, e),
         x.status \in Secured =>
            Housed(rows, e) /\ ~\E a \in affected : rows[a[2]].wish.event = e
  PROVE  Rest'
  <1>1. event \in [Events -> EventRow] /\ now \in Nat
    BY TypedTables DEF IInv, TypeOK
  <1>2. event'[e] = x /\ \A e1 \in Events : e1 # e => event'[e1] = event[e1]
    BY <1>1
  <1>3. ReplacesOwn' /\ MainVenueBooked'
    BY <1>1, <1>2, RowsStill
  <1>4. AffectedExactly'
    BY DEF IInv, AffectedExactly, BookedIn
  <1>5. VenueReady(rows, affected, e)' <=> VenueReady(rows, affected, e)
    BY DEF VenueReady
  <1>6. CheckedReady'
    BY <1>2 DEF IInv, CheckedReady, VenueReady
  <1>7. SecuredEventsHoused'
    BY <1>2 DEF IInv, SecuredEventsHoused, Secured, Housed, BookedIn
  <1>8. QED
    BY <1>3, <1>4, <1>6, <1>7 DEF Rest

\* Steps that only have the events refreshed.
LEMMA RefreshKeeps ==
  ASSUME IInv, UNCHANGED <<now, rows>>, AffectedExactly',
         NEW evs \in [Events -> EventRow], event' = Followed(evs, rows, affected'),
         \A e \in Events : /\ evs[e].main = event[e].main
                           /\ evs[e].status \in {event[e].status, "planning", "cancelled"}
  PROVE  Rest'
  <1>1. \A e \in Events : event'[e].main = event[e].main
    BY FollowedMain
  <1>2. now \in Nat
    BY DEF IInv, TypeOK
  <1>3. ReplacesOwn' /\ MainVenueBooked'
    BY <1>1, <1>2, RowsStill
  <1>4. CheckedReady' /\ SecuredEventsHoused'
    BY FollowedStatuses DEF IInv, KeepsHoused
  <1>5. QED
    BY <1>3, <1>4 DEF Rest

LEMMA VenuesKeep == IInv /\ VenueNext => Rest'
  <1> SUFFICES ASSUME IInv, VenueNext PROVE Rest'
    OBVIOUS
  <1>1. event \in [Events -> EventRow] /\ now \in Nat
        /\ affected = {x \in blocks \X BookedIn(rows) : Matches(x[1], rows[x[2]].wish)}
    BY TypedTables DEF IInv, TypeOK, AffectedExactly
  <1>2. ASSUME NEW k \in Blocked, BlockAdded(k) PROVE Rest'
    <2>1. AffectedExactly'
      BY <1>1, <1>2 DEF BlockAdded, BlockFlags, AffectedExactly, BookedIn
    <2>2. QED
      BY <1>1, <1>2, <2>1, RefreshKeeps DEF BlockAdded
  <1>3. ASSUME NEW k \in Blocked, BlockRemoved(k) PROVE Rest'
    <2>1. AffectedExactly'
      BY <1>1, <1>3 DEF BlockRemoved, AffectedExactly, BookedIn
    <2>2. QED
      BY <1>1, <1>3, <2>1, RefreshKeeps DEF BlockRemoved
  <1>4. ASSUME NEW v \in Venues, DeleteVenue(v) PROVE Rest'
    BY <1>4, DeleteWrites, WritesKeep
  <1>5. ASSUME NEW v \in Venues, FacilitiesEdited(v) \/ (\E g \in Gaps : GapChanged(v, g))
        PROVE  Rest'
    <2>1. UNCHANGED <<now, rows, event, blocks, affected>>
      BY <1>5 DEF FacilitiesEdited, GapChanged
    <2>2. now' \in Nat /\ now <= now'
      BY <1>1, <2>1
    <2>3. QED
      BY <2>1, <2>2, StillKeeps
  <1>6. QED
    BY <1>2, <1>3, <1>4, <1>5, DataAssumption DEF VenueNext

\* An event whose venues are ready has one, and none of its is affected.
LEMMA ReadyHoused ==
  ASSUME IInv, NEW e, VenueReady(rows, affected, e)
  PROVE  Housed(rows, e) /\ ~\E x \in affected : rows[x[2]].wish.event = e
  BY DEF IInv, AffectedExactly, VenueReady, Housed, BookedIn

LEMMA DecisionsKeep ==
  ASSUME IInv, NEW e \in Events,
         \/ SafetyApproved(e) \/ SafetyRejected(e) \/ ChangesRequested(e) \/ Reworked(e)
         \/ EventConfirmed(e)
  PROVE  Rest'
  <1>1. event[e] \in EventRow
    BY TypedTables DEF IInv
  <1>2. UNCHANGED <<now, rows, blocks, affected>>
    BY DEF SafetyApproved, SafetyRejected, ChangesRequested, SafetyDecided, Reworked,
           EventConfirmed, EventOnly
  <1>3. CASE SafetyApproved(e)
    <2> DEFINE x == [event[e] EXCEPT !.status = "preparation", !.recheck = event[e].recheck \/ FALSE]
    <2>1. event[e].status = "awaiting_safety_check" /\ event' = [event EXCEPT ![e] = x]
      BY <1>3 DEF SafetyApproved, SafetyDecided, EventOnly
    <2>2. x.main = event[e].main /\ x.status = "preparation"
      BY <1>1 DEF EventRow
    <2>3. Housed(rows, e) /\ ~\E a \in affected : rows[a[2]].wish.event = e
      BY <2>1, ReadyHoused DEF IInv, CheckedReady
    <2> HIDE DEF x
    <2>4. QED
      BY <1>2, <2>1, <2>2, <2>3, EventKeeps DEF Secured
  <1>4. CASE SafetyRejected(e) \/ ChangesRequested(e) \/ Reworked(e)
    <2> DEFINE x(s, b) == [event[e] EXCEPT !.status = s, !.recheck = event[e].recheck \/ b]
    <2>1. PICK s \in {"safety_rejected", "planning"}, b \in BOOLEAN : event' = [event EXCEPT ![e] = x(s, b)]
      <3>1. SafetyRejected(e) => event' = [event EXCEPT ![e] = x("safety_rejected", FALSE)]
        BY DEF SafetyRejected, SafetyDecided, EventOnly
      <3>2. ChangesRequested(e) => event' = [event EXCEPT ![e] = x("planning", TRUE)]
        BY DEF ChangesRequested, SafetyDecided, EventOnly
      <3>3. Reworked(e) => event' = [event EXCEPT ![e] = [event[e] EXCEPT !.status = "planning", !.recheck = TRUE]]
        BY DEF Reworked, EventOnly
      <3>4. [event[e] EXCEPT !.status = "planning", !.recheck = TRUE] = x("planning", TRUE)
        BY <1>1 DEF EventRow
      <3>5. QED
        BY <1>4, <3>1, <3>2, <3>3, <3>4
    <2>2. x(s, b).main = event[e].main /\ x(s, b).status = s
      BY <1>1 DEF EventRow
    <2> HIDE DEF x
    <2>3. QED
      BY <1>2, <2>1, <2>2, EventKeeps DEF Secured
  <1>5. CASE EventConfirmed(e)
    <2> DEFINE x == [event[e] EXCEPT !.status = "confirmed"]
    <2>1. event[e].status = "preparation" /\ event' = [event EXCEPT ![e] = x]
      BY <1>5 DEF EventConfirmed, EventOnly
    <2>2. x.main = event[e].main /\ x.status = "confirmed"
      BY <1>1 DEF EventRow
    <2>3. Housed(rows, e) /\ ~\E a \in affected : rows[a[2]].wish.event = e
      BY <1>5, ReadyHoused DEF EventConfirmed
    <2> HIDE DEF x
    <2>4. QED
      BY <1>2, <2>1, <2>2, <2>3, EventKeeps DEF Secured
  <1>6. QED
    BY <1>3, <1>4, <1>5

LEMMA ChangeKeeps ==
  ASSUME IInv, NEW e \in Events, NEW recheck \in BOOLEAN, EventChanged(e, recheck) PROVE Rest'
  <1> DEFINE ev == [event[e] EXCEPT !.status = "planning", !.recheck = @ \/ recheck]
             x == IF recheck THEN ev ELSE Refreshed(ev, VenueReady(rows, affected, e))
  <1>1. UNCHANGED <<now, rows, blocks, affected>> /\ event' = [event EXCEPT ![e] = x]
    BY DEF EventChanged, EventOnly
  <1>2. event[e] \in EventRow
    BY TypedTables DEF IInv
  <1>3. ev \in EventRow /\ ev.main = event[e].main /\ ev.status = "planning"
    BY <1>2 DEF EventRow, Status
  <1> HIDE DEF ev
  <1>4. /\ x.main = event[e].main /\ x.status \in {"planning", "awaiting_safety_check"}
        /\ x.status = "awaiting_safety_check" => ~x.recheck /\ VenueReady(rows, affected, e)
    BY <1>3 DEF Refreshed, EventRow
  <1> HIDE DEF x
  <1>5. QED
    BY <1>1, <1>4, EventKeeps DEF Secured

LEMMA SettledKeeps ==
  ASSUME IInv, NEW e \in Events, RecheckSettled(e) PROVE Rest'
  <1> DEFINE evs == [event EXCEPT ![e].recheck = FALSE]
  <1>1. UNCHANGED <<now, rows, blocks, affected>> /\ event' = Followed(evs, rows, affected')
    BY DEF RecheckSettled, EventOnly
  <1>2. event \in [Events -> EventRow]
    BY TypedTables DEF IInv
  <1>3. /\ evs \in [Events -> EventRow]
        /\ \A e1 \in Events : evs[e1].main = event[e1].main /\ evs[e1].status = event[e1].status
    BY <1>2 DEF EventRow
  <1> HIDE DEF evs
  <1>4. AffectedExactly'
    BY <1>1 DEF IInv, AffectedExactly, BookedIn
  <1>5. QED
    BY <1>1, <1>3, <1>4, RefreshKeeps

LEMMA WrittenKeeps == IInv /\ (PlanningWritten \/ CompletionWritten) => Rest'
  <1> SUFFICES ASSUME IInv, PlanningWritten \/ CompletionWritten PROVE Rest'
    OBVIOUS
  <1>1. UNCHANGED <<now, rows, blocks, affected>> /\ event \in [Events -> EventRow] /\ now \in Nat
    BY TypedTables DEF PlanningWritten, CompletionWritten, IInv, TypeOK
  <1>2. CASE UNCHANGED event
    <2>1. now' \in Nat /\ now <= now'
      BY <1>1
    <2>2. QED
      BY <1>1, <1>2, <2>1, StillKeeps
  <1>3. CASE PlanningWritten /\ ~UNCHANGED event
    <2> DEFINE evs == [event EXCEPT ![edit.event] = Replanned(@, edit.impact)]
    <2>1. edit \in [event : Events, impact : BOOLEAN] /\ event' = Followed(evs, rows, affected')
      BY <1>3 DEF PlanningWritten, IInv, TypeOK
    <2>2. \A ev \in EventRow, b \in BOOLEAN :
            /\ Replanned(ev, b) \in EventRow
            /\ Replanned(ev, b).main = ev.main /\ Replanned(ev, b).status = "planning"
      BY ReplannedType DEF Replanned, EventRow
    <2>3. /\ evs \in [Events -> EventRow]
          /\ \A e1 \in Events : /\ evs[e1].main = event[e1].main
                                /\ evs[e1].status \in {event[e1].status, "planning"}
      BY <1>1, <2>1, <2>2
    <2> HIDE DEF evs
    <2>4. AffectedExactly'
      BY <1>1 DEF IInv, AffectedExactly, BookedIn
    <2>5. QED
      BY <1>1, <2>1, <2>3, <2>4, RefreshKeeps
  <1>4. CASE CompletionWritten /\ ~UNCHANGED event
    <2> DEFINE e == completion.event
               x == [event[e] EXCEPT !.status = "completed"]
    <2>1. e \in Events
      BY <1>4 DEF CompletionWritten, IInv, TypeOK
    <2>2. event' = [event EXCEPT ![e].status = IF @ = completion.status THEN "completed" ELSE @]
      BY <1>4 DEF CompletionWritten
    <2>3. event[e].status = completion.status
      BY <1>1, <1>4, <2>1, <2>2 DEF EventRow
    <2>4. event' = [event EXCEPT ![e] = x]
      BY <2>2, <2>3
    <2>5. x.main = event[e].main /\ x.status = "completed"
      BY <1>1, <2>1 DEF EventRow
    <2> HIDE DEF x
    <2>6. QED
      BY <1>1, <2>1, <2>4, <2>5, EventKeeps DEF Secured
  <1>5. QED
    BY <1>2, <1>3, <1>4

LEMMA EventsKeep == IInv /\ EventNext => Rest'
  <1> SUFFICES ASSUME IInv, EventNext PROVE Rest'
    OBVIOUS
  <1>1. CASE UNCHANGED <<now, rows, event, blocks, affected>>
    <2>1. now' \in Nat /\ now <= now'
      BY <1>1 DEF IInv, TypeOK
    <2>2. QED
      BY <1>1, <2>1, StillKeeps
  <1>2. QED
    BY <1>1, ReleaseWrites, CancelWrites, WritesKeep, DecisionsKeep, ChangeKeeps, SettledKeeps,
       WrittenKeeps
    DEF EventNext, CompletionCalled, PlanningCalled

LEMMA IInvHolds == Spec => []IInv
  <1>1. Init => Rest
    <2> SUFFICES ASSUME Init PROVE Rest
      OBVIOUS
    <2>1. BookedIn(rows) = {} /\ DOMAIN rows = {} /\ affected = {}
      BY DEF Init, BookedIn
    <2>2. \A e \in Events : event[e].main = Null /\ event[e].status \in {"approved", "planning"}
      BY DataAssumption DEF Init
    <2>3. QED
      BY <2>1, <2>2
      DEF Rest, ReplacesOwn, AffectedExactly, MainVenueBooked, CheckedReady, SecuredEventsHoused
  <1>2. IInv /\ [Next]_vars => Rest'
    <2> SUFFICES ASSUME IInv, [Next]_vars PROVE Rest'
      OBVIOUS
    <2>1. CASE UNCHANGED <<rows, event, blocks, affected>> /\ (UNCHANGED now \/ Tick)
      <3>1. now' \in Nat /\ now <= now'
        BY <2>1 DEF IInv, TypeOK, Tick
      <3>2. QED
        BY <2>1, <3>1, StillKeeps
    <2>2. QED
      BY <2>1, RequestsWrite, HoldsWrite, WritesKeep, VenuesKeep, EventsKeep
      DEF Next, Still, Tick, vars
  <1>3. IInv <=> TypeOK /\ TablesInv /\ Rest
    BY DEF IInv, Rest
  <1>4. QED
    BY <1>1, <1>2, <1>3, TypeCorrect, TablesInvariant, PTL DEF Spec

-----------------------------------------------------------------------------
(* What it shows.                                                          *)

\* An event's main venue is a confirmed booking of its own, and an event with a
\* booking still to come has one: approvals, replacements, conversions, releases
\* and cancellations all move it (decide_venue_booking_request,
\* release_replaced_booking, release_venue_bookings, cancel_event).
THEOREM MainVenueAlwaysBooked == Spec => []MainVenueBooked
  <1>1. IInv => MainVenueBooked
    BY DEF IInv
  <1>2. QED
    BY <1>1, IInvHolds, PTL

\* The stored disruptions are exactly the overlaps of blocks with confirmed
\* bookings, whichever side of them the call changed
\* (venue_booking_flag_disruptions, venue_unavailability_flag_bookings).
THEOREM DisruptionsExact == Spec => []AffectedExactly
  <1>1. IInv => AffectedExactly
    BY DEF IInv
  <1>2. QED
    BY <1>1, IInvHolds, PTL

\* A prepared or confirmed event keeps an unaffected venue: a release, a
\* cancellation or a block that takes it sends the event back to planning
\* (venue_disruption_notify, return_event_to_planning_for_venue).
THEOREM SecuredStayHoused == Spec => []SecuredEventsHoused
  <1>1. IInv => SecuredEventsHoused
    BY DEF IInv
  <1>2. QED
    BY <1>1, IInvHolds, PTL

\* The stored clashes are exactly the pairs of bookings closer together than
\* their venue's setup and turnaround, as bookings and times change
\* (refresh_venue_booking_clashes).
THEOREM ClashFlagsExact == Spec => []ClashesExactly
  <1>1. Init => ClashesExactly
    BY DEF Init, ClashesExactly
  <1>2. IInv /\ ClashesExactly /\ [Next]_vars => ClashesExactly'
    <2> SUFFICES ASSUME IInv, ClashesExactly, [Next]_vars PROVE ClashesExactly'
      OBVIOUS
    <2>1. CASE UNCHANGED <<rows, clashes, gap>>
      BY <2>1 DEF ClashesExactly, BookedIn
    <2>2. CASE Writes
      BY <2>2, ClashesFollow DEF Writes, IInv
    <2>3. ASSUME NEW v \in Venues, NEW g \in Gaps, GapChanged(v, g) PROVE ClashesExactly'
      <3>1. /\ clashes' = Clashes(rows', gap', {v}) /\ UNCHANGED rows
            /\ gap' = [gap EXCEPT ![v] = g]
        BY <2>3 DEF GapChanged
      <3>2. \A r \in DOMAIN rows : rows[r].wish.venue \notin {v} =>
              gap'[rows[r].wish.venue] = gap[rows[r].wish.venue]
        BY <3>1, RowFields DEF IInv, TypeOK
      <3>3. BookedIn(rows') = BookedIn(rows)
        BY <3>1
      <3>4. QED
        BY <3>1, <3>2, <3>3, ClashesWritten DEF IInv
    <2>4. CASE RequestNext \/ HoldNext
      BY <2>1, <2>2, <2>4, RequestsWrite, HoldsWrite DEF Still
    <2>5. CASE VenueNext
      BY <2>1, <2>2, <2>3, <2>5, DeleteWrites, DataAssumption
      DEF VenueNext, BlockAdded, BlockRemoved, FacilitiesEdited
    <2>6. CASE EventNext
      BY <2>1, <2>2, <2>6, ReleaseWrites, CancelWrites
      DEF EventNext, SafetyApproved, SafetyRejected, ChangesRequested, SafetyDecided, Reworked,
          RecheckSettled, EventConfirmed, EventChanged, CompletionCalled, PlanningCalled,
          PlanningWritten, CompletionWritten, EventOnly
    <2>7. QED
      BY <2>1, <2>4, <2>5, <2>6 DEF Next, Tick, vars
  <1>3. QED
    BY <1>1, <1>2, IInvHolds, PTL DEF Spec

\* A deleted venue has no booking, hold or request left to come: what arrives
\* after the deletion is refused, and what was there before prevents it
\* (delete_venue, venue_refuse_deleted).
THEOREM DeletedVenuesFree == Spec => []DeletedVenueFree
  <1>1. Init => DeletedVenueFree
    BY DEF Init, DeletedVenueFree
  <1>2. IInv /\ DeletedVenueFree /\ [Next]_vars => DeletedVenueFree'
    <2> SUFFICES ASSUME IInv, DeletedVenueFree, [Next]_vars PROVE DeletedVenueFree'
      OBVIOUS
    <2>1. CASE UNCHANGED <<rows, deleted>> /\ (UNCHANGED now \/ Tick)
      <3>1. SUFFICES ASSUME NEW r \in DOMAIN rows, ~Over(rows, r)' PROVE ~Over(rows, r)
        BY <2>1 DEF DeletedVenueFree
      <3>2. rows[r].wish.period \in Period /\ now \in Nat
        BY RowFields DEF IInv, TypeOK
      <3>3. QED
        BY <2>1, <3>1, <3>2 DEF Over, Tick, Period
    <2>2. CASE Writes /\ UNCHANGED deleted
      <3>1. PICK evs, changed : Wrote(evs, changed)
        BY <2>2 DEF Writes
      <3>2. SUFFICES ASSUME NEW r \in DOMAIN rows', rows'[r].wish.venue \in deleted, ~Over(rows, r)'
                     PROVE  rows'[r].booking # "confirmed" /\ rows'[r].status # "pending"
        BY <2>2 DEF DeletedVenueFree
      <3>3. r \in DOMAIN rows /\ rows'[r].wish = rows[r].wish
        BY <3>1, <3>2 DEF Wrote, Moved, MovedRow, Granted
      <3>4. rows[r].booking # "confirmed" /\ rows[r].status # "pending"
        BY <3>1, <3>2, <3>3 DEF DeletedVenueFree, Over, Wrote
      <3>5. QED
        BY <3>1, <3>3, <3>4 DEF Wrote, Moved, MovedRow
    <2>3. ASSUME NEW v \in Venues, DeleteVenue(v) PROVE DeletedVenueFree'
      <3> DEFINE late(r) == rows[r].wish.venue = v /\ rows[r].hold = "tentative" /\ rows[r].expires <= now
                 t == [r \in DOMAIN rows |-> IF late(r) THEN Expired(rows, r)[r] ELSE rows[r]]
      <3>1. rows' = t /\ UNCHANGED now
            /\ (deleted' = deleted \/ (deleted' = deleted \cup {v} /\ Blockers(v) = {}))
        BY <2>3 DEF DeleteVenue, Written
      <3>2. \A r \in DOMAIN rows :
              /\ t[r].wish = rows[r].wish /\ t[r].booking = rows[r].booking
              /\ rows[r].status # "pending" => t[r].status # "pending"
              /\ late(r) => t[r].status # "pending"
        BY TypedTables, ExpiredRow DEF IInv
      <3>3. SUFFICES ASSUME NEW r \in DOMAIN rows, rows'[r].wish.venue \in deleted', ~Over(rows, r)'
                     PROVE  rows'[r].booking # "confirmed" /\ rows'[r].status # "pending"
        BY <3>1 DEF DeletedVenueFree
      <3>4. rows'[r].wish = rows[r].wish /\ ~Over(rows, r)
        BY <3>1, <3>2, <3>3 DEF Over
      <3>5. CASE rows[r].wish.venue \in deleted
        BY <3>1, <3>2, <3>4, <3>5 DEF DeletedVenueFree
      <3>6. CASE rows[r].wish.venue = v /\ Blockers(v) = {}
        BY <3>1, <3>2, <3>4, <3>6 DEF Blockers
      <3>7. QED
        BY <3>1, <3>3, <3>4, <3>5, <3>6
    <2>4. CASE RequestNext
      BY <2>1, <2>2, <2>4, RequestsWrite
      DEF Still, RequestNext, RequestCalled, RequestInserted, Withdraw, Reject, DecisionCalled, Approve
    <2>5. CASE HoldNext
      BY <2>1, <2>2, <2>5, HoldsWrite
      DEF Still, HoldNext, CreateHold, HoldFoundExpired, ReleaseHold, ConvertHold,
          ChangeHoldExpiry, HoldsSelected, HoldProcessed, HoldSkipped
    <2>6. CASE VenueNext
      BY <2>1, <2>3, <2>6 DEF VenueNext, BlockAdded, BlockRemoved, GapChanged, FacilitiesEdited
    <2>7. CASE EventNext
      <3>1. (\E e \in Events, bs \in SUBSET DOMAIN rows : ReleaseBookings(e, bs)) =>
              Writes /\ UNCHANGED deleted
        BY ReleaseWrites DEF ReleaseBookings
      <3>2. (\E e \in Events : CancelEvent(e)) => Writes /\ UNCHANGED deleted
        BY CancelWrites DEF CancelEvent
      <3>3. QED
        BY <2>1, <2>2, <2>7, <3>1, <3>2
        DEF EventNext, SafetyApproved, SafetyRejected, ChangesRequested, SafetyDecided, Reworked,
            RecheckSettled, EventConfirmed, EventChanged, CompletionCalled, PlanningCalled,
            PlanningWritten, CompletionWritten, EventOnly
    <2>8. QED
      BY <2>1, <2>4, <2>5, <2>6, <2>7 DEF Next, Tick, vars
  <1>3. QED
    BY <1>1, <1>2, IInvHolds, PTL DEF Spec

-----------------------------------------------------------------------------
(* The safety check's queue.                                               *)

\* An approved or planned event that is not in the queue lacks something.
Waits ==
    \A e \in Events : event[e].status \in {"approved", "planning"} =>
        event[e].recheck \/ ~VenueReady(rows, affected, e)

\* No event is edited while it is merely approved.
NoBareEdit ==
    /\ "approved" \in Started \/ \A e \in Events : event[e].status # "approved"
    /\ edit # Null => edit.impact

LEMMA FollowedWaits ==
  ASSUME TypeOK, Waits,
         NEW evs \in [Events -> EventRow], event' = Followed(evs, rows', affected'),
         DOMAIN rows \subseteq DOMAIN rows',
         \A r \in DOMAIN rows : rows'[r].wish = rows[r].wish,
         Eased(evs)
  PROVE  Waits'
  <1>1. SUFFICES ASSUME NEW e \in Events, event'[e].status \in {"approved", "planning"}
                 PROVE  event'[e].recheck \/ ~VenueReady(rows', affected', e)
    BY DEF Waits
  <1>2. AfterHit(evs, e) \in EventRow
    BY ReturnedType DEF AfterHit
  <1>3. CASE event'[e] = Refreshed(AfterHit(evs, e), VenueReady(rows', affected', e))
    BY <1>1, <1>2, <1>3, RefreshedRow
  <1>4. CASE /\ e \notin Touched(rows', affected') /\ evs[e].recheck = event[e].recheck
             /\ event'[e] = evs[e]
    <2>1. VenueReady(rows', affected', e) <=> VenueReady(rows, affected, e)
      BY <1>4, ReadyKept
    <2>2. ~RowsOf(e)
      BY <1>4 DEF RowsOf, Touched
    <2>3. QED
      BY <1>1, <1>4, <2>1, <2>2 DEF Eased, Waits
  <1>5. QED
    BY <1>3, <1>4, FollowedRow

LEMMA RefreshedNeverApproved ==
  ASSUME NEW ev \in EventRow, NEW ready, ev.status # "approved"
  PROVE  Refreshed(ev, ready).status # "approved" /\ Returned(ev).status # "approved"
  BY DEF Refreshed, Returned, EventRow

LEMMA FollowedNeverApproved ==
  ASSUME NEW evs \in [Events -> EventRow], NEW t, NEW aff,
         \A e \in Events : evs[e].status # "approved"
  PROVE  \A e \in Events : Followed(evs, t, aff)[e].status # "approved"
  <1> DEFINE hit(e1)  == \E x \in aff \ affected : t[x[2]].wish.event = e1
             row(e1)  == IF hit(e1) THEN Returned(evs[e1]) ELSE evs[e1]
             moves(e1) == e1 \in Touched(t, aff) \/ evs[e1].recheck # event[e1].recheck
             new(e1) == IF moves(e1) THEN Refreshed(row(e1), VenueReady(t, aff, e1)) ELSE row(e1)
  <1>1. Followed(evs, t, aff) = [e \in Events |-> new(e)]
    BY DEF Followed
  <1>2. \A e \in Events : row(e) \in EventRow /\ row(e).status # "approved"
    BY ReturnedType, RefreshedNeverApproved
  <1>3. \A e \in Events : new(e).status # "approved"
    BY <1>2, RefreshedNeverApproved
  <1>4. QED
    BY <1>1, <1>3

NoneApproved == \A e \in Events : event[e].status # "approved"

\* Calls and steps that end with the triggers.
LEMMA RefreshWaits ==
  ASSUME TypeOK, Waits,
         NEW evs \in [Events -> EventRow], event' = Followed(evs, rows', affected'),
         DOMAIN rows \subseteq DOMAIN rows',
         \A r \in DOMAIN rows : rows'[r].wish = rows[r].wish,
         Eased(evs)
  PROVE  Waits' /\ (NoneApproved => NoneApproved')
  <1>1. Waits'
    BY FollowedWaits
  <1>2. ASSUME NoneApproved PROVE NoneApproved'
    <2>1. \A e \in Events : evs[e].status # "approved"
      BY <1>2 DEF NoneApproved, Eased
    <2>2. QED
      BY <2>1, FollowedNeverApproved DEF NoneApproved
  <1>3. QED
    BY <1>1, <1>2

\* Steps of the event's own: x is its row after it.
LEMMA EventWaits ==
  ASSUME TypeOK, Waits, UNCHANGED <<rows, affected>>, NEW e \in Events, NEW x,
         event' = [event EXCEPT ![e] = x],
         x.status # "approved",
         x.status = "planning" => x.recheck \/ ~VenueReady(rows, affected, e)
  PROVE  Waits' /\ (NoneApproved => NoneApproved')
  <1>1. event'[e] = x /\ \A e1 \in Events : e1 # e => event'[e1] = event[e1]
    BY DEF TypeOK
  <1>2. QED
    BY <1>1 DEF Waits, NoneApproved, VenueReady

LEMMA WritesWait == IInv /\ Waits /\ Writes => Waits' /\ (NoneApproved => NoneApproved')
  <1> SUFFICES ASSUME IInv, Waits, NEW evs \in [Events -> EventRow], NEW changed, Wrote(evs, changed)
               PROVE  Waits' /\ (NoneApproved => NoneApproved')
    BY DEF Writes
  <1>1. /\ DOMAIN rows \subseteq DOMAIN rows' /\ \A r \in DOMAIN rows : rows'[r].wish = rows[r].wish
        /\ event' = Followed(evs, rows', affected') /\ Eased(evs)
    BY DEF Wrote, Written, Moved, MovedRow
  <1>2. QED
    BY <1>1, RefreshWaits DEF IInv

LEMMA EventStepsWait ==
  ASSUME IInv, Waits, edit # Null => edit.impact,
         \/ \E e \in Events : \/ SafetyApproved(e) \/ SafetyRejected(e) \/ ChangesRequested(e)
                              \/ Reworked(e) \/ RecheckSettled(e) \/ EventConfirmed(e)
                              \/ \E k \in BOOLEAN : EventChanged(e, k)
         \/ PlanningWritten \/ CompletionWritten
  PROVE  Waits' /\ (NoneApproved => NoneApproved')
  <1>1. event \in [Events -> EventRow]
    BY TypedTables DEF IInv
  <1>2. CASE UNCHANGED <<event, rows, affected>>
    BY <1>2 DEF Waits, NoneApproved, VenueReady
  <1>3. ASSUME NEW e \in Events, NEW s \in {"preparation", "safety_rejected"}, NEW k,
               SafetyDecided(e, s, k)
        PROVE  Waits' /\ (NoneApproved => NoneApproved')
    <2> DEFINE x == [event[e] EXCEPT !.status = s, !.recheck = event[e].recheck \/ k]
    <2>1. UNCHANGED <<rows, affected>> /\ event' = [event EXCEPT ![e] = x]
      BY <1>3 DEF SafetyDecided, EventOnly
    <2>2. x.status = s
      BY <1>1 DEF EventRow
    <2> HIDE DEF x
    <2>3. QED
      BY <1>3, <2>1, <2>2, EventWaits DEF IInv
  <1>4. ASSUME NEW e \in Events, ChangesRequested(e) \/ Reworked(e)
        PROVE  Waits' /\ (NoneApproved => NoneApproved')
    <2> DEFINE x == [event[e] EXCEPT !.status = "planning", !.recheck = TRUE]
    <2>1. UNCHANGED <<rows, affected>> /\ event' = [event EXCEPT ![e] = x]
      BY <1>4 DEF ChangesRequested, SafetyDecided, Reworked, EventOnly
    <2>2. x.status = "planning" /\ x.recheck
      BY <1>1 DEF EventRow
    <2> HIDE DEF x
    <2>3. QED
      BY <2>1, <2>2, EventWaits DEF IInv
  <1>5. ASSUME NEW e \in Events, EventConfirmed(e)
        PROVE  Waits' /\ (NoneApproved => NoneApproved')
    <2> DEFINE x == [event[e] EXCEPT !.status = "confirmed"]
    <2>1. UNCHANGED <<rows, affected>> /\ event' = [event EXCEPT ![e] = x]
      BY <1>5 DEF EventConfirmed, EventOnly
    <2>2. x.status = "confirmed"
      BY <1>1 DEF EventRow
    <2> HIDE DEF x
    <2>3. QED
      BY <2>1, <2>2, EventWaits DEF IInv
  <1>6. ASSUME NEW e \in Events, NEW recheck \in BOOLEAN, EventChanged(e, recheck)
        PROVE  Waits' /\ (NoneApproved => NoneApproved')
    <2> DEFINE ev == [event[e] EXCEPT !.status = "planning", !.recheck = @ \/ recheck]
               x == IF recheck THEN ev ELSE Refreshed(ev, VenueReady(rows, affected, e))
    <2>1. UNCHANGED <<rows, affected>> /\ event' = [event EXCEPT ![e] = x]
      BY <1>6 DEF EventChanged, EventOnly
    <2>2. ev \in EventRow /\ ev.status = "planning" /\ (recheck => ev.recheck)
      BY <1>1 DEF EventRow, Status
    <2> HIDE DEF ev
    <2>3. /\ x.status # "approved"
          /\ x.status = "planning" => x.recheck \/ ~VenueReady(rows, affected, e)
      BY <2>2 DEF Refreshed, EventRow
    <2> HIDE DEF x
    <2>4. QED
      BY <2>1, <2>3, EventWaits DEF IInv
  <1>7. ASSUME NEW e \in Events, RecheckSettled(e)
        PROVE  Waits' /\ (NoneApproved => NoneApproved')
    <2> DEFINE evs == [event EXCEPT ![e].recheck = FALSE]
    <2>1. UNCHANGED <<rows, affected>> /\ event' = Followed(evs, rows', affected')
      BY <1>7 DEF RecheckSettled, EventOnly
    <2>2. evs \in [Events -> EventRow] /\ \A e1 \in Events : evs[e1].status = event[e1].status
      BY <1>1 DEF EventRow
    <2> HIDE DEF evs
    <2>3. QED
      BY <2>1, <2>2, RefreshWaits DEF IInv, Eased
  <1>8. CASE PlanningWritten /\ ~UNCHANGED event
    <2> DEFINE evs == [event EXCEPT ![edit.event] = Replanned(@, edit.impact)]
    <2>1. /\ edit \in [event : Events, impact : BOOLEAN] /\ edit.impact
          /\ UNCHANGED <<rows, affected>> /\ event' = Followed(evs, rows', affected')
      BY <1>8 DEF PlanningWritten, IInv, TypeOK
    <2>2. \A ev \in EventRow : LET new == Replanned(ev, edit.impact)
                               IN  new \in EventRow /\ new.status = "planning" /\ new.recheck
      BY <2>1, ReplannedType DEF Replanned, EventRow
    <2>3. /\ evs \in [Events -> EventRow]
          /\ \A e1 \in Events : \/ evs[e1].status = event[e1].status
                                \/ evs[e1].status = "planning" /\ evs[e1].recheck
      BY <1>1, <2>1, <2>2
    <2> HIDE DEF evs
    <2>4. QED
      BY <2>1, <2>3, RefreshWaits DEF IInv, Eased
  <1>9. CASE CompletionWritten /\ ~UNCHANGED event
    <2> DEFINE e == completion.event
               x == [event[e] EXCEPT !.status = "completed"]
    <2>1. e \in Events /\ UNCHANGED <<rows, affected>>
      BY <1>9 DEF CompletionWritten, IInv, TypeOK
    <2>2. event' = [event EXCEPT ![e].status = IF @ = completion.status THEN "completed" ELSE @]
      BY <1>9 DEF CompletionWritten
    <2>3. event[e].status = completion.status
      BY <1>1, <1>9, <2>1, <2>2 DEF EventRow
    <2>4. event' = [event EXCEPT ![e] = x] /\ x.status = "completed"
      BY <1>1, <2>1, <2>2, <2>3 DEF EventRow
    <2> HIDE DEF x
    <2>5. QED
      BY <2>1, <2>4, EventWaits DEF IInv
  <1>10. QED
    BY <1>2, <1>3, <1>4, <1>5, <1>6, <1>7, <1>8, <1>9
    DEF SafetyApproved, SafetyRejected, PlanningWritten, CompletionWritten

\* An event waits for its safety check exactly when its venues are in place,
\* where no event is edited while it is merely approved: such an edit leaves a
\* ready event in planning (refresh_safety_check_status, updatePlanning.ts).
THEOREM AwaitsExactlyWhenReady ==
  ASSUME "approved" \notin Started \/ Planned = {}
  PROVE  Spec => []AwaitingWhenReady
  <1>1. Init => Waits /\ NoBareEdit
    <2> SUFFICES ASSUME Init PROVE Waits /\ NoBareEdit
      OBVIOUS
    <2>1. DOMAIN rows = {} /\ edit = Null /\ \A e \in Events : event[e].status \in Started
      BY DEF Init
    <2>2. QED
      BY <2>1 DEF Waits, NoBareEdit, VenueReady
  <1>2. IInv /\ Waits /\ NoBareEdit /\ [Next]_vars => (Waits /\ NoBareEdit)'
    <2> SUFFICES ASSUME IInv, Waits, NoBareEdit, [Next]_vars PROVE (Waits /\ NoBareEdit)'
      OBVIOUS
    <2>1. ASSUME Waits', NoneApproved => NoneApproved', edit' = edit \/ edit' = Null
          PROVE  (Waits /\ NoBareEdit)'
      BY <2>1 DEF NoBareEdit, NoneApproved
    <2>2. CASE UNCHANGED <<event, rows, affected>>
      <3>1. Waits' /\ (NoneApproved => NoneApproved')
        BY <2>2 DEF Waits, NoneApproved, VenueReady
      <3>2. CASE edit' = edit \/ edit' = Null
        BY <2>1, <3>1, <3>2
      <3>3. CASE \E e \in Planned, k \in BOOLEAN : PlanningCalled(e, k)
        <4>1. PICK e \in Planned, k \in BOOLEAN : PlanningCalled(e, k)
          BY <3>3
        <4>2. NoneApproved /\ e \in Events
          BY <4>1, DataAssumption DEF NoBareEdit, NoneApproved
        <4>3. k /\ edit' = [event |-> e, impact |-> k]
          BY <4>1, <4>2 DEF PlanningCalled, NoneApproved
        <4>4. QED
          BY <3>1, <4>2, <4>3 DEF NoBareEdit, NoneApproved
      <3>4. CASE RequestNext
        BY <3>2, <3>4 DEF RequestNext, RequestCalled, RequestInserted, Withdraw, Reject,
           DecisionCalled, Approve, calls
      <3>5. CASE HoldNext
        BY <3>2, <3>5 DEF HoldNext, CreateHold, HoldFoundExpired, ReleaseHold, ConvertHold,
            ChangeHoldExpiry, HoldsSelected, HoldProcessed, HoldSkipped, calls
      <3>6. CASE VenueNext
        BY <3>2, <3>6 DEF VenueNext, BlockAdded, BlockRemoved, GapChanged, FacilitiesEdited,
           DeleteVenue, calls
      <3>7. CASE EventNext
        BY <3>2, <3>3, <3>7 DEF EventNext, ReleaseBookings, CancelEvent, SafetyApproved,
           SafetyRejected, ChangesRequested, SafetyDecided, Reworked, RecheckSettled,
           EventConfirmed, EventChanged, CompletionCalled, PlanningWritten, CompletionWritten,
           EventOnly, calls
      <3>8. QED
        BY <3>2, <3>4, <3>5, <3>6, <3>7 DEF Next, Tick, calls, vars
    <2>3. CASE Writes /\ UNCHANGED edit
      BY <2>1, <2>3, WritesWait
    <2>4. CASE RequestNext
      BY <2>2, <2>3, <2>4, RequestsWrite
      DEF Still, RequestNext, RequestCalled, RequestInserted, Withdraw, Reject, DecisionCalled,
          Approve, calls
    <2>5. CASE HoldNext
      BY <2>2, <2>3, <2>5, HoldsWrite
      DEF Still, HoldNext, CreateHold, HoldFoundExpired, ReleaseHold, ConvertHold,
          ChangeHoldExpiry, HoldsSelected, HoldProcessed, HoldSkipped, calls
    <2>6. CASE VenueNext
      <3>1. ASSUME NEW k \in Blocked, BlockAdded(k) \/ BlockRemoved(k) PROVE (Waits /\ NoBareEdit)'
        <4>1. UNCHANGED <<rows, edit>> /\ event' = Followed(event, rows', affected')
          BY <3>1 DEF BlockAdded, BlockRemoved, calls
        <4>2. Waits' /\ (NoneApproved => NoneApproved')
          BY <4>1, SameEvents, RefreshWaits DEF IInv
        <4>3. QED
          BY <2>1, <4>1, <4>2
      <3>2. (\E v \in Venues : DeleteVenue(v)) => Writes /\ UNCHANGED edit
        BY DeleteWrites DEF DeleteVenue, calls
      <3>3. QED
        BY <2>2, <2>3, <2>6, <3>1, <3>2 DEF VenueNext, GapChanged, FacilitiesEdited
    <2>7. CASE EventNext
      <3>1. (\E e \in Events, bs \in SUBSET DOMAIN rows : ReleaseBookings(e, bs)) =>
              Writes /\ UNCHANGED edit
        BY ReleaseWrites DEF ReleaseBookings, calls
      <3>2. (\E e \in Events : CancelEvent(e)) => Writes /\ UNCHANGED edit
        BY CancelWrites DEF CancelEvent, calls
      <3>3. \/ UNCHANGED <<event, rows, affected>>
            \/ Writes /\ UNCHANGED edit
            \/ /\ \/ \E e \in Events :
                        \/ SafetyApproved(e) \/ SafetyRejected(e) \/ ChangesRequested(e)
                        \/ Reworked(e) \/ RecheckSettled(e) \/ EventConfirmed(e)
                        \/ \E k \in BOOLEAN : EventChanged(e, k)
                  \/ PlanningWritten \/ CompletionWritten
        BY <2>7, <3>1, <3>2 DEF EventNext, CompletionCalled, PlanningCalled
      <3>4. CASE /\ \/ \E e \in Events :
                        \/ SafetyApproved(e) \/ SafetyRejected(e) \/ ChangesRequested(e)
                        \/ Reworked(e) \/ RecheckSettled(e) \/ EventConfirmed(e)
                        \/ \E k \in BOOLEAN : EventChanged(e, k)
                    \/ PlanningWritten \/ CompletionWritten
        <4>1. edit' = edit \/ edit' = Null
          BY <3>4 DEF SafetyApproved, SafetyRejected, ChangesRequested, SafetyDecided, Reworked,
             RecheckSettled, EventConfirmed, EventChanged, EventOnly, PlanningWritten,
             CompletionWritten, calls
        <4>2. Waits' /\ (NoneApproved => NoneApproved')
          BY <3>4, EventStepsWait DEF NoBareEdit
        <4>3. QED
          BY <2>1, <4>1, <4>2
      <3>5. QED
        BY <2>2, <2>3, <3>3, <3>4
    <2>8. QED
      BY <2>2, <2>4, <2>5, <2>6, <2>7 DEF Next, Tick, vars
  <1>3. IInv /\ Waits => AwaitingWhenReady
    BY DEF IInv, CheckedReady, Waits, AwaitingWhenReady
  <1>4. QED
    BY <1>1, <1>2, <1>3, IInvHolds, PTL DEF Spec

=============================================================================
