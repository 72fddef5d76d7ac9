------------------------- MODULE VenueBookingProofs -------------------------
(***************************************************************************)
(* What holds of VenueBooking for any events, venues, requests, periods    *)
(* and times: its types, that the three tables of requests, holds and      *)
(* bookings agree, and that a venue's time is never given twice.           *)
(***************************************************************************)
EXTENDS VenueBooking, TLAPS

\* An events row as far as it is modelled.
EventRow == [status : Status, main : Requests \cup {Null}, recheck : BOOLEAN]

\* A table of requests, holds and bookings.
Table(t) == DOMAIN t \subseteq Requests /\ t \in [DOMAIN t -> Row]

-----------------------------------------------------------------------------
(* The operators keep their types.                                         *)

LEMMA ReturnedType == \A ev \in EventRow : Returned(ev) \in EventRow
  BY DEF Returned, EventRow, Status

LEMMA ReplannedType == \A ev \in EventRow, impact \in BOOLEAN : Replanned(ev, impact) \in EventRow
  BY DEF EventRow, Replanned, Status

LEMMA RefreshedType == \A ev \in EventRow, ready \in BOOLEAN : Refreshed(ev, ready) \in EventRow
  BY DEF Refreshed, EventRow, Status

\* Following up a call leaves event rows.
LEMMA FollowedType ==
  ASSUME NEW evs \in [Events -> EventRow], NEW t, NEW aff
  PROVE  Followed(evs, t, aff) \in [Events -> EventRow]
  <1> DEFINE hit(e)  == \E x \in aff \ affected : t[x[2]].wish.event = e
             row(e)  == IF hit(e) THEN Returned(evs[e]) ELSE evs[e]
             moves(e) == e \in Touched(t, aff) \/ evs[e].recheck # event[e].recheck
             new(e) == IF moves(e) THEN Refreshed(row(e), VenueReady(t, aff, e)) ELSE row(e)
  <1>1. \A e \in Events : VenueReady(t, aff, e) \in BOOLEAN
    BY DEF VenueReady
  <1>2. \A e \in Events : row(e) \in EventRow
    BY ReturnedType
  <1>3. \A e \in Events : new(e) \in EventRow
    BY <1>1, <1>2, RefreshedType
  <1>4. Followed(evs, t, aff) = [e \in Events |-> new(e)]
    BY DEF Followed
  <1>5. QED
    BY <1>3, <1>4

\* The clashes name bookings.
LEMMA ClashTypes ==
  ASSUME NEW t, NEW g, NEW vs, clashes \subseteq SUBSET DOMAIN rows, DOMAIN rows \subseteq DOMAIN t
  PROVE  Clashes(t, g, vs) \subseteq SUBSET DOMAIN t
  <1>1. BookedIn(t) \subseteq DOMAIN t
    BY DEF BookedIn
  <1>2. Clashing(t, g, vs) \subseteq SUBSET DOMAIN t
    <2>1. \A x \in BookedIn(t) \X BookedIn(t) : {x[1], x[2]} \in SUBSET DOMAIN t
      BY <1>1
    <2>2. QED
      BY <2>1 DEF Clashing
  <1>3. SUFFICES ASSUME NEW c \in Clashes(t, g, vs) PROVE c \in SUBSET DOMAIN t
    OBVIOUS
  <1>4. c \in clashes \/ c \in Clashing(t, g, vs)
    BY DEF Clashes
  <1>5. QED
    BY <1>2, <1>4

\* The flags name blocks and bookings.
LEMMA FlagTypes ==
  ASSUME NEW t, NEW changed,
         blocks \subseteq Block, affected \subseteq Block \X DOMAIN rows,
         DOMAIN rows \subseteq DOMAIN t
  PROVE  BookingFlags(t, changed) \subseteq Block \X DOMAIN t
  BY DEF BookingFlags, BookedIn

\* What Written leaves is typed when what the call leaves is.
LEMMA WrittenType ==
  ASSUME TypeOK, NEW t, NEW evs \in [Events -> EventRow], NEW changed,
         Table(t), DOMAIN rows \subseteq DOMAIN t, Written(t, evs, changed)
  PROVE  /\ Table(rows') /\ DOMAIN rows \subseteq DOMAIN rows'
         /\ affected' \subseteq Block \X DOMAIN rows'
         /\ clashes' \subseteq SUBSET DOMAIN rows'
         /\ event' \in [Events -> EventRow]
  <1>1. rows' = t
    BY DEF Written
  <1>2. affected' \subseteq Block \X DOMAIN rows'
    BY <1>1, FlagTypes DEF Written, TypeOK
  <1>3. clashes' \subseteq SUBSET DOMAIN rows'
    <2> DEFINE vs == {t[r].wish.venue : r \in changed}
    <2>1. clashes' = clashes \/ clashes' = Clashes(t, gap, vs)
      BY DEF Written
    <2>2. Clashes(t, gap, vs) \subseteq SUBSET DOMAIN t
      BY ClashTypes DEF TypeOK
    <2>3. clashes \subseteq SUBSET DOMAIN t
      BY DEF TypeOK
    <2>4. QED
      BY <1>1, <2>1, <2>2, <2>3
  <1>4. event' \in [Events -> EventRow]
    <2>1. event' = Followed(evs, t, affected')
      BY DEF Written
    <2>2. QED
      BY <2>1, FollowedType
  <1>5. QED
    BY <1>1, <1>2, <1>3, <1>4

\* The whole of TypeOK after a call that leaves the rest alone.
LEMMA WrittenTypeOK ==
  ASSUME TypeOK, NEW t, NEW evs \in [Events -> EventRow], NEW changed,
         Table(t), DOMAIN rows \subseteq DOMAIN t, Written(t, evs, changed),
         UNCHANGED <<now, blocks, gap, lacking>>,
         deleted' \subseteq Venues, due' \subseteq DOMAIN rows,
         request' \in Wish \cup {Null}, approval' \in Requests \cup {Null},
         UNCHANGED <<edit, completion>>
  PROVE  TypeOK'
  BY WrittenType DEF TypeOK, Table, EventRow

\* A row that is still pending when it is made.
LEMMA NewRowType ==
  ASSUME NEW w \in Wish, NEW expires \in Nat, NEW warned \in BOOLEAN
  PROVE  /\ NewRow(w) \in Row
         /\ [NewRow(w) EXCEPT !.hold = "tentative", !.expires = expires, !.warned = warned] \in Row
  BY DEF NewRow, Row

LEMMA WithTable ==
  ASSUME NEW t, Table(t), NEW r \in Requests, NEW row \in Row
  PROVE  Table(With(t, r, row)) /\ DOMAIN t \subseteq DOMAIN With(t, r, row)
  BY DEF With, Table

\* The tables the calls leave.
LEMMA TableChanges ==
  ASSUME NEW t, Table(t), NEW r \in DOMAIN t
  PROVE  /\ \A s \in {"pending", "approved", "rejected", "cancelled"} :
            Table([t EXCEPT ![r].status = s])
         /\ Table(Expired(t, r)) /\ Table(Swept(t, r))
         /\ Table([t EXCEPT ![r].hold = "released", ![r].status = "cancelled"])
         /\ Table([t EXCEPT ![r].hold = "converted", ![r].status = "approved",
                            ![r].booking = "confirmed"])
         /\ Table([t EXCEPT ![r].status = "approved", ![r].booking = "confirmed"])
         /\ \A x \in Nat, b \in BOOLEAN : Table([t EXCEPT ![r].expires = x, ![r].warned = b])
  <1>1. \A row \in Row : Table([t EXCEPT ![r] = row])
    BY DEF Table
  <1>2. t[r] \in Row
    BY DEF Table
  <1>3. \A s \in {"pending", "approved", "rejected", "cancelled"} :
            Table([t EXCEPT ![r].status = s])
    BY <1>1, <1>2 DEF Row
  <1>4. Table(Expired(t, r))
    <2>1. [t[r] EXCEPT !.hold = "expired",
                       !.status = IF t[r].status = "pending" THEN "cancelled" ELSE t[r].status] \in Row
      BY <1>2 DEF Row
    <2>2. QED
      BY <1>1, <2>1 DEF Expired, Table
  <1>5. Table(Swept(t, r))
    <2>1. [t[r] EXCEPT !.warned = TRUE] \in Row
      BY <1>2 DEF Row
    <2>2. Table([t EXCEPT ![r].warned = TRUE])
      BY <1>1, <2>1
    <2>3. QED
      BY <1>4, <2>2 DEF Swept
  <1>6. Table([t EXCEPT ![r].hold = "released", ![r].status = "cancelled"])
    BY <1>2 DEF Table, Row
  <1>7. Table([t EXCEPT ![r].hold = "converted", ![r].status = "approved",
                        ![r].booking = "confirmed"])
    BY <1>2 DEF Table, Row
  <1>8. Table([t EXCEPT ![r].status = "approved", ![r].booking = "confirmed"])
    BY <1>2 DEF Table, Row
  <1>9. ASSUME NEW x \in Nat, NEW b \in BOOLEAN
        PROVE  Table([t EXCEPT ![r].expires = x, ![r].warned = b])
    <2>1. [t[r] EXCEPT !.expires = x, !.warned = b] \in Row
      BY <1>2 DEF Row
    <2>2. Table([t EXCEPT ![r] = [t[r] EXCEPT !.expires = x, !.warned = b]])
      BY <1>1, <2>1
    <2>3. QED
      BY <2>2 DEF Table
  <1>10. QED
    BY <1>3, <1>4, <1>5, <1>6, <1>7, <1>8, <1>9

LEMMA ReplacedReleasedTable ==
  ASSUME NEW t, Table(t), NEW b
  PROVE  Table(ReplacedReleased(t, b)) /\ DOMAIN ReplacedReleased(t, b) = DOMAIN t
  <1> DEFINE new == [t EXCEPT ![b].status = "cancelled", ![b].booking = "cancelled"]
  <1>1. ReplacedReleased(t, b) \in {t, new}
    BY DEF ReplacedReleased
  <1>2. DOMAIN new = DOMAIN t
    OBVIOUS
  <1>3. CASE b \notin DOMAIN t
    <2>1. \A r \in DOMAIN t : new[r] = t[r]
      BY <1>3
    <2>2. QED
      BY <1>1, <1>2, <2>1 DEF Table
  <1>4. CASE b \in DOMAIN t
    BY <1>1, <1>2, <1>4 DEF Table, Row
  <1>5. QED
    BY <1>3, <1>4

LEMMA EarliestType ==
  ASSUME NEW t, Table(t), NEW e
  PROVE  Earliest(t, e) \subseteq Requests \cup {Null}
  BY DEF Earliest, BookedIn, Table

-----------------------------------------------------------------------------
(* Types.                                                                  *)

LEMMA TypedTables == TypeOK => Table(rows) /\ event \in [Events -> EventRow]
  BY DEF TypeOK, Table, EventRow

\* Calls about requests keep the types.
LEMMA RequestTypes == TypeOK /\ RequestNext => TypeOK'
  <1> SUFFICES ASSUME TypeOK, RequestNext PROVE TypeOK'
    OBVIOUS
  <1> USE TypedTables DEF calls
  <1>1. ASSUME NEW w \in Requested, RequestCalled(w) PROVE TypeOK'
    BY <1>1, DataAssumption DEF RequestCalled, TypeOK
  <1>2. CASE RequestInserted
    <2>1. CASE UNCHANGED <<event, rows, affected, clashes>>
      BY <1>2, <2>1 DEF RequestInserted, TypeOK
    <2>2. ASSUME NEW r \in Requests \ DOMAIN rows, NEW evs, request \in Wish,
                 evs = (IF request.replaces = Null THEN event
                        ELSE [event EXCEPT ![request.event] = Returned(@)]),
                 Written(With(rows, r, NewRow(request)), evs, {})
          PROVE  TypeOK'
      <3>1. NewRow(request) \in Row
        BY <2>2, NewRowType
      <3>2. /\ Table(With(rows, r, NewRow(request)))
            /\ DOMAIN rows \subseteq DOMAIN With(rows, r, NewRow(request))
        BY <3>1, WithTable
      <3>3. evs \in [Events -> EventRow]
        BY <2>2, ReturnedType DEF Wish
      <3> DEFINE t == With(rows, r, NewRow(request))
      <3>4. Table(t) /\ DOMAIN rows \subseteq DOMAIN t /\ Written(t, evs, {})
        BY <2>2, <3>2
      <3> HIDE DEF t
      <3>5. QED
        BY <1>2, <3>3, <3>4, WrittenTypeOK DEF RequestInserted, TypeOK
    <2>3. request \in Wish
      BY <1>2 DEF RequestInserted, TypeOK
    <2>4. QED
      BY <1>2, <2>1, <2>2, <2>3 DEF RequestInserted
  <1>3. ASSUME NEW r \in DOMAIN rows, Withdraw(r) PROVE TypeOK'
    <2> DEFINE t == [rows EXCEPT ![r].status = "cancelled"]
    <2>1. Table(t) /\ DOMAIN t = DOMAIN rows /\ Written(t, event, {})
      BY <1>3, TableChanges DEF Withdraw
    <2> HIDE DEF t
    <2>2. QED
      BY <1>3, <2>1, WrittenTypeOK DEF Withdraw, TypeOK
  <1>4. ASSUME NEW r \in DOMAIN rows, Reject(r) PROVE TypeOK'
    <2> DEFINE t == [rows EXCEPT ![r].status = "rejected"]
    <2>1. Table(t) /\ DOMAIN t = DOMAIN rows /\ Written(t, event, {})
      BY <1>4, TableChanges DEF Reject
    <2> HIDE DEF t
    <2>2. QED
      BY <1>4, <2>1, WrittenTypeOK DEF Reject, TypeOK
  <1>5. ASSUME NEW r \in DOMAIN rows, DecisionCalled(r) PROVE TypeOK'
    BY <1>5 DEF DecisionCalled, TypeOK
  <1>6. ASSUME NEW r \in DOMAIN rows, Approve(r) PROVE TypeOK'
    <2> DEFINE w == rows[r].wish
               e == w.event
               booked == [rows EXCEPT ![r].status = "approved", ![r].booking = "confirmed"]
               t == ReplacedReleased(booked, w.replaces)
               gone == {b \in DOMAIN rows : t[b].booking # booked[b].booking}
               first == IF event[e].main = Null THEN r ELSE event[e].main
    <2>1. CASE UNCHANGED <<event, rows, affected, clashes>>
      BY <1>6, <2>1 DEF Approve, TypeOK
    <2>2. ASSUME NEW m \in (IF first \in gone THEN Earliest(t, e) ELSE {first}),
                 Written(t, [event EXCEPT ![e].main = m], gone \cup {r})
          PROVE  TypeOK'
      <3>1. w \in Wish /\ e \in Events /\ r \in Requests
        BY DEF Table, Row, Wish
      <3>2. Table(booked) /\ DOMAIN booked = DOMAIN rows
        BY TableChanges
      <3>3. Table(t) /\ DOMAIN t = DOMAIN rows
        <4> HIDE DEF booked
        <4>1. QED
          BY <3>2, ReplacedReleasedTable
      <3>4. m \in Requests \cup {Null}
        BY <3>1, <3>3, EarliestType DEF EventRow
      <3>5. [event EXCEPT ![e].main = m] \in [Events -> EventRow]
        BY <3>1, <3>4 DEF EventRow
      <3> DEFINE evs == [event EXCEPT ![e].main = m]
                 changed == gone \cup {r}
      <3>6. Written(t, evs, changed) /\ DOMAIN rows \subseteq DOMAIN t
        BY <2>2, <3>3
      <3>7. evs \in [Events -> EventRow]
        BY <3>5
      <3>8. /\ UNCHANGED <<now, blocks, gap, lacking, deleted, due, request, edit, completion>>
            /\ approval' = Null
        BY <1>6 DEF Approve
      <3> HIDE DEF t, evs, changed
      <3>9. QED
        BY <3>3, <3>6, <3>7, <3>8, WrittenTypeOK DEF TypeOK
    <2>3. QED
      BY <1>6, <2>1, <2>2 DEF Approve
  <1>7. QED
    BY <1>1, <1>2, <1>3, <1>4, <1>5, <1>6 DEF RequestNext

\* Calls about holds, and the sweep, keep the types.
LEMMA HoldTypes == TypeOK /\ HoldNext => TypeOK'
  <1> SUFFICES ASSUME TypeOK, HoldNext PROVE TypeOK'
    OBVIOUS
  <1> USE TypedTables DEF calls
  <1>1. ASSUME NEW w \in Held, NEW x \in Expiries, CreateHold(w, x) PROVE TypeOK'
    <2> DEFINE row == [NewRow(w) EXCEPT !.hold = "tentative", !.expires = x, !.warned = WarnAt(x)]
    <2>1. row \in Row
      <3>1. x \in Nat /\ WarnAt(x) \in BOOLEAN /\ w \in Wish
        BY DataAssumption DEF WarnAt
      <3>2. QED
        BY <3>1, NewRowType
    <2> HIDE DEF row
    <2>2. PICK r \in Requests \ DOMAIN rows : Written(With(rows, r, row), event, {})
      BY <1>1 DEF CreateHold, row
    <2>3. Table(With(rows, r, row)) /\ DOMAIN rows \subseteq DOMAIN With(rows, r, row)
      BY <2>1, WithTable
    <2>4. QED
      BY <1>1, <2>2, <2>3, WrittenTypeOK DEF CreateHold, TypeOK
  <1>2. ASSUME NEW r \in DOMAIN rows, HoldFoundExpired(r) PROVE TypeOK'
    <2>1. Table(Expired(rows, r)) /\ DOMAIN Expired(rows, r) = DOMAIN rows
      BY TableChanges DEF Expired
    <2>2. QED
      BY <1>2, <2>1, WrittenTypeOK DEF HoldFoundExpired, TypeOK
  <1>3. ASSUME NEW r \in DOMAIN rows, ReleaseHold(r) PROVE TypeOK'
    <2> DEFINE t == [rows EXCEPT ![r].hold = "released", ![r].status = "cancelled"]
    <2>1. Table(t) /\ DOMAIN t = DOMAIN rows
      BY TableChanges
    <2>2. Written(t, event, {})
      BY <1>3 DEF ReleaseHold
    <2> HIDE DEF t
    <2>3. QED
      BY <1>3, <2>1, <2>2, WrittenTypeOK DEF ReleaseHold, TypeOK
  <1>4. ASSUME NEW r \in DOMAIN rows, ConvertHold(r) PROVE TypeOK'
    <2> DEFINE t == [rows EXCEPT ![r].hold = "converted", ![r].status = "approved",
                                 ![r].booking = "confirmed"]
               e == rows[r].wish.event
    <2>1. Table(t) /\ DOMAIN t = DOMAIN rows
      BY TableChanges
    <2>2. [event EXCEPT ![e].main = r] \in [Events -> EventRow]
      BY DEF EventRow, Table, Row, Wish
    <2>3. Written(t, [event EXCEPT ![e].main = r], {r})
      BY <1>4 DEF ConvertHold
    <2> HIDE DEF t
    <2>4. QED
      BY <1>4, <2>1, <2>2, <2>3, WrittenTypeOK DEF ConvertHold, TypeOK
  <1>5. ASSUME NEW r \in DOMAIN rows, NEW x \in Expiries, ChangeHoldExpiry(r, x) PROVE TypeOK'
    <2> DEFINE t == [rows EXCEPT ![r].expires = x, ![r].warned = WarnAt(x)]
    <2>1. Table(t) /\ DOMAIN t = DOMAIN rows
      <3>1. WarnAt(x) \in BOOLEAN /\ x \in Nat
        BY DataAssumption DEF WarnAt
      <3>2. QED
        BY <3>1, TableChanges
    <2>2. Written(t, event, {})
      BY <1>5 DEF ChangeHoldExpiry
    <2> HIDE DEF t
    <2>3. QED
      BY <1>5, <2>1, <2>2, WrittenTypeOK DEF ChangeHoldExpiry, TypeOK
  <1>6. CASE HoldsSelected
    BY <1>6 DEF HoldsSelected, TypeOK
  <1>7. ASSUME NEW r \in due, HoldProcessed(r) PROVE TypeOK'
    <2>1. r \in DOMAIN rows
      BY DEF TypeOK
    <2>2. Table(Swept(rows, r)) /\ DOMAIN Swept(rows, r) = DOMAIN rows
      BY <2>1, TableChanges DEF Swept, Expired
    <2>3. Written(Swept(rows, r), event, {})
      BY <1>7 DEF HoldProcessed
    <2>4. QED
      BY <1>7, <2>2, <2>3, WrittenTypeOK DEF HoldProcessed, TypeOK
  <1>8. ASSUME NEW r \in due, HoldSkipped(r) PROVE TypeOK'
    BY <1>8 DEF HoldSkipped, TypeOK
  <1>9. QED
    BY <1>1, <1>2, <1>3, <1>4, <1>5, <1>6, <1>7, <1>8 DEF HoldNext

\* What Venue Staff do to their venues keeps the types.
LEMMA VenueTypes == TypeOK /\ VenueNext => TypeOK'
  <1> SUFFICES ASSUME TypeOK, VenueNext PROVE TypeOK'
    OBVIOUS
  <1> USE TypedTables DEF calls
  <1>1. ASSUME NEW k \in Blocked, BlockAdded(k) PROVE TypeOK'
    <2>1. k \in Block
      BY DataAssumption
    <2>2. affected' \subseteq Block \X DOMAIN rows
      BY <1>1, <2>1 DEF BlockAdded, BlockFlags, BookedIn, TypeOK
    <2>3. event' \in [Events -> EventRow]
      BY <1>1, FollowedType DEF BlockAdded
    <2>4. QED
      BY <1>1, <2>1, <2>2, <2>3 DEF BlockAdded, TypeOK, EventRow
  <1>2. ASSUME NEW k \in Blocked, BlockRemoved(k) PROVE TypeOK'
    <2>1. event' \in [Events -> EventRow]
      BY <1>2, FollowedType DEF BlockRemoved
    <2>2. affected' \subseteq Block \X DOMAIN rows
      BY <1>2 DEF BlockRemoved, TypeOK
    <2>3. QED
      BY <1>2, <2>1, <2>2 DEF BlockRemoved, TypeOK, EventRow
  <1>3. ASSUME NEW v \in Venues, NEW g \in Gaps, GapChanged(v, g) PROVE TypeOK'
    <2>1. gap' \in [Venues -> Nat]
      BY <1>3, DataAssumption DEF GapChanged, TypeOK
    <2>2. clashes' \subseteq SUBSET DOMAIN rows
      BY <1>3, ClashTypes DEF GapChanged, TypeOK
    <2>3. QED
      BY <1>3, <2>1, <2>2 DEF GapChanged, TypeOK
  <1>4. ASSUME NEW v \in Edited, FacilitiesEdited(v) PROVE TypeOK'
    BY <1>4, DataAssumption DEF FacilitiesEdited, TypeOK
  <1>5. ASSUME NEW v \in Venues, DeleteVenue(v) PROVE TypeOK'
    <2> DEFINE late(r) == rows[r].wish.venue = v /\ rows[r].hold = "tentative" /\ rows[r].expires <= now
               t == [r \in DOMAIN rows |-> IF late(r) THEN Expired(rows, r)[r] ELSE rows[r]]
    <2>1. Table(t) /\ DOMAIN t = DOMAIN rows
      <3>1. \A r \in DOMAIN rows : Expired(rows, r)[r] \in Row
        <4> TAKE r \in DOMAIN rows
        <4>1. Table(Expired(rows, r)) /\ DOMAIN Expired(rows, r) = DOMAIN rows
          BY TableChanges DEF Expired
        <4>2. QED
          BY <4>1 DEF Table
      <3>2. QED
        BY <3>1 DEF Table
    <2>2. Written(t, event, {}) /\ deleted' \subseteq Venues
      BY <1>5 DEF DeleteVenue, TypeOK
    <2> HIDE DEF t
    <2>3. QED
      BY <1>5, <2>1, <2>2, WrittenTypeOK DEF DeleteVenue, TypeOK
  <1>6. QED
    BY <1>1, <1>2, <1>3, <1>4, <1>5 DEF VenueNext

\* The event's own life keeps the types.
LEMMA EventOnlyTypes ==
  ASSUME TypeOK, NEW evs \in [Events -> EventRow], EventOnly(evs)
  PROVE  TypeOK'
  BY DEF EventOnly, calls, TypeOK, EventRow

LEMMA EventTypes == TypeOK /\ EventNext => TypeOK'
  <1> SUFFICES ASSUME TypeOK, EventNext PROVE TypeOK'
    OBVIOUS
  <1> USE TypedTables
  <1>1. ASSUME NEW e \in Events, NEW bs \in SUBSET DOMAIN rows, ReleaseBookings(e, bs)
        PROVE  TypeOK'
    <2> DEFINE t == [r \in DOMAIN rows |->
                      IF r \in bs
                      THEN [rows[r] EXCEPT !.booking = "cancelled", !.status = "cancelled"]
                      ELSE IF rows[r].status = "pending" /\ rows[r].wish.replaces \in bs
                      THEN [rows[r] EXCEPT !.status = "cancelled"]
                      ELSE rows[r]]
               back == event[e].status \in {"preparation", "confirmed"}
               row(m) == [Returned(event[e]) EXCEPT !.main = m, !.recheck = @ \/ back]
               evs(m) == [event EXCEPT ![e] = row(m)]
    <2>1. Table(t) /\ DOMAIN t = DOMAIN rows
      BY ZenonT(60) DEF Table, Row
    <2>2. PICK m \in (IF event[e].main \in bs THEN Earliest(t, e) ELSE {event[e].main}) :
            Written(t, evs(m), bs)
      BY <1>1 DEF ReleaseBookings
    <2> HIDE DEF t
    <2>3. m \in Requests \cup {Null}
      BY <2>1, EarliestType DEF EventRow
    <2>4. evs(m) \in [Events -> EventRow]
      <3>1. Returned(event[e]) \in EventRow
        BY ReturnedType
      <3>2. row(m) \in EventRow
        BY <2>3, <3>1 DEF EventRow
      <3> HIDE DEF row
      <3>3. QED
        BY <3>2
    <2> HIDE DEF evs
    <2>5. QED
      BY <1>1, <2>1, <2>2, <2>4, WrittenTypeOK DEF ReleaseBookings, TypeOK, calls
  <1>2. ASSUME NEW e \in Events, CancelEvent(e) PROVE TypeOK'
    <2> DEFINE mine(r) == rows[r].wish.event = e
               ends(r) == mine(r) /\ rows[r].booking = "confirmed" /\ ~Over(rows, r)
               t == [r \in DOMAIN rows |->
                      IF ends(r)
                      THEN [rows[r] EXCEPT !.booking = "cancelled", !.status = "cancelled"]
                      ELSE IF mine(r)
                      THEN [rows[r] EXCEPT !.status = IF @ = "pending" THEN "cancelled" ELSE @,
                                           !.hold = IF @ = "tentative" THEN "released" ELSE @]
                      ELSE rows[r]]
               evs == [event EXCEPT ![e].status = "cancelled", ![e].main = Null]
    <2>1. Table(t) /\ DOMAIN t = DOMAIN rows
      <3>1. \A r \in DOMAIN rows : t[r] \in Row
        <4> TAKE r \in DOMAIN rows
        <4>1. rows[r] \in Row
          BY DEF Table
        <4>2. [rows[r] EXCEPT !.booking = "cancelled", !.status = "cancelled"] \in Row
          BY <4>1 DEF Row
        <4>3. [rows[r] EXCEPT
                 !.status = IF rows[r].status = "pending" THEN "cancelled" ELSE rows[r].status,
                 !.hold = IF rows[r].hold = "tentative" THEN "released" ELSE rows[r].hold] \in Row
          BY <4>1 DEF Row
        <4> HIDE DEF ends, mine
        <4>4. QED
          BY <4>1, <4>2, <4>3
      <3>2. QED
        BY <3>1 DEF Table
    <2>2. evs \in [Events -> EventRow]
      BY DEF EventRow, Status
    <2>3. Written(t, evs, {r \in DOMAIN rows : ends(r)})
      BY <1>2 DEF CancelEvent
    <2> HIDE DEF t, evs
    <2>4. QED
      BY <1>2, <2>1, <2>2, <2>3, WrittenTypeOK DEF CancelEvent, TypeOK, calls
  <1>3. ASSUME NEW e \in Events, NEW status \in Status, NEW recheck \in BOOLEAN,
               SafetyDecided(e, status, recheck)
        PROVE  TypeOK'
    <2>1. [event EXCEPT ![e].status = status, ![e].recheck = @ \/ recheck] \in [Events -> EventRow]
      BY DEF EventRow
    <2>2. QED
      BY <1>3, <2>1, EventOnlyTypes DEF SafetyDecided
  <1>4. ASSUME NEW e \in Events, SafetyApproved(e) \/ SafetyRejected(e) \/ ChangesRequested(e)
        PROVE  TypeOK'
    BY <1>3, <1>4 DEF SafetyApproved, SafetyRejected, ChangesRequested, Status
  <1>5. ASSUME NEW e \in Events, Reworked(e) PROVE TypeOK'
    <2>1. [event EXCEPT ![e].status = "planning", ![e].recheck = TRUE] \in [Events -> EventRow]
      BY DEF EventRow, Status
    <2>2. QED
      BY <1>5, <2>1, EventOnlyTypes DEF Reworked
  <1>6. ASSUME NEW e \in Events, RecheckSettled(e) PROVE TypeOK'
    <2>1. [event EXCEPT ![e].recheck = FALSE] \in [Events -> EventRow]
      BY DEF EventRow
    <2>2. QED
      BY <1>6, <2>1, FollowedType, EventOnlyTypes DEF RecheckSettled
  <1>7. ASSUME NEW e \in Events, EventConfirmed(e) PROVE TypeOK'
    <2>1. [event EXCEPT ![e].status = "confirmed"] \in [Events -> EventRow]
      BY DEF EventRow, Status
    <2>2. QED
      BY <1>7, <2>1, EventOnlyTypes DEF EventConfirmed
  <1>8. ASSUME NEW e \in Events, CompletionCalled(e) PROVE TypeOK'
    BY <1>8 DEF CompletionCalled, TypeOK
  <1>9. ASSUME NEW e \in Events, NEW recheck \in BOOLEAN, EventChanged(e, recheck) PROVE TypeOK'
    <2> DEFINE ev == [event[e] EXCEPT !.status = "planning", !.recheck = @ \/ recheck]
               evs == [event EXCEPT ![e] = IF recheck THEN ev
                                           ELSE Refreshed(ev, VenueReady(rows, affected, e))]
    <2>1. ev \in EventRow
      BY DEF EventRow, Status
    <2>2. VenueReady(rows, affected, e) \in BOOLEAN
      BY DEF VenueReady
    <2>3. evs \in [Events -> EventRow]
      BY <2>1, <2>2, RefreshedType
    <2>4. EventOnly(evs)
      BY <1>9 DEF EventChanged
    <2>5. QED
      BY <2>3, <2>4, EventOnlyTypes
  <1>10. ASSUME NEW e \in Planned, NEW impact \in BOOLEAN, PlanningCalled(e, impact) PROVE TypeOK'
    BY <1>10, DataAssumption DEF PlanningCalled, TypeOK
  <1>11. CASE PlanningWritten
    <2>1. edit \in [event : Events, impact : BOOLEAN]
      BY <1>11 DEF PlanningWritten, TypeOK
    <2>2. Replanned(event[edit.event], edit.impact) \in EventRow
      <3>1. edit.event \in Events /\ edit.impact \in BOOLEAN
        BY <2>1
      <3>2. event[edit.event] \in EventRow
        BY <3>1
      <3>3. QED
        BY <3>1, <3>2, ReplannedType
    <2>3. event' \in [Events -> EventRow]
      BY <1>11, <2>2, FollowedType DEF PlanningWritten
    <2>4. QED
      BY <1>11, <2>3 DEF PlanningWritten, TypeOK, EventRow
  <1>12. CASE CompletionWritten
    <2>1. completion.event \in Events
      BY <1>12 DEF CompletionWritten, TypeOK
    <2>2. event' \in [Events -> EventRow]
      BY <1>12, <2>1 DEF CompletionWritten, EventRow, Status
    <2>3. QED
      BY <1>12, <2>2 DEF CompletionWritten, TypeOK, EventRow
  <1>13. QED
    BY <1>1, <1>2, <1>4, <1>5, <1>6, <1>7, <1>8, <1>9, <1>10, <1>11, <1>12 DEF EventNext

THEOREM TypeCorrect == Spec => []TypeOK
  <1>1. Init => TypeOK
    <2> SUFFICES ASSUME Init PROVE TypeOK
      OBVIOUS
    <2>1. event \in [Events -> EventRow]
      <3>1. [status : Started, main : {Null}, recheck : {FALSE}] \subseteq EventRow
        <4> SUFFICES ASSUME NEW ev \in [status : Started, main : {Null}, recheck : {FALSE}]
                     PROVE  ev \in EventRow
          OBVIOUS
        <4>1. ev.status \in Status /\ ev.main \in Requests \cup {Null} /\ ev.recheck \in BOOLEAN
          BY DataAssumption DEF Status
        <4>2. ev = [status |-> ev.status, main |-> ev.main, recheck |-> ev.recheck]
          OBVIOUS
        <4>3. QED
          BY <4>1, <4>2 DEF EventRow
      <3>2. QED
        BY <3>1 DEF Init
    <2>2. rows \in [DOMAIN rows -> Row] /\ DOMAIN rows = {}
      BY DEF Init
    <2>3. gap \in [Venues -> Nat]
      BY DEF Init
    <2>4. QED
      BY <2>1, <2>2, <2>3 DEF Init, TypeOK, EventRow
  <1>2. TypeOK /\ [Next]_vars => TypeOK'
    <2> SUFFICES ASSUME TypeOK, [Next]_vars PROVE TypeOK'
      OBVIOUS
    <2>2. CASE UNCHANGED vars
      BY <2>2 DEF TypeOK, vars
    <2>3. CASE RequestNext
      BY <2>3, RequestTypes
    <2>4. CASE HoldNext
      BY <2>4, HoldTypes
    <2>5. CASE VenueNext
      BY <2>5, VenueTypes
    <2>6. CASE EventNext
      BY <2>6, EventTypes
    <2>7. CASE Tick
      BY <2>7 DEF Tick, TypeOK, calls
    <2>8. QED
      BY <2>2, <2>3, <2>4, <2>5, <2>6, <2>7 DEF Next
  <1>3. QED
    BY <1>1, <1>2, PTL DEF Spec

-----------------------------------------------------------------------------
(* A venue's time is given once.                                           *)

\* A row that has its venue: a confirmed booking or a running hold.
Committed(r) == rows[r].booking = "confirmed" \/ LiveHold(rows, r)

\* No two such rows at one venue overlap. It is inductive as it stands: a row
\* that comes to have its venue is checked against all that have theirs, and
\* the others can only lose it.
VenueOnce ==
    \A a, b \in DOMAIN rows :
        a # b /\ Committed(a) /\ Committed(b) =>
            rows[a].wish.venue # rows[b].wish.venue
                \/ ~Close(rows[a].wish.period, rows[b].wish.period, 0)

\* Periods that are not close share no instant, and a larger gap is stricter.
LEMMA Apart ==
  ASSUME NEW p \in Period, NEW q \in Period, NEW g \in Nat
  PROVE  /\ Close(p, q, 0) => Close(p, q, g)
         /\ Close(p, q, 0) <=> Close(q, p, 0)
         /\ ~Close(p, q, 0) => Instants(p) \cap Instants(q) = {}
  BY DEF Period, Close, Instants

LEMMA RowFields ==
  ASSUME TypeOK, NEW r \in DOMAIN rows
  PROVE  /\ rows[r] \in Row /\ rows[r].expires \in Nat
         /\ rows[r].wish \in Wish /\ rows[r].wish.venue \in Venues
         /\ rows[r].wish.period \in Period
  BY DEF TypeOK, Row, Wish

\* A row that has its venue after the step had it before, for the same wish.
Kept(r) ==
    /\ r \in DOMAIN rows /\ rows'[r].wish = rows[r].wish
    /\ Committed(r)' => Committed(r)

\* A step after which no row but c newly has its venue, and c not over another.
LEMMA OnceStep ==
  ASSUME TypeOK, TypeOK', VenueOnce,
         NEW c,
         \A r \in DOMAIN rows' : r # c /\ Committed(r)' => Kept(r),
         c \in DOMAIN rows' /\ Committed(c)' =>
            \A r \in DOMAIN rows \ {c} : Committed(r) =>
                rows[r].wish.venue # rows'[c].wish.venue
                    \/ ~Close(rows[r].wish.period, rows'[c].wish.period, 0)
  PROVE  VenueOnce'
  <1> DEFINE Clear(a, b) == rows'[a].wish.venue # rows'[b].wish.venue
                               \/ ~Close(rows'[a].wish.period, rows'[b].wish.period, 0)
  <1>1. SUFFICES ASSUME NEW a \in DOMAIN rows', NEW b \in DOMAIN rows', a # b,
                        Committed(a)', Committed(b)'
                 PROVE  Clear(a, b)
    BY DEF VenueOnce
  <1>2. Clear(a, b) <=> Clear(b, a)
    <2>1. rows'[a].wish.period \in Period /\ rows'[b].wish.period \in Period
      BY DEF TypeOK, Row, Wish
    <2>2. QED
      BY <2>1, Apart
  <1>3. CASE a # c /\ b # c
    BY <1>1, <1>3 DEF VenueOnce, Kept
  <1>4. CASE a = c
    <2>1. Kept(b) /\ Committed(b)
      BY <1>1, <1>4 DEF Kept
    <2>2. Clear(b, a)
      BY <1>1, <1>4, <2>1 DEF Kept
    <2>3. QED
      BY <1>2, <2>2
  <1>5. CASE b = c
    <2>1. Kept(a) /\ Committed(a)
      BY <1>1, <1>5 DEF Kept
    <2>2. QED
      BY <1>1, <1>5, <2>1 DEF Kept
  <1>6. QED
    BY <1>3, <1>4, <1>5

\* What an approval or a new hold is checked against.
LEMMA NoConflict ==
  ASSUME TypeOK, NEW w \in Wish, NEW own, ~Conflict(w, own)
  PROVE  \A r \in DOMAIN rows \ own : Committed(r) =>
            rows[r].wish.venue # w.venue \/ ~Close(rows[r].wish.period, w.period, 0)
  <1>1. SUFFICES ASSUME NEW r \in DOMAIN rows \ own, Committed(r), rows[r].wish.venue = w.venue
                 PROVE  ~Close(rows[r].wish.period, w.period, 0)
    OBVIOUS
  <1>2. ~Close(rows[r].wish.period, w.period, gap[w.venue])
    BY <1>1 DEF Conflict, Committed, BookedIn
  <1>3. rows[r].wish.period \in Period /\ w.period \in Period /\ gap[w.venue] \in Nat
    BY RowFields DEF TypeOK, Wish
  <1>4. QED
    BY <1>2, <1>3, Apart

\* A row keeps or loses its venue when its hold is only ended, or given another
\* deadline while it runs.
LEMMA Losing ==
  ASSUME TypeOK, now' \in Nat, now <= now', NEW r \in DOMAIN rows, rows'[r].expires \in Nat,
         rows'[r].wish = rows[r].wish,
         rows'[r].booking = "confirmed" => rows[r].booking = "confirmed",
         rows'[r].hold = "tentative" =>
            /\ rows[r].hold = "tentative"
            /\ rows'[r].expires = rows[r].expires \/ LiveHold(rows, r)
  PROVE  Kept(r)
  BY RowFields DEF Kept, Committed, LiveHold, TypeOK

\* A step that gives no row a venue it did not have.
LEMMA QuietStep ==
  ASSUME TypeOK, TypeOK', VenueOnce, \A r \in DOMAIN rows' : Committed(r)' => Kept(r)
  PROVE  VenueOnce'
  <1>1. Null \notin DOMAIN rows'
    BY IdAssumption DEF TypeOK
  <1>2. QED
    BY <1>1, OnceStep

LEMMA RequestsOnce == TypeOK /\ TypeOK' /\ VenueOnce /\ RequestNext => VenueOnce'
  <1> SUFFICES ASSUME TypeOK, TypeOK', VenueOnce, RequestNext PROVE VenueOnce'
    OBVIOUS
  <1> USE DEF calls
  <1>0. \A r \in DOMAIN rows' : rows'[r].expires \in Nat
    BY DEF TypeOK, Row
  <1>1. CASE UNCHANGED <<rows, now>>
    BY <1>1, QuietStep DEF Kept, Committed, LiveHold
  <1>2. ASSUME NEW r \in Requests \ DOMAIN rows, UNCHANGED now,
               rows' = With(rows, r, NewRow(request))
        PROVE  VenueOnce'
    BY <1>2, QuietStep DEF With, NewRow, Kept, Committed, LiveHold
  <1>3. ASSUME NEW r \in DOMAIN rows, Withdraw(r) \/ Reject(r) PROVE VenueOnce'
    <2>1. UNCHANGED now /\ \E s : rows' = [rows EXCEPT ![r].status = s]
      BY <1>3 DEF Withdraw, Reject, Written
    <2>2. \A q \in DOMAIN rows' : q \in DOMAIN rows /\ rows'[q].wish = rows[q].wish
            /\ rows'[q].booking = rows[q].booking /\ rows'[q].hold = rows[q].hold
            /\ rows'[q].expires = rows[q].expires
      BY <2>1 DEF TypeOK, Row
    <2>3. QED
      BY <2>1, <2>2, QuietStep DEF Kept, Committed, LiveHold
  <1>4. ASSUME NEW r \in DOMAIN rows, Approve(r) PROVE VenueOnce'
    <2> DEFINE w == rows[r].wish
               booked == [rows EXCEPT ![r].status = "approved", ![r].booking = "confirmed"]
               t == ReplacedReleased(booked, w.replaces)
    <2>1. UNCHANGED now
      BY <1>4 DEF Approve
    <2>2. CASE UNCHANGED rows
      BY <1>1, <2>1, <2>2
    <2>3. CASE rows' = t /\ ~Conflict(w, {})
      <3>1. DOMAIN rows' = DOMAIN rows
        BY <2>3 DEF ReplacedReleased
      <3>2. \A q \in DOMAIN rows : booked[q].wish = rows[q].wish /\ booked[q].hold = rows[q].hold
              /\ booked[q].expires = rows[q].expires
              /\ (q # r => booked[q].booking = rows[q].booking)
        BY DEF TypeOK, Row
      <3>3. Table(booked)
        BY TypedTables, TableChanges
      <3>4. \A q \in DOMAIN rows : t[q].wish = booked[q].wish /\ t[q].hold = booked[q].hold
              /\ t[q].expires = booked[q].expires
              /\ (t[q].booking = "confirmed" => booked[q].booking = "confirmed")
        <4> HIDE DEF booked
        <4>1. DOMAIN booked = DOMAIN rows
          BY DEF booked
        <4>2. QED
          BY <3>3, <4>1 DEF ReplacedReleased, Table, Row
      <3> HIDE DEF t, booked
      <3>5. \A q \in DOMAIN rows' : q # r /\ Committed(q)' => Kept(q)
        BY <2>1, <2>3, <3>1, <3>2, <3>4 DEF Kept, Committed, LiveHold
      <3>6. rows'[r].wish = w /\ w \in Wish
        BY <2>3, <3>2, <3>4, RowFields
      <3>7. \A q \in DOMAIN rows \ {r} : Committed(q) =>
                rows[q].wish.venue # w.venue \/ ~Close(rows[q].wish.period, w.period, 0)
        BY <2>3, <3>6, NoConflict
      <3>8. QED
        BY <3>5, <3>6, <3>7, OnceStep
    <2>4. QED
      BY <1>4, <2>2, <2>3 DEF Approve, Written
  <1>5. QED
    BY <1>1, <1>2, <1>3, <1>4
    DEF RequestNext, RequestCalled, RequestInserted, DecisionCalled, Written

LEMMA HoldsOnce == TypeOK /\ TypeOK' /\ VenueOnce /\ HoldNext => VenueOnce'
  <1> SUFFICES ASSUME TypeOK, TypeOK', VenueOnce, HoldNext PROVE VenueOnce'
    OBVIOUS
  <1> USE DEF calls
  <1>0. \A r \in DOMAIN rows' : rows'[r].expires \in Nat
    BY DEF TypeOK, Row
  <1>1. CASE UNCHANGED <<rows, now>>
    BY <1>1, QuietStep DEF Kept, Committed, LiveHold
  <1>2. ASSUME NEW w \in Held, NEW x \in Expiries, CreateHold(w, x) PROVE VenueOnce'
    <2> DEFINE row == [NewRow(w) EXCEPT !.hold = "tentative", !.expires = x, !.warned = WarnAt(x)]
    <2>1. row.wish = w
      BY DEF NewRow
    <2>2. w \in Wish
      BY DataAssumption
    <2> HIDE DEF row
    <2>3. PICK r \in Requests \ DOMAIN rows : rows' = With(rows, r, row)
      BY <1>2 DEF CreateHold, Written, row
    <2>4. UNCHANGED now /\ ~Conflict(w, {})
      BY <1>2 DEF CreateHold
    <2>5. \A q \in DOMAIN rows' : q # r => q \in DOMAIN rows /\ rows'[q] = rows[q]
      BY <2>3 DEF With
    <2>6. \A q \in DOMAIN rows' : q # r /\ Committed(q)' => Kept(q)
      BY <2>4, <2>5 DEF Kept, Committed, LiveHold
    <2>7. rows'[r].wish = w
      BY <2>1, <2>3 DEF With
    <2>8. \A q \in DOMAIN rows \ {r} : Committed(q) =>
              rows[q].wish.venue # w.venue \/ ~Close(rows[q].wish.period, w.period, 0)
      BY <2>2, <2>4, NoConflict
    <2>9. QED
      BY <2>6, <2>7, <2>8, OnceStep
  <1>3. ASSUME NEW r \in DOMAIN rows, ConvertHold(r) PROVE VenueOnce'
    <2> DEFINE w == rows[r].wish
               t == [rows EXCEPT ![r].hold = "converted", ![r].status = "approved",
                                 ![r].booking = "confirmed"]
    <2>1. UNCHANGED now /\ ~Conflict(w, {r}) /\ rows' = t
      BY <1>3 DEF ConvertHold, Written
    <2>2. DOMAIN rows' = DOMAIN rows /\ \A q \in DOMAIN rows \ {r} : rows'[q] = rows[q]
      BY <2>1
    <2>3. rows'[r].wish = w /\ w \in Wish
      BY <2>1, RowFields DEF Row
    <2>4. \A q \in DOMAIN rows' : q # r /\ Committed(q)' => Kept(q)
      BY <2>1, <2>2 DEF Kept, Committed, LiveHold
    <2>5. \A q \in DOMAIN rows \ {r} : Committed(q) =>
              rows[q].wish.venue # w.venue \/ ~Close(rows[q].wish.period, w.period, 0)
      BY <2>1, <2>3, NoConflict
    <2>6. QED
      BY <2>3, <2>4, <2>5, OnceStep
  <1>4. ASSUME NEW r \in DOMAIN rows, UNCHANGED now, DOMAIN rows' = DOMAIN rows,
               \A q \in DOMAIN rows \ {r} : rows'[q] = rows[q],
               rows'[r].wish = rows[r].wish, rows'[r].booking = rows[r].booking,
               rows'[r].hold = "tentative" =>
                  /\ rows[r].hold = "tentative"
                  /\ rows'[r].expires = rows[r].expires \/ LiveHold(rows, r)
        PROVE  VenueOnce'
    <2>1. now' \in Nat /\ now <= now'
      BY <1>4 DEF TypeOK
    <2>2. Kept(r)
      BY <1>0, <1>4, <2>1, Losing
    <2>3. \A q \in DOMAIN rows' : Committed(q)' => Kept(q)
      BY <1>4, <2>2 DEF Kept, Committed, LiveHold
    <2>4. QED
      BY <2>3, QuietStep
  <1>5. ASSUME NEW r \in DOMAIN rows, rows' = Expired(rows, r), UNCHANGED now PROVE VenueOnce'
    <2>1. /\ DOMAIN rows' = DOMAIN rows /\ \A q \in DOMAIN rows \ {r} : rows'[q] = rows[q]
          /\ rows'[r].wish = rows[r].wish /\ rows'[r].booking = rows[r].booking
          /\ rows'[r].hold = "expired"
      BY <1>5, RowFields DEF Expired, Row
    <2>2. QED
      BY <1>4, <1>5, <2>1
  <1>6. ASSUME NEW r \in DOMAIN rows, ReleaseHold(r) PROVE VenueOnce'
    <2>1. rows' = [rows EXCEPT ![r].hold = "released", ![r].status = "cancelled"] /\ UNCHANGED now
      BY <1>6 DEF ReleaseHold, Written
    <2>2. /\ DOMAIN rows' = DOMAIN rows /\ \A q \in DOMAIN rows \ {r} : rows'[q] = rows[q]
          /\ rows'[r].wish = rows[r].wish /\ rows'[r].booking = rows[r].booking
          /\ rows'[r].hold = "released"
      BY <2>1, RowFields DEF Row
    <2>3. QED
      BY <1>4, <2>1, <2>2
  <1>7. ASSUME NEW r \in DOMAIN rows, NEW x \in Expiries, ChangeHoldExpiry(r, x) PROVE VenueOnce'
    <2>1. /\ rows' = [rows EXCEPT ![r].expires = x, ![r].warned = WarnAt(x)] /\ UNCHANGED now
          /\ LiveHold(rows, r)
      BY <1>7 DEF ChangeHoldExpiry, ExpiryChangeable, Written
    <2>2. /\ DOMAIN rows' = DOMAIN rows /\ \A q \in DOMAIN rows \ {r} : rows'[q] = rows[q]
          /\ rows'[r].wish = rows[r].wish /\ rows'[r].booking = rows[r].booking
          /\ rows'[r].hold = rows[r].hold
      BY <2>1, RowFields DEF Row
    <2>3. QED
      BY <1>4, <2>1, <2>2 DEF LiveHold
  <1>8. ASSUME NEW r \in DOMAIN rows, rows' = Swept(rows, r), UNCHANGED now PROVE VenueOnce'
    <2>1. CASE rows' = Expired(rows, r)
      BY <1>5, <1>8, <2>1
    <2>2. CASE rows' = [rows EXCEPT ![r].warned = TRUE]
      <3>1. /\ DOMAIN rows' = DOMAIN rows /\ \A q \in DOMAIN rows \ {r} : rows'[q] = rows[q]
            /\ rows'[r].wish = rows[r].wish /\ rows'[r].booking = rows[r].booking
            /\ rows'[r].hold = rows[r].hold /\ rows'[r].expires = rows[r].expires
        BY <2>2, RowFields DEF Row
      <3>2. QED
        BY <1>4, <1>8, <3>1
    <2>3. QED
      BY <1>1, <1>8, <2>1, <2>2 DEF Swept
  <1>9. due \subseteq DOMAIN rows
    BY DEF TypeOK
  <1>10. QED
    BY <1>1, <1>2, <1>3, <1>5, <1>6, <1>7, <1>8, <1>9
    DEF HoldNext, HoldFoundExpired, HoldsSelected, HoldProcessed, HoldSkipped, Written

LEMMA VenuesOnce == TypeOK /\ TypeOK' /\ VenueOnce /\ VenueNext => VenueOnce'
  <1> SUFFICES ASSUME TypeOK, TypeOK', VenueOnce, VenueNext PROVE VenueOnce'
    OBVIOUS
  <1>1. CASE UNCHANGED <<rows, now>>
    BY <1>1, QuietStep DEF Kept, Committed, LiveHold
  <1>2. ASSUME NEW v \in Venues, DeleteVenue(v) PROVE VenueOnce'
    <2> DEFINE late(r) == rows[r].wish.venue = v /\ rows[r].hold = "tentative" /\ rows[r].expires <= now
    <2>1. UNCHANGED now /\ rows' = [r \in DOMAIN rows |->
                                     IF late(r) THEN Expired(rows, r)[r] ELSE rows[r]]
      BY <1>2 DEF DeleteVenue, Written
    <2>2. \A r \in DOMAIN rows : /\ Expired(rows, r)[r].wish = rows[r].wish
                                 /\ Expired(rows, r)[r].booking = rows[r].booking
                                 /\ Expired(rows, r)[r].hold = "expired"
      BY RowFields DEF Expired, Row
    <2>3. \A r \in DOMAIN rows' : Committed(r)' => Kept(r)
      BY <2>1, <2>2 DEF Kept, Committed, LiveHold
    <2>4. QED
      BY <2>3, QuietStep
  <1>3. QED
    BY <1>1, <1>2 DEF VenueNext, BlockAdded, BlockRemoved, GapChanged, FacilitiesEdited

LEMMA EventsOnce == TypeOK /\ TypeOK' /\ VenueOnce /\ EventNext => VenueOnce'
  <1> SUFFICES ASSUME TypeOK, TypeOK', VenueOnce, EventNext PROVE VenueOnce'
    OBVIOUS
  <1>1. CASE UNCHANGED <<rows, now>>
    BY <1>1, QuietStep DEF Kept, Committed, LiveHold
  <1>2. ASSUME UNCHANGED now, DOMAIN rows' = DOMAIN rows,
               \A r \in DOMAIN rows :
                  /\ rows'[r].wish = rows[r].wish /\ rows'[r].expires = rows[r].expires
                  /\ rows'[r].booking \in {rows[r].booking, "cancelled"}
                  /\ rows'[r].hold \in {rows[r].hold, "released"}
        PROVE  VenueOnce'
    <2>1. \A r \in DOMAIN rows' : Committed(r)' => Kept(r)
      BY <1>2 DEF Kept, Committed, LiveHold
    <2>2. QED
      BY <2>1, QuietStep
  <1>3. ASSUME NEW e \in Events, NEW bs \in SUBSET DOMAIN rows, ReleaseBookings(e, bs)
        PROVE  VenueOnce'
    <2>1. /\ UNCHANGED now
          /\ rows' = [r \in DOMAIN rows |->
                       IF r \in bs
                       THEN [rows[r] EXCEPT !.booking = "cancelled", !.status = "cancelled"]
                       ELSE IF rows[r].status = "pending" /\ rows[r].wish.replaces \in bs
                       THEN [rows[r] EXCEPT !.status = "cancelled"]
                       ELSE rows[r]]
      BY <1>3 DEF ReleaseBookings, Written
    <2>2. QED
      BY <1>2, <2>1, RowFields DEF Row
  <1>4. ASSUME NEW e \in Events, CancelEvent(e) PROVE VenueOnce'
    <2> DEFINE mine(r) == rows[r].wish.event = e
               ends(r) == mine(r) /\ rows[r].booking = "confirmed" /\ ~Over(rows, r)
    <2>1. /\ UNCHANGED now
          /\ rows' = [r \in DOMAIN rows |->
                       IF ends(r)
                       THEN [rows[r] EXCEPT !.booking = "cancelled", !.status = "cancelled"]
                       ELSE IF mine(r)
                       THEN [rows[r] EXCEPT !.status = IF @ = "pending" THEN "cancelled" ELSE @,
                                            !.hold = IF @ = "tentative" THEN "released" ELSE @]
                       ELSE rows[r]]
      BY <1>4 DEF CancelEvent, Written
    <2>2. DOMAIN rows' = DOMAIN rows
      BY <2>1
    <2> HIDE DEF ends, mine
    <2>3. ASSUME NEW r \in DOMAIN rows
          PROVE  /\ rows'[r].wish = rows[r].wish /\ rows'[r].expires = rows[r].expires
                 /\ rows'[r].booking \in {rows[r].booking, "cancelled"}
                 /\ rows'[r].hold \in {rows[r].hold, "released"}
      BY <2>1, RowFields DEF Row
    <2>4. QED
      BY <1>2, <2>1, <2>2, <2>3
  <1>5. QED
    BY <1>1, <1>3, <1>4
    DEF EventNext, SafetyApproved, SafetyRejected, ChangesRequested, SafetyDecided, Reworked,
        RecheckSettled, EventConfirmed, EventChanged, CompletionCalled, PlanningCalled,
        PlanningWritten, CompletionWritten, EventOnly

\* A venue is never booked twice for one time, and nobody gets a venue and time
\* that a running hold keeps: for any number of requests, in any order of
\* approvals, conversions, releases, sweeps and changes of times.
THEOREM VenueNeverShared == Spec => [](NoDoubleBooking /\ HoldKeepsVenue)
  <1>1. Init => VenueOnce
    BY DEF Init, VenueOnce
  <1>2. TypeOK /\ TypeOK' /\ VenueOnce /\ [Next]_vars => VenueOnce'
    <2> SUFFICES ASSUME TypeOK, TypeOK', VenueOnce, [Next]_vars PROVE VenueOnce'
      OBVIOUS
    <2>1. CASE UNCHANGED vars
      BY <2>1, QuietStep DEF vars, Kept, Committed, LiveHold
    <2>2. CASE Tick
      <3>1. UNCHANGED rows /\ now' \in Nat /\ now <= now'
        BY <2>2 DEF Tick, TypeOK
      <3>2. \A r \in DOMAIN rows' : Kept(r)
        BY <3>1, RowFields, Losing
      <3>3. QED
        BY <3>2, QuietStep
    <2>3. QED
      BY <2>1, <2>2, RequestsOnce, HoldsOnce, VenuesOnce, EventsOnce DEF Next
  <1>3. TypeOK /\ VenueOnce => NoDoubleBooking /\ HoldKeepsVenue
    <2> SUFFICES ASSUME TypeOK, VenueOnce PROVE NoDoubleBooking /\ HoldKeepsVenue
      OBVIOUS
    <2>1. ASSUME NEW a \in DOMAIN rows, NEW b \in DOMAIN rows, a # b, Committed(a), Committed(b)
          PROVE  ~Share(a, b)
      BY <2>1, RowFields, Apart DEF VenueOnce, Share
    <2>2. QED
      BY <2>1 DEF NoDoubleBooking, HoldKeepsVenue, BookedIn, Committed
  <1>4. QED
    BY <1>1, <1>2, <1>3, TypeCorrect, PTL DEF Spec

\* In particular a hold that runs keeps its venue and time from everybody else,
\* however it was reached and whatever approvals come after it.
THEOREM HoldsKeepVenues == Spec => []HoldKeepsVenue
  BY VenueNeverShared, PTL

-----------------------------------------------------------------------------
(* The three tables agree.                                                 *)

Agree(row) ==
    /\ row.hold = "tentative" <=> row.hold # "none" /\ row.status = "pending"
    /\ row.booking = "confirmed" <=> row.status = "approved"

\* A hold replaces no booking, or a release of that booking would withdraw its
\* request and leave the hold running.
HoldsReplaceNothing ==
    \A r \in DOMAIN rows : IsHold(rows, r) => rows[r].wish.replaces = Null

\* The approval under way is of a request that no hold made.
ApprovalUnheld == approval # Null => approval \in DOMAIN rows /\ ~IsHold(rows, approval)

TablesInv ==
    /\ \A r \in DOMAIN rows : Agree(rows[r])
    /\ HoldsReplaceNothing
    /\ ApprovalUnheld

\* A row the step leaves in agreement, with its wish and with or without a hold
\* as before.
Agreed(r) ==
    /\ Agree(rows'[r]) /\ rows'[r].wish = rows[r].wish
    /\ rows'[r].hold = "none" <=> rows[r].hold = "none"

\* A step that makes no row and starts no approval.
LEMMA AgreedStep ==
  ASSUME TypeOK, TablesInv, DOMAIN rows' = DOMAIN rows, approval' \in {approval, Null},
         \A r \in DOMAIN rows : Agreed(r)
  PROVE  TablesInv'
  BY DEF TablesInv, HoldsReplaceNothing, ApprovalUnheld, Agreed, IsHold

\* The usual case: one row changes.
LEMMA AgreedRow ==
  ASSUME TypeOK, TablesInv, NEW r \in DOMAIN rows, DOMAIN rows' = DOMAIN rows,
         approval' \in {approval, Null},
         \A q \in DOMAIN rows \ {r} : rows'[q] = rows[q], Agreed(r)
  PROVE  TablesInv'
  BY AgreedStep DEF TablesInv, Agreed

\* A step that makes one row, a request or a hold of a period.
LEMMA AgreedNew ==
  ASSUME TypeOK, TablesInv, NEW r \in Requests \ DOMAIN rows, NEW row, approval' = approval,
         rows' = With(rows, r, row), Agree(row), row.hold # "none" => row.wish.replaces = Null
  PROVE  TablesInv'
  <1>1. DOMAIN rows' = DOMAIN rows \cup {r} /\ rows'[r] = row
        /\ \A q \in DOMAIN rows : rows'[q] = rows[q]
    BY DEF With
  <1>2. QED
    BY <1>1 DEF TablesInv, HoldsReplaceNothing, ApprovalUnheld, IsHold

LEMMA TablesUnchanged ==
  ASSUME TablesInv, UNCHANGED <<rows, approval>> PROVE TablesInv'
  BY DEF TablesInv, HoldsReplaceNothing, ApprovalUnheld, IsHold

LEMMA RequestsAgree == TypeOK /\ TablesInv /\ RequestNext => TablesInv'
  <1> SUFFICES ASSUME TypeOK, TablesInv, RequestNext PROVE TablesInv'
    OBVIOUS
  <1> USE DEF calls
  <1>1. CASE UNCHANGED <<rows, approval>>
    BY <1>1, TablesUnchanged
  <1>2. ASSUME NEW r \in Requests \ DOMAIN rows, UNCHANGED approval,
               rows' = With(rows, r, NewRow(request))
        PROVE  TablesInv'
    BY <1>2, AgreedNew DEF NewRow, Agree
  <1>3. ASSUME NEW r \in DOMAIN rows, Withdraw(r) \/ Reject(r) PROVE TablesInv'
    <2>1. UNCHANGED approval /\ rows[r].status \in {"pending", "rejected"} /\ ~IsHold(rows, r)
          /\ \E s \in {"cancelled", "rejected"} : rows' = [rows EXCEPT ![r].status = s]
      BY <1>3 DEF Withdraw, Reject, Written
    <2>2. /\ DOMAIN rows' = DOMAIN rows /\ \A q \in DOMAIN rows \ {r} : rows'[q] = rows[q]
          /\ rows'[r].wish = rows[r].wish /\ rows'[r].hold = rows[r].hold
          /\ rows'[r].booking = rows[r].booking /\ rows'[r].status \in {"cancelled", "rejected"}
      BY <2>1, RowFields DEF Row
    <2>3. Agreed(r)
      BY <2>1, <2>2 DEF Agreed, Agree, TablesInv, IsHold
    <2>4. QED
      BY <2>1, <2>2, <2>3, AgreedRow
  <1>4. ASSUME NEW r \in DOMAIN rows, DecisionCalled(r) PROVE TablesInv'
    BY <1>4 DEF DecisionCalled, TablesInv, HoldsReplaceNothing, ApprovalUnheld, IsHold
  <1>5. ASSUME NEW r \in DOMAIN rows, Approve(r) PROVE TablesInv'
    <2> DEFINE booked == [rows EXCEPT ![r].status = "approved", ![r].booking = "confirmed"]
               b == rows[r].wish.replaces
               t == ReplacedReleased(booked, b)
    <2>1. approval' = Null /\ ~IsHold(rows, r)
      BY <1>5, IdAssumption DEF Approve, TablesInv, ApprovalUnheld, TypeOK
    <2>2. CASE UNCHANGED rows
      <3>1. DOMAIN rows' = DOMAIN rows /\ \A q \in DOMAIN rows : Agreed(q)
        BY <2>2 DEF Agreed, TablesInv
      <3>2. QED
        BY <2>1, <3>1, AgreedStep
    <2>3. CASE rows' = t
      <3>1. Table(booked) /\ DOMAIN booked = DOMAIN rows
        BY TypedTables, TableChanges
      <3>2. \A q \in DOMAIN rows : /\ Agree(booked[q]) /\ booked[q].wish = rows[q].wish
                                   /\ booked[q].hold = rows[q].hold
        BY <2>1, RowFields DEF Row, TablesInv, Agree, IsHold
      <3> HIDE DEF booked
      <3>3. \A q \in DOMAIN rows : /\ Agree(t[q]) /\ t[q].wish = booked[q].wish
                                   /\ t[q].hold = booked[q].hold
        <4>1. CASE b \in DOMAIN booked /\ booked[b].booking = "confirmed"
                   /\ t = [booked EXCEPT ![b].status = "cancelled", ![b].booking = "cancelled"]
          <5>1. \A q \in DOMAIN rows \ {b} : t[q] = booked[q]
            BY <3>1, <4>1
          <5>2. booked[b] \in Row
            BY <3>1, <4>1 DEF Table
          <5>3. t[b].status = "cancelled" /\ t[b].booking = "cancelled"
                /\ t[b].hold = booked[b].hold /\ t[b].wish = booked[b].wish
            BY ZenonT(60), <4>1, <5>2 DEF Row
          <5>4. Agree(t[b])
            BY <3>1, <3>2, <4>1, <5>3 DEF Agree
          <5>5. QED
            BY <3>2, <5>1, <5>3, <5>4
        <4>2. CASE t = booked
          BY <3>2, <4>2
        <4>3. CASE b \notin DOMAIN booked
                   /\ t = [booked EXCEPT ![b].status = "cancelled", ![b].booking = "cancelled"]
          <5>1. \A q \in DOMAIN rows : t[q] = booked[q]
            BY <3>1, <4>3
          <5>2. QED
            BY <3>2, <5>1
        <4>4. QED
          BY <4>1, <4>2, <4>3 DEF ReplacedReleased
      <3>4. DOMAIN t = DOMAIN rows
        BY <3>1, ReplacedReleasedTable
      <3> HIDE DEF t
      <3>5. \A q \in DOMAIN rows : Agreed(q)
        BY <2>3, <3>2, <3>3 DEF Agreed
      <3>6. QED
        BY <2>1, <2>3, <3>4, <3>5, AgreedStep
    <2>4. QED
      BY <1>5, <2>2, <2>3 DEF Approve, Written
  <1>6. QED
    BY <1>1, <1>2, <1>3, <1>4, <1>5
    DEF RequestNext, RequestCalled, RequestInserted, Written

LEMMA HoldsAgree == TypeOK /\ TablesInv /\ HoldNext => TablesInv'
  <1> SUFFICES ASSUME TypeOK, TablesInv, HoldNext PROVE TablesInv'
    OBVIOUS
  <1> USE DEF calls
  <1>1. CASE UNCHANGED <<rows, approval>>
    BY <1>1, TablesUnchanged
  <1>2. ASSUME NEW w \in Held, NEW x \in Expiries, CreateHold(w, x) PROVE TablesInv'
    <2> DEFINE row == [NewRow(w) EXCEPT !.hold = "tentative", !.expires = x, !.warned = WarnAt(x)]
    <2>1. Agree(row) /\ row.wish = w
      BY DEF NewRow, Agree
    <2>2. w.replaces = Null
      BY DataAssumption
    <2> HIDE DEF row
    <2>3. PICK r \in Requests \ DOMAIN rows : rows' = With(rows, r, row)
      BY <1>2 DEF CreateHold, Written, row
    <2>4. approval' = approval
      BY <1>2 DEF CreateHold
    <2>5. QED
      BY <2>1, <2>2, <2>3, <2>4, AgreedNew
  <1>3. ASSUME NEW r \in DOMAIN rows, UNCHANGED approval, DOMAIN rows' = DOMAIN rows,
               \A q \in DOMAIN rows \ {r} : rows'[q] = rows[q],
               rows'[r].wish = rows[r].wish, rows[r].hold = "tentative",
               \/ /\ rows'[r].booking = rows[r].booking
                  /\ \/ rows'[r].hold \in {"expired", "released"} /\ rows'[r].status = "cancelled"
                     \/ rows'[r].hold = rows[r].hold /\ rows'[r].status = rows[r].status
               \/ /\ rows'[r].booking = "confirmed" /\ rows'[r].status = "approved"
                  /\ rows'[r].hold = "converted"
        PROVE  TablesInv'
    <2>1. Agreed(r)
      BY <1>3 DEF Agreed, Agree, TablesInv
    <2>2. QED
      BY <1>3, <2>1, AgreedRow
  <1>4. ASSUME NEW r \in DOMAIN rows, rows' = Expired(rows, r), UNCHANGED approval,
               rows[r].hold = "tentative"
        PROVE  TablesInv'
    <2>1. rows[r].status = "pending"
      BY <1>4 DEF TablesInv, Agree
    <2>2. /\ DOMAIN rows' = DOMAIN rows /\ \A q \in DOMAIN rows \ {r} : rows'[q] = rows[q]
          /\ rows'[r].wish = rows[r].wish /\ rows'[r].booking = rows[r].booking
          /\ rows'[r].hold = "expired" /\ rows'[r].status = "cancelled"
      BY <1>4, <2>1, RowFields DEF Expired, Row
    <2>3. QED
      BY <1>3, <1>4, <2>2
  <1>5. ASSUME NEW r \in DOMAIN rows, ReleaseHold(r) PROVE TablesInv'
    <2>1. /\ rows' = [rows EXCEPT ![r].hold = "released", ![r].status = "cancelled"]
          /\ UNCHANGED approval /\ rows[r].hold = "tentative"
      BY <1>5 DEF ReleaseHold, LiveHold, Written
    <2>2. /\ DOMAIN rows' = DOMAIN rows /\ \A q \in DOMAIN rows \ {r} : rows'[q] = rows[q]
          /\ rows'[r].wish = rows[r].wish /\ rows'[r].booking = rows[r].booking
          /\ rows'[r].hold = "released" /\ rows'[r].status = "cancelled"
      BY <2>1, RowFields DEF Row
    <2>3. QED
      BY <1>3, <2>1, <2>2
  <1>6. ASSUME NEW r \in DOMAIN rows, ConvertHold(r) PROVE TablesInv'
    <2>1. /\ rows' = [rows EXCEPT ![r].hold = "converted", ![r].status = "approved",
                                  ![r].booking = "confirmed"]
          /\ UNCHANGED approval /\ rows[r].hold = "tentative"
      BY <1>6 DEF ConvertHold, LiveHold, Written
    <2>2. /\ DOMAIN rows' = DOMAIN rows /\ \A q \in DOMAIN rows \ {r} : rows'[q] = rows[q]
          /\ rows'[r].wish = rows[r].wish /\ rows'[r].booking = "confirmed"
          /\ rows'[r].hold = "converted" /\ rows'[r].status = "approved"
      BY <2>1, RowFields DEF Row
    <2>3. QED
      BY <1>3, <2>1, <2>2
  <1>7. ASSUME NEW r \in DOMAIN rows, NEW x \in Expiries, ChangeHoldExpiry(r, x) PROVE TablesInv'
    <2>1. /\ rows' = [rows EXCEPT ![r].expires = x, ![r].warned = WarnAt(x)]
          /\ UNCHANGED approval /\ rows[r].hold = "tentative"
      BY <1>7 DEF ChangeHoldExpiry, ExpiryChangeable, LiveHold, Written
    <2>2. /\ DOMAIN rows' = DOMAIN rows /\ \A q \in DOMAIN rows \ {r} : rows'[q] = rows[q]
          /\ rows'[r].wish = rows[r].wish /\ rows'[r].booking = rows[r].booking
          /\ rows'[r].hold = rows[r].hold /\ rows'[r].status = rows[r].status
      BY <2>1, RowFields DEF Row
    <2>3. QED
      BY <1>3, <2>1, <2>2
  <1>8. ASSUME NEW r \in DOMAIN rows, rows' = Swept(rows, r), UNCHANGED approval PROVE TablesInv'
    <2>1. CASE rows[r].hold = "tentative" /\ rows' = Expired(rows, r)
      BY <1>4, <1>8, <2>1
    <2>2. CASE rows[r].hold = "tentative" /\ rows' = [rows EXCEPT ![r].warned = TRUE]
      <3>1. /\ DOMAIN rows' = DOMAIN rows /\ \A q \in DOMAIN rows \ {r} : rows'[q] = rows[q]
            /\ rows'[r].wish = rows[r].wish /\ rows'[r].booking = rows[r].booking
            /\ rows'[r].hold = rows[r].hold /\ rows'[r].status = rows[r].status
        BY <2>2, RowFields DEF Row
      <3>2. QED
        BY <1>3, <1>8, <2>2, <3>1
    <2>3. QED
      BY <1>1, <1>8, <2>1, <2>2 DEF Swept
  <1>9. due \subseteq DOMAIN rows
    BY DEF TypeOK
  <1>10. QED
    BY <1>1, <1>2, <1>4, <1>5, <1>6, <1>7, <1>8, <1>9
    DEF HoldNext, HoldFoundExpired, HoldsSelected, HoldProcessed, HoldSkipped, Written

LEMMA VenuesAgree == TypeOK /\ TablesInv /\ VenueNext => TablesInv'
  <1> SUFFICES ASSUME TypeOK, TablesInv, VenueNext PROVE TablesInv'
    OBVIOUS
  <1> USE DEF calls
  <1>1. CASE UNCHANGED <<rows, approval>>
    BY <1>1, TablesUnchanged
  <1>2. ASSUME NEW v \in Venues, DeleteVenue(v) PROVE TablesInv'
    <2> DEFINE late(r) == rows[r].wish.venue = v /\ rows[r].hold = "tentative" /\ rows[r].expires <= now
    <2>1. UNCHANGED approval /\ rows' = [r \in DOMAIN rows |->
                                          IF late(r) THEN Expired(rows, r)[r] ELSE rows[r]]
      BY <1>2 DEF DeleteVenue, Written
    <2>2. \A r \in DOMAIN rows : rows[r].hold = "tentative" =>
            /\ Expired(rows, r)[r].wish = rows[r].wish
            /\ Expired(rows, r)[r].booking = rows[r].booking
            /\ Expired(rows, r)[r].hold = "expired" /\ Expired(rows, r)[r].status = "cancelled"
      BY RowFields DEF Expired, Row, TablesInv, Agree
    <2>3. \A r \in DOMAIN rows : Agreed(r)
      BY <2>1, <2>2 DEF Agreed, Agree, TablesInv
    <2>4. QED
      BY <2>1, <2>3, AgreedStep
  <1>3. QED
    BY <1>1, <1>2 DEF VenueNext, BlockAdded, BlockRemoved, GapChanged, FacilitiesEdited

LEMMA EventsAgree == TypeOK /\ TablesInv /\ EventNext => TablesInv'
  <1> SUFFICES ASSUME TypeOK, TablesInv, EventNext PROVE TablesInv'
    OBVIOUS
  <1> USE DEF calls
  <1>1. CASE UNCHANGED <<rows, approval>>
    BY <1>1, TablesUnchanged
  <1>2. ASSUME NEW e \in Events, NEW bs \in SUBSET DOMAIN rows, ReleaseBookings(e, bs)
        PROVE  TablesInv'
    <2>1. /\ UNCHANGED approval
          /\ \A r \in bs : rows[r].booking = "confirmed"
          /\ rows' = [r \in DOMAIN rows |->
                       IF r \in bs
                       THEN [rows[r] EXCEPT !.booking = "cancelled", !.status = "cancelled"]
                       ELSE IF rows[r].status = "pending" /\ rows[r].wish.replaces \in bs
                       THEN [rows[r] EXCEPT !.status = "cancelled"]
                       ELSE rows[r]]
      BY <1>2 DEF ReleaseBookings, Written, CurrentBooking, BookedIn
    <2>2. Null \notin bs
      BY IdAssumption DEF TypeOK
    <2>3. ASSUME NEW r \in DOMAIN rows PROVE Agreed(r)
      <3>1. rows[r] \in Row /\ Agree(rows[r]) /\ (IsHold(rows, r) => rows[r].wish.replaces = Null)
        BY RowFields DEF TablesInv, HoldsReplaceNothing
      <3>2. CASE r \in bs
        BY <2>1, <3>1, <3>2 DEF Agreed, Agree, Row
      <3>3. CASE r \notin bs /\ rows[r].status = "pending" /\ rows[r].wish.replaces \in bs
        BY <2>1, <2>2, <3>1, <3>3 DEF Agreed, Agree, Row, IsHold
      <3>4. CASE rows'[r] = rows[r]
        BY <3>1, <3>4 DEF Agreed
      <3>5. QED
        BY <2>1, <3>2, <3>3, <3>4
    <2>4. QED
      BY <2>1, <2>3, AgreedStep
  <1>3. ASSUME NEW e \in Events, CancelEvent(e) PROVE TablesInv'
    <2> DEFINE mine(r) == rows[r].wish.event = e
               ends(r) == mine(r) /\ rows[r].booking = "confirmed" /\ ~Over(rows, r)
    <2>1. /\ UNCHANGED approval
          /\ rows' = [r \in DOMAIN rows |->
                       IF ends(r)
                       THEN [rows[r] EXCEPT !.booking = "cancelled", !.status = "cancelled"]
                       ELSE IF mine(r)
                       THEN [rows[r] EXCEPT !.status = IF @ = "pending" THEN "cancelled" ELSE @,
                                            !.hold = IF @ = "tentative" THEN "released" ELSE @]
                       ELSE rows[r]]
      BY <1>3 DEF CancelEvent, Written
    <2>2. ASSUME NEW r \in DOMAIN rows PROVE Agreed(r)
      <3>1. rows[r] \in Row /\ Agree(rows[r])
        BY RowFields DEF TablesInv
      <3>2. CASE ends(r)
        BY <2>1, <3>1, <3>2 DEF Agreed, Agree, Row
      <3>3. CASE ~ends(r) /\ mine(r)
        <4> HIDE DEF ends, mine
        <4>1. /\ rows'[r].wish = rows[r].wish /\ rows'[r].booking = rows[r].booking
              /\ rows'[r].status = IF rows[r].status = "pending" THEN "cancelled" ELSE rows[r].status
              /\ rows'[r].hold = IF rows[r].hold = "tentative" THEN "released" ELSE rows[r].hold
          BY <2>1, <3>1, <3>3 DEF Row
        <4>2. QED
          BY <3>1, <4>1 DEF Agreed, Agree
      <3>4. CASE ~ends(r) /\ ~mine(r)
        BY <2>1, <3>1, <3>4 DEF Agreed
      <3>5. QED
        BY <3>2, <3>3, <3>4
    <2>3. QED
      BY <2>1, <2>2, AgreedStep
  <1>4. QED
    BY <1>1, <1>2, <1>3
    DEF EventNext, SafetyApproved, SafetyRejected, ChangesRequested, SafetyDecided, Reworked,
        RecheckSettled, EventConfirmed, EventChanged, CompletionCalled, PlanningCalled,
        PlanningWritten, CompletionWritten, EventOnly

LEMMA TablesInvariant == Spec => []TablesInv
  <1>1. Init => TablesInv
    BY DEF Init, TablesInv, HoldsReplaceNothing, ApprovalUnheld
  <1>2. TypeOK /\ TablesInv /\ [Next]_vars => TablesInv'
    <2> SUFFICES ASSUME TypeOK, TablesInv, [Next]_vars PROVE TablesInv'
      OBVIOUS
    <2>1. CASE UNCHANGED <<rows, approval>>
      BY <2>1, TablesUnchanged
    <2>2. QED
      BY <2>1, RequestsAgree, HoldsAgree, VenuesAgree, EventsAgree DEF Next, Tick, calls, vars
  <1>3. QED
    BY <1>1, <1>2, TypeCorrect, PTL DEF Spec

\* The requests, the holds and the bookings tell one story, whichever of them a
\* call, the sweep or a deletion changes.
THEOREM TablesAlwaysAgree == Spec => []TablesAgree
  <1>1. TablesInv => TablesAgree
    BY DEF TablesInv, TablesAgree, Agree, IsHold
  <1>2. QED
    BY <1>1, TablesInvariant, PTL

-----------------------------------------------------------------------------
(* Room for a new booking.                                                 *)

\* A row whose booking is made by the step: approved or converted by it.
LEMMA NewlyBooked ==
  ASSUME TypeOK, [Next]_vars, NEW r \in DOMAIN rows,
         rows[r].booking = "none", rows'[r].booking = "confirmed"
  PROVE  ~Conflict(rows[r].wish, {}) \/ ~Conflict(rows[r].wish, {r})
  <1> USE DEF calls
  <1>1. CASE UNCHANGED rows
    BY <1>1
  <1>2. ASSUME NEW q \in DOMAIN rows, Approve(q) PROVE ~Conflict(rows[r].wish, {})
    <2> DEFINE booked == [rows EXCEPT ![q].status = "approved", ![q].booking = "confirmed"]
               t == ReplacedReleased(booked, rows[q].wish.replaces)
    <2>1. CASE UNCHANGED rows
      BY <1>1, <2>1
    <2>2. CASE rows' = t /\ ~Conflict(rows[q].wish, {})
      <3>1. \A o \in DOMAIN rows \ {q} : booked[o] = rows[o]
        OBVIOUS
      <3>2. Table(booked) /\ DOMAIN booked = DOMAIN rows
        BY TypedTables, TableChanges
      <3> HIDE DEF booked
      <3>3. t[r].booking \in {booked[r].booking, "cancelled"}
        BY <3>2 DEF ReplacedReleased, Table, Row
      <3>4. r = q
        BY <2>2, <3>1, <3>3
      <3>5. QED
        BY <2>2, <3>4
    <2>3. QED
      BY <1>2, <2>1, <2>2 DEF Approve, Written
  <1>3. ASSUME NEW q \in DOMAIN rows, ConvertHold(q) PROVE ~Conflict(rows[r].wish, {r})
    <2>1. ~Conflict(rows[q].wish, {q}) /\ \A o \in DOMAIN rows \ {q} : rows'[o] = rows[o]
      BY <1>3 DEF ConvertHold, Written
    <2>2. QED
      BY <2>1
  <1>4. CASE rows'[r].booking \in {rows[r].booking, "cancelled"}
    BY <1>4
  <1>5. ASSUME NEW q \in Requests \ DOMAIN rows, NEW row, rows' = With(rows, q, row)
        PROVE  rows'[r] = rows[r]
    BY <1>5 DEF With
  <1>6. ASSUME RequestInserted PROVE rows'[r] = rows[r]
    BY <1>5, <1>6 DEF RequestInserted, Written
  <1>7. ASSUME NEW q \in DOMAIN rows, Withdraw(q) \/ Reject(q) \/ ReleaseHold(q)
        PROVE  rows'[r].booking = rows[r].booking
    <2>1. \/ \E s : rows' = [rows EXCEPT ![q].status = s]
          \/ rows' = [rows EXCEPT ![q].hold = "released", ![q].status = "cancelled"]
      BY <1>7 DEF Withdraw, Reject, ReleaseHold, Written
    <2>2. QED
      BY <2>1, RowFields DEF Row
  <1>8. ASSUME NEW w \in Held, NEW x \in Expiries, CreateHold(w, x) PROVE rows'[r] = rows[r]
    BY <1>5, <1>8 DEF CreateHold, Written
  <1>9. \A q \in DOMAIN rows : DOMAIN Expired(rows, q) = DOMAIN rows
                               /\ Expired(rows, q)[r].booking = rows[r].booking
    <2> TAKE q \in DOMAIN rows
    <2>1. rows[r] \in Row
      BY RowFields
    <2>2. QED
      BY <2>1 DEF Expired, Row
  <1>10. ASSUME NEW q \in DOMAIN rows, rows' = Swept(rows, q)
         PROVE  rows'[r].booking = rows[r].booking
    <2>1. rows[r] \in Row
      BY RowFields
    <2>2. QED
      BY <1>9, <1>10, <2>1 DEF Swept, Row
  <1>11. ASSUME NEW q \in DOMAIN rows, NEW x \in Expiries, ChangeHoldExpiry(q, x)
         PROVE  rows'[r].booking = rows[r].booking
    <2>1. rows' = [rows EXCEPT ![q].expires = x, ![q].warned = WarnAt(x)] /\ rows[r] \in Row
      BY <1>11, RowFields DEF ChangeHoldExpiry, Written
    <2>2. QED
      BY <2>1 DEF Row
  <1>12. ASSUME NEW v \in Venues, DeleteVenue(v) PROVE rows'[r].booking = rows[r].booking
    BY <1>9, <1>12 DEF DeleteVenue, Written
  <1>13. ASSUME NEW e \in Events, NEW bs \in SUBSET DOMAIN rows, ReleaseBookings(e, bs)
         PROVE  rows'[r].booking \in {rows[r].booking, "cancelled"}
    <2>1. rows[r] \in Row
      BY RowFields
    <2>2. rows' = [q \in DOMAIN rows |->
                    IF q \in bs
                    THEN [rows[q] EXCEPT !.booking = "cancelled", !.status = "cancelled"]
                    ELSE IF rows[q].status = "pending" /\ rows[q].wish.replaces \in bs
                    THEN [rows[q] EXCEPT !.status = "cancelled"]
                    ELSE rows[q]]
      BY <1>13 DEF ReleaseBookings, Written
    <2>3. QED
      BY <2>1, <2>2 DEF Row
  <1>14. ASSUME NEW e \in Events, CancelEvent(e)
         PROVE  rows'[r].booking \in {rows[r].booking, "cancelled"}
    <2>1. rows[r] \in Row
      BY RowFields
    <2>2. QED
      BY <1>14, <2>1 DEF CancelEvent, Written, Row
  <1>15. CASE RequestNext
    BY <1>1, <1>2, <1>6, <1>7, <1>15 DEF RequestNext, RequestCalled, DecisionCalled
  <1>16. CASE HoldNext
    <2>1. due \subseteq DOMAIN rows
      BY DEF TypeOK
    <2>2. QED
      BY <1>1, <1>3, <1>7, <1>8, <1>9, <1>10, <1>11, <1>16, <2>1
      DEF HoldNext, HoldFoundExpired, HoldsSelected, HoldProcessed, HoldSkipped, Written
  <1>17. CASE VenueNext
    BY <1>1, <1>12, <1>17 DEF VenueNext, BlockAdded, BlockRemoved, GapChanged, FacilitiesEdited
  <1>18. CASE EventNext
    BY <1>1, <1>4, <1>13, <1>14, <1>18
    DEF EventNext, SafetyApproved, SafetyRejected, ChangesRequested, SafetyDecided, Reworked,
        RecheckSettled, EventConfirmed, EventChanged, CompletionCalled, PlanningCalled,
        PlanningWritten, CompletionWritten, EventOnly
  <1>19. QED
    BY <1>1, <1>15, <1>16, <1>17, <1>18 DEF Next, Tick, vars

\* Whatever was booked, held or blocked meanwhile, and whatever setup and
\* turnaround the venue was given, a booking is made with room around it.
THEOREM NewBookingsFit == Spec => NewBookingsHaveRoom
  <1> DEFINE Room(r) ==
        LET w == rows[r].wish
        IN  /\ ~\E k \in blocks : Matches(k, w)
            /\ \A o \in DOMAIN rows \ {r} :
                /\ o \in BookedIn(rows) \/ LiveHold(rows, o)
                /\ rows[o].wish.venue = w.venue
                => \/ w.period.to + gap[w.venue] <= rows[o].wish.period.from
                   \/ rows[o].wish.period.to + gap[w.venue] <= w.period.from
             Step == \A r \in DOMAIN rows :
                rows[r].booking = "none" /\ rows'[r].booking = "confirmed" => Room(r)
  <1>1. ASSUME TypeOK, NEW r \in DOMAIN rows, NEW own \in SUBSET {r}, ~Conflict(rows[r].wish, own)
        PROVE  Room(r)
    <2> DEFINE w == rows[r].wish
    <2>1. \A k \in blocks : k.venue = w.venue => ~Close(k.period, w.period, 0)
      BY <1>1 DEF Conflict
    <2>2. ASSUME NEW o \in DOMAIN rows \ {r}, o \in BookedIn(rows) \/ LiveHold(rows, o),
                 rows[o].wish.venue = w.venue
          PROVE  \/ w.period.to + gap[w.venue] <= rows[o].wish.period.from
                 \/ rows[o].wish.period.to + gap[w.venue] <= w.period.from
      <3>1. ~Close(rows[o].wish.period, w.period, gap[w.venue])
        BY <1>1, <2>2 DEF Conflict
      <3>2. gap[w.venue] \in Nat /\ w.period \in Period /\ rows[o].wish.period \in Period
        BY <1>1, RowFields DEF TypeOK
      <3>3. QED
        BY <3>1, <3>2 DEF Close, Period
    <2>3. QED
      BY <2>1, <2>2 DEF Matches
  <1>2. TypeOK /\ [Next]_vars => [Step]_vars
    <2> SUFFICES ASSUME TypeOK, [Next]_vars, NEW r \in DOMAIN rows,
                        rows[r].booking = "none", rows'[r].booking = "confirmed"
                 PROVE  Room(r)
      OBVIOUS
    <2> HIDE DEF Room
    <2>1. ~Conflict(rows[r].wish, {}) \/ ~Conflict(rows[r].wish, {r})
      BY NewlyBooked
    <2>2. QED
      BY <1>1, <2>1
  <1>3. Spec => [][Step]_vars
    BY <1>2, TypeCorrect, PTL DEF Spec
  <1>4. QED
    BY <1>3 DEF NewBookingsHaveRoom
=============================================================================
