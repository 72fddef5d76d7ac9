---------------------------- MODULE VenueFinder ----------------------------
(***************************************************************************)
(* What the venue search, the calendar, the conflict report and the fit    *)
(* check say of one venue and one event's wish for it, against what the    *)
(* request route and the decision function answer once it is asked for.    *)
(*                                                                          *)
(* Each reads its own rows, through windows of its own width, and works    *)
(* out setup, turnaround, facilities and capacity by its own code.         *)
(***************************************************************************)
EXTENDS Naturals, FiniteSets, NoValue

CONSTANTS Facilities,  \* FACILITY_KEYWORDS
          Layouts,     \* LAYOUTS
          MonthEnd,    \* instants run from 0 to MonthEnd
          MaxMinutes,  \* the longest setup or turnaround, in the same unit
          MaxSearch,   \* MAX_SEARCH_DAYS
          DayLength    \* of a calendar day

ASSUME FinderAssumption ==
  /\ MonthEnd \in Nat /\ MaxMinutes \in Nat /\ DayLength \in Nat \ {0}
  /\ MonthEnd % DayLength = 0   \* a month is whole days

VARIABLES wanted,    \* the period the event is to have the venue for
          occupant,  \* a booking, hold or block at the venue, or None
          times,     \* its setup and turnaround
          needs,     \* what the event's prose says it needs
          venue,     \* what the venue's record says it has
          grants     \* the capacity exceptions approved for the request

finderVars == <<wanted, occupant, times, needs, venue, grants>>

(* An instant below MaxMinutes stands for one before the day shown first.   *)
Period == {p \in [from : 0 .. MonthEnd, to : 0 .. MonthEnd] : p.from < p.to}

(* A venue's accessibility prose names a feature as the list does, only in  *)
(* other words, only inside another word, or not at all.                    *)
Prose == {"named", "worded", "inside", "absent"}

OccupantKinds == {"confirmed", "tentative", "held", "block"}

-----------------------------------------------------------------------------
(* Periods; the instants are shifted up by MaxMinutes so that none is       *)
(* negative.                                                                *)

Overlap(p, q)  == p.from < q.to /\ q.from < p.to
Shifted(p)     == [from |-> p.from + 2 * MaxMinutes, to |-> p.to + 2 * MaxMinutes]
Widened(p, before, after) == [from |-> p.from - before, to |-> p.to + after]

Gap == times.setup + times.turnaround

(* Two periods clash when less than setup plus turnaround lies between.     *)
ClashesOverlapping(p, q) == Overlap(p, q)
Clashes(p, q)  == Overlap(p, Widened(q, Gap, Gap))

Booked   == occupant # None /\ occupant.kind # "block"
Blocked  == occupant # None /\ occupant.kind = "block"
Asked    == Shifted(wanted)
Occupied == Shifted(occupant.period)

(* The wish with its own setup before and turnaround after.                 *)
Effective == Widened(Asked, times.setup, times.turnaround)

-----------------------------------------------------------------------------
(* Fit: what is recognised in the event's and the venue's prose.            *)

TooSmall == /\ needs.attendance # None
            /\ venue.capacity # None => needs.attendance > venue.capacity

MissingFacilities == needs.facilities \ venue.facilities
MissingAccess     == needs.access /\ venue.access \notin {"named", "worded"}

(* An exception counts when Venue Staff approved it for as many people.     *)
CountsFor(g) == g.role = "venue_staff" /\ g.attendance >= needs.attendance

bookingReadiness(exceptions) ==
  IF MissingFacilities # {} THEN "blocked"
  ELSE IF TooSmall /\ ~\E g \in exceptions : CountsFor(g) THEN "needs_capacity_exception"
  ELSE "allowed"

(* The list of requests an exception can be given, and the route that gives *)
(* one; grants holds those recorded already.                                *)
Listed == needs.attendance # None /\ bookingReadiness(grants) = "needs_capacity_exception"

ApprovableUnlessRecorded ==
  /\ bookingReadiness(grants) # "blocked"
  /\ TooSmall
  /\ ~\E g \in grants : g.attendance = needs.attendance

Approvable ==
  /\ bookingReadiness(grants) # "blocked"
  /\ TooSmall
  /\ bookingReadiness(grants) # "allowed"
  /\ ~\E g \in grants : g.role = "venue_staff" /\ g.attendance = needs.attendance

-----------------------------------------------------------------------------
(* Search, with the criteria filled in from the event (prefillFromEvent).   *)

Searchable(p) == p.to - p.from <= MaxSearch

(* Rows are read over the period widened by the largest gap there can be.   *)
SearchReachOnce == MaxMinutes   \* MUTANT of SearchReach: one side of the gap
SearchReach     == 2 * MaxMinutes

SearchFindsTaken ==
  \/ Blocked /\ Overlap(Occupied, Asked)
  \/ /\ Booked /\ occupant.kind \in {"confirmed", "tentative"}
     /\ Overlap(Occupied, Widened(Asked, SearchReach, SearchReach))
     /\ Clashes(Occupied, Asked)

(* A facility is looked for by its aliases, accessibility word for word.    *)
Offered ==
  /\ Searchable(wanted)
  /\ ~venue.deleted
  /\ ~SearchFindsTaken
  /\ needs.attendance # None => venue.capacity # None /\ venue.capacity >= needs.attendance
  /\ needs.layout # None => needs.layout \in venue.layouts
  /\ needs.facilities \subseteq venue.facilities
  /\ needs.access => venue.access \in {"named", "inside"}

-----------------------------------------------------------------------------
(* Calendar: a booking is shown with its setup before and its turnaround    *)
(* after, each an entry of its own; those outside the range are left out.   *)

CalendarReach == MaxMinutes

Pieces == {Occupied,
           [from |-> Occupied.from - times.setup, to |-> Occupied.from],
           [from |-> Occupied.to, to |-> Occupied.to + times.turnaround]}

Entries(range) ==
  {p \in IF Blocked THEN {Occupied}
         ELSE IF Booked /\ Overlap(Occupied, Widened(range, CalendarReach, CalendarReach)) THEN Pieces
         ELSE {} :
     p.from < p.to /\ Overlap(p, range)}

(* The month shown is the instants from 0 to MonthEnd in whole days.        *)
Month   == Shifted([from |-> 0, to |-> MonthEnd])
Day(d)  == Shifted([from |-> d * DayLength, to |-> (d + 1) * DayLength])
Days    == 0 .. (MonthEnd \div DayLength) - 1

ShownFree(d) == ~\E p \in Entries(Month) : Overlap(p, Day(d))

-----------------------------------------------------------------------------
(* Asking: the request route, its conflict report, and the decision.        *)

RequestRefused ==
  \/ venue.deleted
  \/ needs.layout # None /\ needs.layout \notin venue.layouts
  \/ venue.layouts = {}
  \/ bookingReadiness({}) = "blocked"

(* The report reads over the period widened by the venue's own gap.         *)
Reported == /\ Booked /\ occupant.kind \in {"confirmed", "tentative"}
            /\ Overlap(Occupied, Widened(Asked, Gap, Gap))

(* decide_venue_booking_request: bookings and holds with the gap, blocks    *)
(* without, and the capacity once more.                                     *)
DecisionConflict ==
  \/ /\ Booked /\ occupant.kind \in {"confirmed", "tentative"}
     /\ Occupied.from < Asked.to + Gap /\ Occupied.to > Asked.from - Gap
  \/ Blocked /\ Occupied.from < Asked.to /\ Occupied.to > Asked.from

DecisionCapacity == TooSmall /\ ~\E g \in grants : CountsFor(g)

ApprovalRefused == bookingReadiness(grants) # "allowed" \/ DecisionConflict \/ DecisionCapacity

-----------------------------------------------------------------------------
Plain == [attendance |-> None, facilities |-> {}, access |-> FALSE, layout |-> None]
Hall  == [capacity |-> None, facilities |-> {}, access |-> "absent", layouts |-> Layouts, deleted |-> FALSE]

(* Either the periods vary or what is needed and offered does.              *)
TimesVary ==
  /\ wanted \in Period
  /\ occupant \in {None} \cup [kind : OccupantKinds, period : Period]
  /\ times \in [setup : 0 .. MaxMinutes, turnaround : 0 .. MaxMinutes]
  /\ needs = Plain /\ venue = Hall /\ grants = {}

FitVaries ==
  /\ wanted = [from |-> 0, to |-> 1] /\ occupant = None /\ times = [setup |-> 0, turnaround |-> 0]
  /\ needs \in [attendance : {None, 1, 2}, facilities : SUBSET Facilities, access : BOOLEAN, layout : {None} \cup Layouts]
  /\ venue \in [capacity : {None, 1, 2}, facilities : SUBSET Facilities, access : Prose,
                layouts : SUBSET Layouts, deleted : BOOLEAN]
  /\ grants \in SUBSET [attendance : 1 .. 2, role : {"venue_staff", "event_organiser"}]

FinderInit == TimesVary \/ FitVaries

-----------------------------------------------------------------------------
(* What the coordinator is shown can be had.  A venue the search offers for *)
(* the event is neither refused by the request route, unless no layout of   *)
(* it is recorded, nor by the decision; one whose days the calendar shows   *)
(* free, with the room to prepare, has nothing in the way; the conflicts    *)
(* reported with a request are those it would be refused for, blocks apart; *)
(* and an exception can be approved for exactly the requests listed as      *)
(* needing one, after which capacity no longer stands in their way.         *)
ShownIsBookable ==
  /\ Offered => /\ RequestRefused => venue.layouts = {}
                /\ ~ApprovalRefused
  /\ /\ Effective.from >= Month.from /\ Effective.to <= Month.to
     /\ \A d \in Days : Overlap(Day(d), Effective) => ShownFree(d)
     => ~DecisionConflict
  /\ Reported <=> DecisionConflict /\ ~Blocked
  /\ Listed <=> Approvable
  /\ DecisionCapacity => bookingReadiness(grants) # "allowed"
=============================================================================
