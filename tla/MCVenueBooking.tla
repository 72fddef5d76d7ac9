--------------------------- MODULE MCVenueBooking ---------------------------
(* Constants for the runs of VenueBooking. *)
EXTENDS VenueBooking, TLC

CONSTANTS e1, e2, v1

\* Interchangeable: the rows everywhere; the venues where none is named.
RowSymmetry == Permutations(Requests)
Symmetry == Permutations(Requests) \cup Permutations(Venues)

P(a, b) == [from |-> a, to |-> b]

Wishes(es, ps, rs) == [event : es, venue : Venues, period : ps, replaces : rs]
Blocks(ps) == [venue : Venues, period : ps]

None == {}

\* Every request and every change of one for a single period.
AllChanges == Wishes({e1}, {P(1, 3)}, Requests \cup {Null})
EarlyBlocks == Blocks({P(1, 2)})

\* Two events that compete for adjacent periods; the first is held, the second
\* requests.
HeldForFirst == Wishes({e1}, {P(1, 2), P(2, 3)}, {Null})
RequestedForSecond == Wishes({e2}, {P(1, 2)}, {Null})
\* Requests for a period and for the one after it.
LaterPeriods == Wishes({e1}, {P(1, 2), P(2, 3)}, {Null})
=============================================================================
