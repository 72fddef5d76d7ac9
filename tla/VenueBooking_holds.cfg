SPECIFICATION Spec
CONSTANTS
    e1 = e1
    e2 = e2
    v1 = v1
    r1 = r1
    r2 = r2
    r3 = r3
    Events = {e1, e2}
    Venues = {v1}
    Requests = {r1, r2, r3}
    Requested <- RequestedForSecond
    Held <- HeldForFirst
    Blocked <- None
    Expiries = {1, 2}
    Gaps = {1}
    Edited = {}
    Lead = 0
    Started = {"approved"}
    Planned = {}
    Completing = FALSE
    Null = Null
    MaxTime = 1
SYMMETRY RowSymmetry
INVARIANTS NoDoubleBooking HoldKeepsVenue ClashesExactly
PROPERTIES NewBookingsHaveRoom
CHECK_DEADLOCK FALSE
