SPECIFICATION Spec
CONSTANTS
    e1 = e1
    e2 = e2
    v1 = v1
    v2 = v2
    v3 = v3
    r1 = r1
    r2 = r2
    r3 = r3
    Events = {e1}
    Venues = {v1, v2, v3}
    Requests = {r1, r2, r3}
    Requested <- AllChanges
    Held <- None
    Blocked <- None
    Expiries = {}
    Gaps = {}
    Edited = {}
    Lead = 0
    Started = {"planning"}
    Planned = {}
    Completing = FALSE
    Null = Null
    MaxTime = 3
SYMMETRY Symmetry
INVARIANTS NoChangeOfCancelledBooking
CHECK_DEADLOCK FALSE
