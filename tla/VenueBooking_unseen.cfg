SPECIFICATION Spec
CONSTANTS
    e1 = e1
    e2 = e2
    v1 = v1
    v2 = v2
    r1 = r1
    r2 = r2
    Events = {e1}
    Venues = {v1, v2}
    Requests = {r1, r2}
    Requested <- AllChanges
    Held <- None
    Blocked <- None
    Expiries = {}
    Gaps = {}
    Edited = {}
    Lead = 0
    Started = {"planning"}
    Planned = {}
    Completing = FALSE
    Null = Null
    MaxTime = 3
SYMMETRY Symmetry
INVARIANTS ConfirmedEventsReady
CHECK_DEADLOCK FALSE
