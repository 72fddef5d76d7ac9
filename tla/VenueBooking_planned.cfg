SPECIFICATION Spec
CONSTANTS
    e1 = e1
    e2 = e2
    v1 = v1
    r1 = r1
    Events = {e1}
    Venues = {v1}
    Requests = {r1}
    Requested <- AllChanges
    Held <- None
    Blocked <- None
    Expiries = {}
    Gaps = {}
    Edited = {}
    Lead = 0
    Started = {"approved"}
    Planned = {e1}
    Completing = FALSE
    Null = Null
    MaxTime = 3
SYMMETRY RowSymmetry
INVARIANTS AwaitingWhenReady
CHECK_DEADLOCK FALSE
