SPECIFICATION Spec
CONSTANTS
    e1 = e1
    e2 = e2
    v1 = v1
    v2 = v2
    r1 = r1
    r2 = r2
    r3 = r3
    Events = {e1}
    Venues = {v1, v2}
    Requests = {r1, r2, r3}
    Requested <- AllChanges
    Held <- None
    Blocked <- EarlyBlocks
    Expiries = {}
    Gaps = {}
    Edited = {}
    Lead = 0
    Started = {"planning"}
    Planned = {e1}
    Completing = TRUE
    Null = Null
    MaxTime = 3
SYMMETRY Symmetry
INVARIANTS TypeOK TablesAgree MainVenueBooked AffectedExactly DeletedVenueFree AwaitingWhenReady SecuredEventsHoused
CHECK_DEADLOCK FALSE
