SPECIFICATION FairSpec
CONSTANTS
    e1 = e1
    e2 = e2
    v1 = v1
    r1 = r1
    r2 = r2
    Events = {e1}
    Venues = {v1}
    Requests = {r1, r2}
    Requested <- None
    Held <- HeldForFirst
    Blocked <- None
    Expiries = {2, 3}
    Gaps = {}
    Edited = {v1}
    Lead = 1
    Started = {"planning"}
    Planned = {}
    Completing = FALSE
    Null = Null
    MaxTime = 3
PROPERTIES HoldsExpire HoldsWarned
CHECK_DEADLOCK FALSE
