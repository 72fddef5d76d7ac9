SPECIFICATION FairSpec
CONSTANTS
    a1 = a1
    a2 = a2
    Attendees = {a1, a2}
    Null = Null
    Keep = Keep
    Patches <- MCPatches
    Dates <- OneDate
    MaxTime = 3
    MaxDrift = 0
PROPERTIES LapsedOffersReleased WindowAnnounced
CHECK_DEADLOCK FALSE
