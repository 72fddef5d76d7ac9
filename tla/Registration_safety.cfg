SPECIFICATION Spec
CONSTANTS
    a1 = a1
    a2 = a2
    a3 = a3
    Attendees = {a1, a2, a3}
    Null = Null
    Keep = Keep
    Patches <- MCPatches
    Dates <- MCDates
    MaxTime = 3
    MaxDrift = 1
SYMMETRY Symmetry
INVARIANTS TypeOK CapacityRespected RegisteredNotListed
PROPERTIES NoPlacePromisedTwice NobodyOvertaken OfferHeldUntilExpiry
CHECK_DEADLOCK FALSE
