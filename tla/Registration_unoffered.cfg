SPECIFICATION Spec
CONSTANTS
    a1 = a1
    a2 = a2
    Attendees = {a1, a2}
    Null = Null
    Keep = Keep
    Patches <- MCPatches
    Dates <- MCDates
    MaxTime = 3
    MaxDrift = 0
SYMMETRY Symmetry
INVARIANTS FreePlacesAreOffered
CHECK_DEADLOCK FALSE
