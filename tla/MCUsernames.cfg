SPECIFICATION Spec
CONSTANTS
    c1 = c1
    c2 = c2
    c3 = c3
    a1 = a1
    a2 = a2
    n1 = n1
    n2 = n2
    Calls <- MCCalls
    NoCall = NoCall
    Names <- MCNames
    Addresses <- MCAddresses
    Nobody = Nobody
    MaxTime = 3
    Settings <- MCSettings
INVARIANTS
    SharingIsSound
    SkipIsFresh
PROPERTIES
    ServedIsAlive
CHECK_DEADLOCK FALSE
