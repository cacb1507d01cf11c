SPECIFICATION Spec
CONSTANTS
    c1 = c1
    c2 = c2
    c3 = c3
    NumChains = 2
    Calls <- MCCalls
    NoCall = NoCall
    Settings <- MCSettings
INVARIANTS
    ListingIsComplete
    RoutesAgree
CHECK_DEADLOCK FALSE
