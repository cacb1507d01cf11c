SPECIFICATION Spec
CONSTANTS
    c1 = c1
    c2 = c2
    c3 = c3
    m1 = m1
    m2 = m2
    hex = hex
    bech = bech
    Calls <- MCCalls
    Modules <- MCModules
    Spellings <- MCSpellings
    LastVersion = 2
    DefaultTtl = 1
    MaxTime = 2
    Settings <- MCSettings
INVARIANTS
    PermanentIsCurrent
    NothingStaleOnRequest
    TransactionIsWhole
CHECK_DEADLOCK FALSE
