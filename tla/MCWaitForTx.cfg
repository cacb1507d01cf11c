SPECIFICATION FairSpec
CONSTANTS
    k1 = k1
    k2 = k2
    BlockSlots <- MCBlockSlots
    Settings <- MCSettings
INVARIANTS
    NothingLeftBehind
PROPERTIES
    ImplementsWait
    WaitEnds
    IncludedIsFound
CHECK_DEADLOCK FALSE
