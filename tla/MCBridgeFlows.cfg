SPECIFICATION FairFlowSpec
CONSTANTS
    MaxOutputs = 2
    MaxDeposits = 2
    Settings <- MCSettings
    Others <- MCOthers
INVARIANTS
    EndsAsAWhole
    ResultIsDue
PROPERTIES
    StoppedIsSilent
    ImplementsWaits
    EventIsTold
    EveryFlowEnds
CHECK_DEADLOCK FALSE
