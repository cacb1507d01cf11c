SPECIFICATION FairSpec
CONSTANTS
    c1 = c1
    c2 = c2
    s1 = s1
    s2 = s2
    s3 = s3
    Calls <- MCCalls
    Sockets = {s1, s2, s3}
    NoSocket = NoSocket
    Settings <- MCSettings
INVARIANTS
    HeldOnce
    UndisturbedIsServed
PROPERTIES
    EveryThreadEnds
CHECK_DEADLOCK FALSE
