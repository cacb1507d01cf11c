SPECIFICATION FairSpec
CONSTANTS
    c1 = c1
    c2 = c2
    q1 = q1
    q2 = q2
    s1 = s1
    s2 = s2
    s3 = s3
    Calls <- MCCalls
    Queries = {q1, q2}
    QueryOf <- OwnQuery
    Sockets = {s1, s2, s3}
    NoCall = NoCall
    NoSocket = NoSocket
    Settings <- MCSettings
INVARIANTS
    SocketsAreKept
    AwaitedIsDue
PROPERTIES
    HandlesAreServed
    EveryCallSettles
    DroppedIsRestored
CHECK_DEADLOCK FALSE
