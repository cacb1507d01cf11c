SPECIFICATION FairSpec
CONSTANTS
    t1 = t1
    t2 = t2
    t3 = t3
    Txs <- MCTxs
    Settings <- MCSettings
INVARIANTS
    EndsProperly
PROPERTIES
    ImplementsWait
    MatchIsFound
CHECK_DEADLOCK FALSE
