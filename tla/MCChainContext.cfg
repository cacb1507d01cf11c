SPECIFICATION FairSpec
CONSTANTS
    c1 = c1
    c2 = c2
    c3 = c3
    own = own
    key = key
    ctx = ctx
    ctx2 = ctx2
    NoSigner = NoSigner
    Calls <- MCCalls
    Contexts = {ctx, ctx2}
    Signers = {own, key}
    Keys = {key}
    Settings <- MCSettings
INVARIANTS
    NoMismatch
    NeverAhead
PROPERTIES
    RetryGoesThrough
CHECK_DEADLOCK FALSE
