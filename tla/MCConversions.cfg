SPECIFICATION Spec
CONSTANTS
  Requests <- MCRequests
  WasmTypes <- MCWasmTypes
  Underscored <- MCUnderscored
  Tags <- MCTags
  LowerCase <- MCLowerCase
  Rank <- MCRank
  IndexKeys <- MCIndexKeys
  SnakeCase <- MCSnakeCase
  Folded <- MCFolded
  NameWords <- MCWords
  Schemas <- MCSchemas
  Word = 8
  MaxSafe = 9
  WordBits = 3
  MaxUint256 = 9
  PageSize = 2
INVARIANTS
    ValuesAreKept
    EventsAreFound
    CallsAreMeant
    SignedIsSent
    ReadsAreTrue
CHECK_DEADLOCK FALSE
