SPECIFICATION Spec
CONSTANTS
    c1 = c1
    c2 = c2
    c3 = c3
    c4 = c4
    r1 = r1
    r2 = r2
    h1 = h1
    h2 = h2
    Calls <- MCCalls
    Requests = {r1, r2}
    Heights = {h1, h2}
    NoHeight = NoHeight
    NoAnswer = NoAnswer
    NoCall = NoCall
    Settings <- MCSettings
INVARIANTS
    AnswersItsQuestion
    OneFlight
    NeverBackwards
CHECK_DEADLOCK FALSE
