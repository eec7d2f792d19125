SPECIFICATION Spec
CONSTANTS
    Origins = {o1, o2}
    Sinks = {k1}
    Resetting = {o1}
    MaxRequests = 3
    MaxLosses = 1
INVARIANTS
    AnswersComeHome
    AnswerIsTheSinks
PROPERTY
    RelayedIsAnswered
CHECK_DEADLOCK FALSE
