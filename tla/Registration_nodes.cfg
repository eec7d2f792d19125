SPECIFICATION Spec
CONSTANTS
    Devices = {d1, d2}
    Changing = {d1}
    NoDev = NoDev
    MaxPath = 2
    MaxCalls = 3
    MaxExits = 1
    MaxDeaths = 1
INVARIANTS
    TypeOK
    SteadyHasNode
    PathIsOwn
    OwnAnswer
PROPERTY
    CallIsAnswered
CHECK_DEADLOCK FALSE
