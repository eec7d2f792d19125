SPECIFICATION Spec
CONSTANTS
    Listeners = {l1}
    Null = Null
    MaxStarts = 2
    MaxLoads = 1
    Late = FALSE
INVARIANTS
    TypeOK
    FlagIsTrue
    RemovedStaysRemoved
PROPERTIES
    CallbacksRestored
    ListenersRestored
    InitArrives
