SPECIFICATION FairSpec
CONSTANTS
    Peers = {p1, p2}
    Selections = {keys}
    All = All
    Forms = {"Prepare", "RelayPrepare", "Unprepare", "RelayUnprepare", "StartTypes", "StartTypesFrom", "StartDhids"}
    Lossy = FALSE
    SinkLoaded = TRUE
    Disciplined = TRUE
    MaxCalls = 3
INVARIANTS
    TypeOK
    OwnAnswer
PROPERTIES
    RefusedBesideTwinOnly
    EventuallyAnswered
CHECK_DEADLOCK FALSE
