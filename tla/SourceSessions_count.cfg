SPECIFICATION FairSpec
CONSTANTS
    Devices = {d1, d2}
    NoDevice = NoDevice
    Callers = {c1}
    Serial = TRUE
    MaxOpens = 3
    MaxCount = 3
    MaxReplies = 1
INVARIANTS
    PreparedIsServed
    ThreadsMatchCounters
PROPERTY RepliesFinish
CHECK_DEADLOCK FALSE
