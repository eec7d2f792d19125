SPECIFICATION FairSpec
CONSTANTS
    Devices = {d1, d2}
    NoDevice = NoDevice
    Callers = {c1}
    Serial = FALSE
    MaxOpens = 1
    MaxCount = 1
    MaxReplies = 1
PROPERTY CloseFinishes
CHECK_DEADLOCK FALSE
