SPECIFICATION Spec
CONSTANTS
    Sessions = {1}
    Pads = {"pad"}
    Others = {"mouse"}
    Overlap = FALSE
    Buttons = {"pad"}
    MaxReports = 5
    MaxRequests = 4
INVARIANTS
    TouchFollowsFinger
    LocalTouchStaysLocal
    ReportsInOrder
CHECK_DEADLOCK FALSE
