SPECIFICATION IpcSpec
CONSTANTS
    ALL = 7
    IPC_VECTOR_MAX_SIZE = 2
    MaxExits = 1
INVARIANTS
    ArrivesAsSent
    SuccessIsDone
    AnswerFits
PROPERTY
    CallsReturn
