SPECIFICATION Spec
CONSTANTS
    Size <- MCSize
    BiosHeap = 11
    FirmwareHeaps = {1, 2, 3, 4}
    MayFail = {"hash", "answer", "verify", "dispatch", "pointer"}
INVARIANTS
    FailureLosesNothing
    ConnectedAfterInit
    AgreedSuite
    CleanCallCompletes
PROPERTY
    CallEnds
CHECK_DEADLOCK FALSE
