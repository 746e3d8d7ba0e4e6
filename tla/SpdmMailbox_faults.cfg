\* Any malloc may fail, and the SoC may be reset whenever the requester is
\* not in an exchange.
SPECIFICATION Spec
CONSTANTS
    Byte = {0, 1}
    MaxLen = 2
    FifoDepth = 2
    PromptResponder = TRUE
    PromptRequester = TRUE
    AllocMayFail = {"requester", "responder"}
    ResetAt = {"idle", "sendPoll", "sendSize", "sendSelect"}
INVARIANTS
    OneMaster
    CleanStart
PROPERTIES
    ReadyFallsForRequest
