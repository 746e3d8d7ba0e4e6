\* Both CPUs react before a stale flag is polled; no malloc fails; the SoC may
\* be reset whenever the requester is not in an exchange.
SPECIFICATION FairSpec
CONSTANTS
    Byte = {0, 1}
    MaxLen = 2
    FifoDepth = 2
    PromptResponder = TRUE
    PromptRequester = TRUE
    AllocMayFail = {}
    ResetAt = {"idle", "sendPoll", "sendSize", "sendSelect"}
INVARIANTS
    NoUnderflow
    RequestIntegrity
    ResponseIntegrity
PROPERTIES
    RequestAnswered
    ImplementsChannel
