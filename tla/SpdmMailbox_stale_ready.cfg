\* Every interleaving of the requester's poll with the responder's acknowledgement.
SPECIFICATION Spec
CONSTANTS
    Byte = {0, 1}
    MaxLen = 2
    FifoDepth = 2
    PromptResponder = FALSE
    PromptRequester = TRUE
    AllocMayFail = {}
    ResetAt = {}
INVARIANTS
    ResponseIntegrity
