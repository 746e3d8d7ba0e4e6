\* The host aborts with a frame that has no payload.
SPECIFICATION FairSpec
CONSTANTS
    Magic <- MCMagic
    CancelKeys = {9}
    OtherKeys = {8}
    Programs <- MCEmptyAbort
    MAX_FAILURES = 3
    MaxLength = 3
    MaxFaults = 0
PROPERTIES
    AbortExits
