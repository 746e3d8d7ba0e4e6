\* Up to two bytes are lost or typed.  After two the host and the BIOS may lose
\* step and the host may stop early: the BIOS then waits for a next frame
\* forever, which is the deadlock that is not reported.
SPECIFICATION FairSpec
CONSTANTS
    Magic <- MCMagic
    CancelKeys = {9}
    OtherKeys = {8}
    Programs <- MCPrograms
    MAX_FAILURES = 3
    MaxLength = 3
    MaxFaults = 2
INVARIANTS
    AckExact
    JumpWholeImage
    GivesUpOnStreak
PROPERTIES
    EveryFrameAnswered
    Finishes
CHECK_DEADLOCK FALSE
