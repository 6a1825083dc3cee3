\* The bare board: no NFC interrupt.  CHECK_DEADLOCK FALSE because the firmware
\* rests when no event is outstanding (and the bounds end the events).
CONSTANTS
    HasNfc = FALSE
    SessionInWindow = FALSE
    MaxGen = 6
    MaxFaults = 2
SPECIFICATION FairSpec
INVARIANTS
    TypeOK
    NoLostInvalidation
    FlagTruth
PROPERTIES
    InvalidationsApplied
    ResumesUnlessGivenUp
CHECK_DEADLOCK FALSE
