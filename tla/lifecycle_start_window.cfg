\* An NFC field while the first payload is being applied.
CONSTANTS
    HasNfc = TRUE
    SessionInWindow = FALSE
    MaxGen = 2
    MaxFaults = 0
SPECIFICATION FairSpec
PROPERTY InvalidationsApplied
CHECK_DEADLOCK FALSE
