\* The peripheral build with its NFC interrupt, in the harshest environment:
\* whole connections may fit into one advertising call.
CONSTANTS
    HasNfc = TRUE
    SessionInWindow = TRUE
    MaxGen = 7
    MaxFaults = 2
SPECIFICATION Spec
INVARIANTS
    PendingMatchesQueue
    AdvBufferExclusive
    CleanMeansFresh
PROPERTY KeepsContract
CHECK_DEADLOCK FALSE
