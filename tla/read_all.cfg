\* Three slots.  A stream may be restarted at any time, but not while process is
\* handing over a frame.  CHECK_DEADLOCK FALSE: the bounds end the requests and
\* changes, and a client may stay away.
CONSTANTS
    N = 3
    RestartInNotify = FALSE
    MaxChanges = 2
    MaxErrors = 1
    MaxRequests = 2
SPECIFICATION FairSpec
INVARIANTS
    TypeOK
    PacerNeverStalls
    StreamInOrder
    SnapshotIfSeqUnchanged
    NoUnrequestedFrames
PROPERTY StreamEnds
CHECK_DEADLOCK FALSE
