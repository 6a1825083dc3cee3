\* One failed bt_le_adv_start after a disconnection.
CONSTANTS
    HasNfc = FALSE
    SessionInWindow = FALSE
    MaxGen = 3
    MaxFaults = 1
SPECIFICATION FairSpec
PROPERTY ResumesAfterDisconnect
CHECK_DEADLOCK FALSE
