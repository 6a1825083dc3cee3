\* Commands and timeouts in every overlap the threads allow; the timeouts of the
\* code, 10, 30 and 300 seconds, shrunk in their order.
\* CHECK_DEADLOCK FALSE: a dark rack rests.
CONSTANTS
    Lit = {"find", "pick", "fx"}
    FX = "fx"
    Off = "off"
    Unknown = "unknown"
    Slot = {1, 2}
    Colour = {"black", "red", "green"}
    Black = "black"
    Commands <- ClientCommands
    DefaultTimeout = 3
    MaxTimeout = 5
    FxTimeout = 2
SPECIFICATION FairSpec
INVARIANTS
    TypeOK
    PowerOnlyWhileLit
    StripShowsCommand
    LitHasOwnTimer
    ReportedIsMode
PROPERTIES
    NoEarlyOff
    LightTimesOut
CHECK_DEADLOCK FALSE
