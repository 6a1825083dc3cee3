\* Every build; a boot may take four seconds.
CONSTANTS
    Readings <- EdgeReadings
    NoReading = NoReading
    Cause = {"power_on", "pin", "watchdog", "debug"}
    BootLimit = 4
SPECIFICATION FairSpec
INVARIANTS
    TypeOK
    ShownLevelIsTrue
    ReasonNamesLastReset
PROPERTIES
    WatchdogSparesTheLiving
    FatalGetsReset
