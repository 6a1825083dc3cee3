\* A command that arrives while the timeout of the previous one is in its transfer.
CONSTANTS
    Lit = {"find", "fx"}
    FX = "fx"
    Off = "off"
    Unknown = "unknown"
    Slot = {1}
    Colour = {"black", "red", "green"}
    Black = "black"
    Commands <- OneCommand
    DefaultTimeout = 1
    MaxTimeout = 1
    FxTimeout = 1
SPECIFICATION Spec
INVARIANT LitIsPowered
CHECK_DEADLOCK FALSE
