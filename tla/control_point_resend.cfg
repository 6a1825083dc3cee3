\* The client of the retry guide: it sends INSERT_AT again whatever table_seq says.
CONSTANTS
    N = 2
    Part = {p}
    NoPart = NoPart
    Qty = {0}
    SeqMod = 4
    Careful = FALSE
    ClientCommand <- OneInsertion
    OtherCommand = {}
    MaxForeign = 0
SPECIFICATION Spec
INVARIANT RetryActsOnce
