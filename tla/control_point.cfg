\* Three slots, so that shifts, gaps and a full table occur; one part, one quantity,
\* table_seq modulo 4, so that it wraps and is ambiguous after a few changes.
CONSTANTS
    N = 3
    Part = {p}
    NoPart = NoPart
    Qty = {0}
    SeqMod = 4
    Careful = TRUE
    ClientCommand <- ClientCommands
    OtherCommand <- OtherCommands
    MaxForeign = 1
SPECIFICATION Spec
INVARIANTS
    ControlPointTypeOK
    AnswerIsTrue
    InfoOnlyAfterOk
    KnownIsCurrent
    SeqSettlesUnconfirmed
    RetryActsOnce
