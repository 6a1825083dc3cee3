\* Four slots, two parts, two quantities, table_seq modulo 3 so that it wraps.
CONSTANTS
    N = 4
    Part = {p, q}
    NoPart = NoPart
    Qty = {0, 1}
    SeqMod = 3
SYMMETRY PartSymmetry
SPECIFICATION Spec
INVARIANTS
    TypeOK
    SlotsSealed
    RebootKeepsTable
    ShiftKeepsOrder
    MoveIsRotation
PROPERTIES
    SeqTellsChange
    KeepsContract
