\* One write, a restart, and a boot that cannot read the entry.
CONSTANTS
    N = 2
    Part = {p}
    NoPart = NoPart
    Qty = {0}
    SeqMod = 3
SPECIFICATION Spec
INVARIANT StoredTableServed
