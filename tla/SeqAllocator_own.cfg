\* Two processes with a flag of their own, failing statements and crashes.
\* SeqStep = 2 and SeqLimit = 5 let each flag go through three windows.
CONSTANTS
    i1 = i1
    i2 = i2
    f1 = f1
    f2 = f2
    Instances = {i1, i2}
    Flags = {f1, f2}
    Uses <- UsesOwn
    FirstSeq = 0
    SeqStep = 2
    SeqLimit = 5
    NoRow = NoRow
    NoFlag = NoFlag
SPECIFICATION Spec
INVARIANTS
    SInv
    Increasing
