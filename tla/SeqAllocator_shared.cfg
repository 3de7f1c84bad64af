\* Two processes that share a flag, as replicas of one service do.
CONSTANTS
    i1 = i1
    i2 = i2
    f1 = f1
    f2 = f2
    Instances = {i1, i2}
    Flags = {f1}
    Uses <- UsesShared
    FirstSeq = 0
    SeqStep = 2
    SeqLimit = 5
    NoRow = NoRow
    NoFlag = NoFlag
SPECIFICATION Spec
INVARIANT Unique
