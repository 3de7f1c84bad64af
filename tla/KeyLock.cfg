\* Two goroutines, one key and one clean loop, without symmetry (it is not
\* sound for liveness): contention, starvation, removal of an entry between two
\* uses and reclamation all happen.
CONSTANTS
    Procs = {p1, p2}
    Keys = {k1}
    Inner = {i1, i2, i3}
    Cleaners = {c1}
    NoLock = NoLock
    NoKey = NoKey
    Free = Free
SPECIFICATION FairSpec
INVARIANTS
    IInv
    MutualExclusion
PROPERTIES
    Implements
    CallsReturn
    IdleReclaimed
