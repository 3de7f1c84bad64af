\* The instance of Library.cfg.
CONSTANTS
    Procs = {p1, p2, p3}
    Interval = 2
    Start = 2
    MaxTime = 7
    Workers = {w1}
    Skew <- InStep
    Cost = 3
    Cap = 6
    Rate = 2
    MaxDelay = 2
    LastSecond = 12
    MaxSent = 7
    None = None
    DivisionPrecision = 3
    Amounts <- SomeAmounts
    Scale = 5
    MaxUnits = 500000
    SeqMod = 2
    LastTick = 3
    MaxBumps = 3
    Texts <- SomeTexts
    Clients = {c1, c2}
    Retries = 2
    MaxCalls = 2
    Elements <- FourElements
    Users = {"a1", "a2"}
    MaxReports = 3
    IntranetIP <- Address
SPECIFICATION AllSpec
SYMMETRY Symmetry
\* A behaviour ends when the bound on time, calls or bumps is reached.
CHECK_DEADLOCK FALSE
INVARIANT NoPanic
