\* Warning: three goroutines, an interval of 2 seconds and time for three
\* warnings; a goroutine can sleep through the warnings of the two others.
\* Bucket: one request under way at a time and clocks in step.  A token is 3
\* units, the burst 2 tokens, 2 units flow in per second: the bucket fills in 3
\* seconds, the key expires after 6, and retry times need rounding.  12 seconds
\* leave room for an expiry and a refill after a drained bucket.
\* Decimals: sums of amounts of three scales, within 5 units.  UUIDs: a clock
\* sequence of 2 values that can go round.  Redis: two clients, two calls of a
\* command, each repeated up to twice.
CONSTANTS
    Procs = {p1, p2, p3}
    Interval = 2
    Start = 2
    MaxTime = 7
    Workers = {w1}
    Skew <- InStep
    Cost = 3
    Cap = 6
    Rate = 2
    MaxDelay = 2
    LastSecond = 12
    MaxSent = 7
    None = None
    DivisionPrecision = 3
    Amounts <- SomeAmounts
    Scale = 5
    MaxUnits = 500000
    SeqMod = 2
    LastTick = 3
    MaxBumps = 3
    Texts <- SomeTexts
    Clients = {c1, c2}
    Retries = 2
    MaxCalls = 2
    Elements <- FourElements
    Users = {"a1", "a2"}
    MaxReports = 3
    IntranetIP <- Address
SPECIFICATION AllSpec
SYMMETRY Symmetry
\* A behaviour ends when the bound on time, calls or bumps is reached.
CHECK_DEADLOCK FALSE
INVARIANTS
    NotSilenced
    QuotaBound
    Exact
    DecimalsRight
    V1Unique
    ReadsForms
    RepeatsBounded
    ReportsTrue
    ConfigSound
PROPERTIES
    WarnsSpaced
    BucketIdeal
