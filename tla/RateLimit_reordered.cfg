\* Two requests may be under way at once, with clocks in step: their scripts can
\* run in the other order than their times were read.
CONSTANTS
    Workers = {w1, w2}
    Skew <- InStep
    Cost = 3
    Cap = 6
    Rate = 2
    MaxDelay = 2
    MaxTime = 12
    MaxCalls = 9
    None = None
SPECIFICATION Spec
\* A behaviour ends when the bounds on time and calls are reached.
CHECK_DEADLOCK FALSE
INVARIANT QuotaBound
