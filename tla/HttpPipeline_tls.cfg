\* Clients that have not been redirected to HTTPS yet.
CONSTANTS
    Requests = {r1, r2}
    Inputs <- PlainInputs
    Whitelist <- Listed
    Tokens = {"t1"}
    Entries <- SomeEntries
    Burst = 1
    MaxEvents = 2
SPECIFICATION Spec
\* Both requests may be answered and no event left.
CHECK_DEADLOCK FALSE
INVARIANT RedirectStops
