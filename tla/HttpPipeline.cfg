\* Two requests of eight shapes, one session, buckets of one token and two
\* events from outside: a bucket can be empty for the second request, a session
\* can end and begin again during one.
CONSTANTS
    Requests = {r1, r2}
    Inputs <- SomeInputs
    Whitelist <- Listed
    Tokens = {"t1"}
    Entries <- SomeEntries
    Burst = 1
    MaxEvents = 2
SPECIFICATION Spec
\* Both requests may be answered and no event left.
CHECK_DEADLOCK FALSE
INVARIANTS
    TypeOK
    RefusedStops
    OneAnswer
    NoSessionNoEntry
    OwnBuckets
    CrossOrigin
PROPERTY Answered
