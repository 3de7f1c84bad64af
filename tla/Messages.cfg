\* Notices: two users and two notices, each of which may decay once and be
\* delivered any number of times, before and after.  IM client: two callers and
\* two calls, each of which can be lost before or after it was executed.  Rich
\* text: three blocks and a limit that plain can pass.  Names: two of a kind.
CONSTANTS
    Uids = {u1, u2}
    Spaces = {s1}
    Empty = Empty
    NonString = NonString
    Missing = Missing
    MaxNotices = 2
    Callers = {c1, c2}
    MaxRequests = 2
    RichTextMaxPayloadBytes = 6
    MaxBlocks = 3
    Names <- SomeNames
    Numbers <- SomeNumbers
    HashCrc32 <- SomeChecksums
    FormatInt <- SomeDigits
    Partition = 2
    Versions <- SomeVersions
    MaxNames = 2
SPECIFICATION AllSpec
SYMMETRY Symmetry
\* A behaviour ends when all calls are answered, or the payload is stored.
CHECK_DEADLOCK FALSE
INVARIANTS
    NoLeak
    ContractKept
    AnswersTrue
    RequestsAsMeant
    RichTextSound
    NamesLeadBack
