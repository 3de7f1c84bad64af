\* The instance of Messages.cfg.
CONSTANTS
    Uids = {u1, u2}
    Spaces = {s1}
    Empty = Empty
    NonString = NonString
    Missing = Missing
    MaxNotices = 2
    Callers = {c1, c2}
    MaxRequests = 2
    RichTextMaxPayloadBytes = 6
    MaxBlocks = 3
    Names <- SomeNames
    Numbers <- SomeNumbers
    HashCrc32 <- SomeChecksums
    FormatInt <- SomeDigits
    Partition = 2
    Versions <- SomeVersions
    MaxNames = 2
SPECIFICATION AllSpec
SYMMETRY Symmetry
\* A behaviour ends when all calls are answered, or the payload is stored.
CHECK_DEADLOCK FALSE
INVARIANT WhitelistSent
