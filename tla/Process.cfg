\* Queue: two sleepers can be released while a third goroutine takes an item.
\* Dispatcher: both pools and both queues fill up, and an event job can block on
\* a push pool that is full.  Wait: an id can be registered again while the
\* answer to its first registration is on its way; three channels are in use at
\* most.  Boot: two servers migrate one database, one of them is killed once.
CONSTANTS
    Consumers = {c1, c2, c3}
    MaxPush = 3
    event = event
    push = push
    Pools = {event, push}
    Size <- Sizes
    Feeds <- Acyclic
    Jobs = {j1, j2, j3, j4}
    NoJob = NoJob
    Waiters = {w1, w2}
    Triggers = {t1, t2}
    Ids = {i1, i2}
    Chans = {h1, h2, h3}
    NoChan = NoChan
    NoValue = NoValue
    Routines = {"r1", "r2"}
    Listeners = {"l1", "l2", "l3"}
    Contexts = {"k1", "k2", "k3"}
    Depth = 2
    Servers = {"s1", "s2"}
    Modules <- TwoModules
    Files <- SomeFiles
    MaxKills = 1
SPECIFICATION AllSpec
\* A behaviour ends when all jobs are done, or all servers have stopped.
CHECK_DEADLOCK FALSE
INVARIANTS
    QueueSound
    JobsSound
    AnswersSound
    ContextSound
    BootSound
PROPERTIES
    PopsReturn
    JobsFinish
    TriggerWakes
    BootEnds
