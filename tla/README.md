# A TLA+ specification of octo-lib

octo-lib is the library under the octo IM services: locks, queues and pools,
sequence numbers, rate limiting, the HTTP layer, the client of the IM server and
the contract of the search pipeline.  This directory holds TLA+ models of its
components, the TLC runs that check them on small instances and TLAPS proofs of
what matters most for every instance.  Paths below are relative to the root of
the repository.

## The system

| component | state | operations | interacts with |
|---|---|---|---|
| key lock, `pkg/keylock` | map key -> counted mutex, map mutex, stop channel | Lock, Unlock, Clean, StartCleanLoop, StopCleanLoop | its callers' goroutines, a ticker |
| sequence numbers, `config/seq.go` | `seqMap` per process, table `seq` | GenSeq | MySQL, other processes |
| token bucket, `pkg/wkhttp/ratelimit.go` | a Redis hash (tokens, ts) per key | allow | Redis, clocks of the processes, HTTP middlewares |
| degradation warning, same file | `lastDegradeWarn` | logDegrade | all requests of a limiter |
| queue, `pkg/pool/queue.go` | buffer, closed, condition variable | Push, Close, Pop, TryPop, Wait, Len | producers and consumers |
| dispatcher, `pkg/pool/dispatcher.go` | channel Work, worker pool | StartDispatcher, loopPop | `config.Context` (events, pushes, robot events) |
| wait registry, `pkg/wait` | map id -> channel | Register, Trigger, IsRegistered | waiting and answering goroutines |
| visibility, `contract/searchmsg` | none | ExtractVisibility | search indexer, dead letter queue, reader |
| group notices, `config/msg_group.go` | none | twelve senders | IM server, search pipeline |
| IM client, `config/msg*.go`, `config/stream.go`, `pkg/network` | none | one HTTP call each | IM server |
| context, `config/context.go` | lazily created connections, listener registries, pools | New..., Add...Listener, Notify... | everything |
| HTTP layer, `pkg/wkhttp` | pooled contexts, injected parser and renderer | middlewares, AuthMiddleware | cache, gin |
| cache, `common/cache.go` | map, or Redis | Set, SetAndExpire, Get, Delete | AuthMiddleware |
| modules and server, `module`, `pkg/register`, `server` | module list, migrations on record, listener | Setup, Start, Stop | MySQL, other servers, HTTP routes |
| Redis connection, `pkg/redis/redis.go` | none of its own | one command each, repeated by the client | Redis |
| instrumentation, `pkg/redis`, `pkg/db` | observer pointer, set of wrapped clients | Instrument, Set...Observer | every command |
| configuration, `config/config.go` | `Config` | New, ConfigureWithViper | file, environment, everything |
| rich text, `common/richtext.go` | none | validate, write plain, display | clients, IM server |
| names, `common/msg.go`, `config/config.go` | none | channel ids, object keys | IM server, file service |
| decimals, UUIDs, `pkg/util` | UUID clock and clock sequence | arithmetic, NewV1, parsing | wall clock |
| other utilities, `pkg/util` | none | pure functions | |

What is hard to test here is concurrency inside a process (key lock, queue,
dispatcher, wait registry, warning, pooled contexts), several processes on shared
storage with clocks of their own (sequence numbers, token bucket), failure in the
middle (database writes, Redis replies, a module that does not start, an answer of
the IM server that is lost), data that is damaged between two services
(visibility), and arithmetic at its edges (decimals, UUID texts).  PROJECT.json lists these
hazards with their lines, and with the properties that would catch each.

What makes each component correct:

* key lock: one goroutine at a time per key, whatever Clean does; every Lock and
  Unlock returns; idle entries go away;
* sequence numbers: no number twice, increasing per flag, across restarts;
* token bucket: never more than burst + rps * time, and honest Retry-After;
* warning: at most one per interval, and no long silence while calls fail;
* queue: first in, first out, no lost wake-up, Close releases everybody;
* dispatcher: every job runs once, within the limit;
* wait registry: each answer reaches the registration it was given for, and
  Trigger does not panic or block after it has given the lock up;
* visibility: a notice for some is never found by others, and ordinary messages
  are not refused;
* HTTP layer: nothing runs behind a refused request, each is answered once, and who
  is served has a session and is counted in its own buckets;
* context: one connection however many ask first, each listener called once per
  notification, no handler with another request's Context;
* server: no route or task before the schema is there, migrations in order and none
  twice, even if several servers start at once or are killed;
* IM client: success is reported only for what the server has done;
* rich text: what is stored fits, and what is shown is what was written;
* names: a name leads to what it was made from, and to nothing else;
* Redis connection and instrumentation: what a repeated command can do is bounded,
  and every call is reported once;
* decimals and UUIDs: sums are exact, rounding is to the nearest, no UUID twice;
* configuration: the file decides over defaults, the environment where it is meant
  to, and the result is usable.

## Modules

**KeyLock** (refines **KeyMutex**).  `locks` is the map, `count` and `locked` the
inner locks, which are heap objects that `newInnerLock` takes fresh.  A call is
split where the code gives the map mutex up: Lock is `LockCall`, `Lookup` (find or
create, `add`), `Acquire`; Unlock is `UnlockCall`, `UnlockLookup`, `Done`,
`Release`.  The clean loop is `Tick` or `LoopExit`, then `CleanLock`, one
`CleanEntry` per entry and `CleanUnlock`.  KeyMutex knows only who wants and who
has which key.

**SeqAllocator**.  Processes (`Instances`) with the window `cur`, `max` of each
flag they have cached, and the table `row`.  GenSeq stops at each statement:
`QueryFails`, `QueryNoRow`, `QueryRow`, `InitRow`, `InitFails`, `Extend`,
`ExtendFails`, `Take`.  A failing write may have taken effect or not.  `Crash`
empties the map of a process.  `seqLock` is why a process has one call at a time.

**RateLimit** (refines **IdealBucket**).  A request reads its clock (`Send`) and
Redis runs the script later (`Allowed`, `Denied`, or `DenialLost` and `FailsOpen`
when allow gets no answer).  Amounts are integers in units of a fraction of a
token, where the code has floats.  IdealBucket is the bucket of the textbook:
filled continuously, one token per admission.

**DegradeLog**.  logDegrade with the clock, the load, the test and the
compare-and-swap as separate steps.

**PoolQueue**.  Each critical section is one step, `sleepers` is the notify list of
the condition variable, `woken` the goroutines released and not yet running.

**Dispatcher**.  Collectors as `config.NewContext` starts them.  `Send` blocks until
`Take`; `Submit` blocks while the pool is full; a running job may send to another
collector (`SendFrom`) and keeps its worker meanwhile.  The worker pool is the
library ants, taken as: Submit blocks until a worker is free, panics are recovered.

**Wait**.  `TriggerTakes` is the section of Trigger under the lock; `TriggerSend` and
`TriggerClose` come after it.  The 64 shards are left out: an id is always in the
same one.  `GoOn` is the waiter leaving, with its answer or without.

**Visibility** is ExtractVisibility as an operator on what the JSON decoder tells
apart, and the vectors of `visibility_vectors.go` (those with a space id are not
reached: no sender of group notices writes one).  **GroupNotice** composes it with
the senders of `msg_group.go`: a notice is stored by the IM server, may be damaged
once on its way (cut off, trailed by data, a whitelist that lost elements or its
shape, but not its key), and is indexed or dead-lettered any number of times.
Server, indexer and reader are outside the library and modelled as the comments of
the contract describe them.  Nine senders write no whitelist and differ only in
wording, so they are the same step here.

**HttpPipeline**.  A request is a record `q[r]` that moves through the chain of its
route (`Chains`): CORS, the whitelist override, the limiters (by address, a strict one by address,
by uid), AuthMiddleware, TlsHandler, the handler.  A step ends where the code reads
or writes what requests share: the buckets, the session cache, the injected token
parser and error renderer.  Between the steps there are `MaxEvents` events from
outside: login, logout, expiry, an injection, Redis failing and coming back, time for
a token.  The limiter here counts tokens only; its arithmetic is in RateLimit.
Origins and addresses are modelled by what matching and trimming tell apart (scheme,
labels of the host, wildcard; forged, mapped, zoned and blank addresses).  Both caches
are there; the one in memory ignores the expiry, as the code does.  TlsHandler answers a
plain request with a 301, which for a GET has a body and is on its way then, and does not
Abort: the handler runs and writes behind it (`Redirect`, `WriteStatus`).

**ContextShared**.  `sync.Once` around the Redis connection, with a configuration that
makes the function panic; listeners copied under the lock and called outside it; the
pool of Contexts that `WKHttp` takes one from for every handler of a chain, nested by Next.

**Boot**.  A server goes through `Step`: modules built, migrations sorted and run,
routes and tasks registered, listener up, modules started in order; Stop walks the
modules.  Every step can fail - `ExecuteFails` stands for every error of executeSQL,
from a directory that cannot be read to the record that cannot be written - a server can
be killed between any two, and two servers share one database.  sql-migrate is external: its plan is a set computed from
the table once, of which the least id comes first; the statements of a migration take
effect (`Execute`, DDL commits on its own) before its id is recorded (`Record`, the
primary key of the table).

**IMClient**.  A call is made (`Call`), reaches the server or not, is applied or
refused, and its answer comes back whole, lost, replaced by a gateway's or damaged; a
request on a broken connection may arrive late.  What the caller is told is computed
by how that call judges an answer; `applied` and `inbox` keep what the server really
did beside it.
A personal message is built from a map that the builder changes in place: the map may be
new, nil, filled by a client with a space_id of its own, or the one of an earlier send
(`Maps`).  The Setting byte is a bit set.  An answer to IMStreamStart with an empty
stream_no is a success with no number (0), as in `config/stream.go:30`.

**RichText** follows a payload from its receipt to its display, **ChannelIds** the
names of channels and stored objects.  A name is a sequence of pieces, and whatever a
format writes (`@`, `|`, `/`, `_cover`, a number) is a piece of its own wherever it occurs,
so that Split cuts and keys collide as the strings do: community "X_cover" has its avatar
where X has its cover, group "G/7" where G has version 7.  Checksums are a constant
function, so that collisions can be given.

**Decimal** is the arithmetic as operators, **Ledger** the state machine that keeps a
balance with it beside the exact integer.  **Uuid** is getStorage and NewV1 with a
clock that is set back, and UnmarshalText as a function of the text.

**RedisConn** takes the commands by what a repetition does: the client repeats after a
lost reply, so Incr may count more than it was called and a Lpop may lose an element.
**Observers** is Instrument under its mutex and the hooks that report to an observer
which can be missing or panic.

**Settings** computes the configuration from every mixture of file and environment,
one field for each rule of its own and one for each way of reading the others (a text and
a duration of the cache section, a number and a flag of the short numbers, a flag of the
pushes).

**Process**, **Messages** and **Library** put the parts together that run in one
process, that a message meets, and that stand on their own.  The parts of one of these
share no state, so interleaving them would only multiply states: a behaviour is one of
one part, its `scene`, and the others stay at their start.  Parts that do interact are
composed in one module instead (cache, limiter, authentication and server in
HttpPipeline; senders, server, indexer and reader in GroupNotice).

The MC modules give constants their values.  Definitions named
`X_Something` before a definition `X` are faults: what X would be with a plausible
mistake.  No specification uses them; each property is violated by at least one
when it takes the place of X, and PROJECT.json says which.

## Runs

| run | shows | instance |
|---|---|---|
| keylock | IInv: Clean never removes an entry in use, the counter is exact, no inner mutex is unlocked by a stranger or left locked; MutualExclusion; Implements: KeyMutex; CallsReturn: Lock and Unlock return, StopCleanLoop ends the loop; IdleReclaimed | 2 goroutines, 1 key, a clean loop |
| seq_own | Increasing; SInv: the row covers all windows, across failures and crashes, if no flag is shared | 2 processes, 3 windows each |
| seq_shared | **violation** of Unique: two processes with one flag hand out the same number | 2 processes, 1 flag |
| http | RefusedStops: a refused request does not reach its handler, but for a redirected one; OneAnswer: one answer, with the headers that explain it, and a redirected GET keeps its 301; NoSessionNoEntry; OwnBuckets: who is served was counted under its own address and uid; CrossOrigin: credentials only for listed origins; Answered | 2 requests of eight shapes, 1 session, burst 1, 2 events |
| http_redirect | **violation** of RedirectStops: a request redirected to HTTPS is handled all the same | plain requests only |
| process | QueueSound, PopsReturn: FIFO, no lost wake-up, items delivered, Close releases all | 3 consumers, 3 items |
| | JobsSound, JobsFinish: every job in one place and within the limit, all end | 4 jobs, pools of 1 and 2 |
| | AnswersSound, TriggerWakes: sends after the lock are safe, answers reach their registration | 2 waiters, 2 triggers, 2 ids, 3 channels |
| | ContextSound: one connection, listeners called once, Contexts not shared | 2 goroutines, 3 listeners, 3 Contexts, depth 2 |
| | BootSound, BootEnds: schema before service, migrations in order, an honest Stop; start-up ends | 2 servers, 2 modules, 3 migrations, 1 kill |
| messages | NoLeak, ContractKept: nobody finds a notice meant for others, only damaged or empty ones are dead-lettered, the shared vectors hold | 2 users, 2 notices |
| | AnswersTrue, RequestsAsMeant: success means applied, streams belong to who opened them; a personal message has the space of its own send whatever is in the map, a Setting survives its byte | 2 callers, 2 calls |
| | RichTextSound: what is stored is bounded and is shown as written | 3 blocks, limit 6 |
| | NamesLeadBack: a name leads back to what it was made of, and nothing else has it, as far as the names hold no separators of their own | 2 names of a kind, of 5 uids and 4 numbers with separators; colliding checksums |
| group_notice_whitelist | **violation** of WhitelistSent: a directed notice leaves with an empty whitelist | same |
| library | NotSilenced, WarnsSpaced: warnings are an interval apart and silence is explained | 3 goroutines, interval 2 |
| | QuotaBound, BucketIdeal: the script is the ideal bucket while requests do not overtake, Retry-After included | 12 s, expiry 6 s, 7 calls |
| | Exact, DecimalsRight: sums lose nothing; rounding, division, texts and floats as documented | 5 amounts of 3 scales within 5 units |
| | V1Unique, ReadsForms: no UUID twice; the three documented forms are read and, of all others, only the braced one without its closing brace | clock sequence of 2 values; texts cut and changed in every place |
| | RepeatsBounded: what a repeated command can do | 2 clients, 2 calls, 2 retries |
| | ReportsTrue: every call reported once, and truthfully | 2 users, 3 reports |
| | ConfigSound: usable, repeatable, each credential from the most specific source that gives it, the file decides | all mixtures of file and environment |
| ratelimit_reordered | **violation** of QuotaBound: scripts run in another order than clocks were read | 2 requests under way |
| cash | **violation** of CashFifteen: RoundCash(15) changes multiples of ten cents | the library instance |
| uuid_text | **violation** of NoPanic: a short text with the URN prefix makes the parser panic | the library instance |

A property of Process, Messages and Library is a conjunction of the properties its part
states in its own module, with the part's type invariant; the comments there say what
each conjunct is about.

The six violations are places where a comment promises more than the code does.

* `config/seq.go:20` calls GenSeq safe for concurrent use; the mutex covers one
  process, and the upsert is unconditional.
* `pkg/wkhttp/ratelimit.go:77` speaks of one global quota for all instances; the
  script stores the caller's `now` even when a later one is stored, so reordered
  requests are credited the same time twice.  Processes with different clocks have
  the same effect (set `Skew` in MCRateLimit to values apart).
* `contract/searchmsg/visibility.go:38` says directed notices are sent with a
  non-empty list; two of the three senders do not check.  The consequence is a
  notice in the dead letter queue, not a leak: NoLeak holds.
* `server/server.go:127` says "do not continue" after the redirect; TlsHandler
  returns without Abort, and gin goes on with the handler, whose answer comes behind
  the 301 and its body.
* `pkg/util/decimal.go:724` promises 3.45 -> 3.40 for interval 15; the code has `^`,
  which is exclusive or in Go, where a power is meant.
* `pkg/util/uuid.go:371` promises Nil on error; UnmarshalText checks the length before
  it takes the prefix off, and then indexes an empty slice.

### Bounds

Bounds are named constants (`MaxPush`, `MaxTime`, `MaxCalls`, `SeqLimit`, `MaxNotices`,
`MaxEvents`, `MaxKills`, `MaxRequests`, `MaxBlocks`, `MaxNames`, `MaxUnits`,
`MaxBumps`, `MaxReports`, and the sets of goroutines, keys, jobs, inputs and texts).
They are chosen so that the cases that matter occur: an entry removed between two uses
while a goroutine is on its way to it (more goroutines and keys are covered by the
proofs); a window exhausted several times, with a crash in each; a bucket drained,
refilled and expired; a signal overtaken by another consumer; an id registered again
while its first answer is on its way; a full pool with a full queue and a blocked
sender; a session that ends, and begins again, while a request is in the middle of its
chain; a parser swapped between two requests; two servers planning the same
migrations, one killed between executing and recording; a request that arrives after
its caller was told it failed; a rich text whose plain form crosses the limit that its
content does not; a clock sequence that has gone round; a command applied three times
for one call.  The pool of inner locks is as large as what can be referred to at once,
so that a fresh one always exists; that of channels limits a run to three of them at a
time.  The clock sequence has 2^14 values in the code and 2 in the run; V1Unique asks
for uniqueness until it has gone round with the clock set back each time.

### Fairness

Goroutines that can run do (weak fairness): the steps of a request in HttpPipeline, of
a server in Boot, of a consumer, a pool, a job, a waiter that can receive and a Trigger
that has taken a channel.  Where a goroutine competes for a mutex again and again,
strong fairness stands for Go's mutexes, which hand over to a waiter that has starved
for a millisecond; in KeyLock this is `Lookup`, `Acquire`, `UnlockLookup` and
`CleanLock`, and `LoopExit` because select chooses at random among ready cases.  A
holder eventually calls Unlock.  Nobody is obliged to call Lock, to push, to send, to
register, to trigger, to make a request or to log in.

JobsFinish is checked for collectors that feed each other without a cycle.  A pool
whose jobs send to itself can fill up with workers that wait for loopPop, which
waits for a worker; the repository promises nothing about it.

## Proofs

| theorem | says |
|---|---|
| KeyLockProofs: Invariance (IInv), with TypeCorrect, Pinned, UnlockSafe, Counting; Exclusion | the safety properties of KeyLock for any goroutines, keys and clean loops |
| KeyLockProofs: Refinement | KeyLock implements KeyMutex |
| SeqAllocatorProofs: Invariance (SInv), MonotoneNumbers, DurableReservation | numbers increase and windows are covered, if no two processes share a flag |
| ProcessProofs: QueueIsSound, JobsAreSound, AnswersAreSound, ContextIsSound, BootIsSound | the invariants of the run process, for any goroutines, items, jobs, pools, ids, channels, listeners, Contexts, servers, modules and migrations |
| HttpPipelineProofs: HttpInvariant, with TypeIsCorrect, AnswersOnce, OnlySessionsEnter, OriginsAreListed | the invariants of the run http, for any requests, inputs, sessions, whitelist and burst |
| HttpPipelineProofs: CountedInOwnBuckets | OwnBuckets, behind proxies that tell the address they saw |
| HttpPipelineProofs: RefusedNeverHandled | RefusedStops: the redirect to HTTPS is the only answer behind which a request is handled |
| MessagesProofs: Confidential | NoLeak, for any users and notices |
| MessagesProofs: AnswersAreTrue, RequestsAreMeant, ContractIsKept, NamesAreUnique | the invariants of the run messages, for any callers, calls, users, spaces, names and checksums |
| MessagesProofs: StoredWasMeasured, RichTextIsSound | what is stored and shown of a rich text of any length |
| LibraryProofs: Audible, Throttled | no silence of the warning, and no two within an interval, for any goroutines |
| LibraryProofs: QuotaIsBounded, BucketIsIdeal, OneIsInOrder | the bucket, for any workers, rate, burst and clocks, while scripts do not overtake each other |
| LibraryProofs: RepeatsAreBounded | RepeatsBounded for any clients, calls, retries and elements |
| LibraryProofs: UuidsAreUnique, ReportsAreTrue | V1Unique for a clock sequence of any width; ReportsTrue for any goroutines |
| DecimalProofs: SumsAreExact, DecimalsAreRight | Exact and DecimalsRight for amounts of any size and scale and any division precision from two digits on |
| ReadingProofs: ReadsTheForms | ReadsForms, the documented forms and the one without its closing brace, for texts of any length |
| ReadingProofs: ConfigurationIsSound | ConfigSound for a host with any address |

Most invariants are not inductive as they stand.  What had to be added says what each
proof is about; every added invariant was an invariant of a run first.

*KeyLock.*  Mutual exclusion is not inductive: it holds because the goroutines of a
key refer to one inner lock.  The invariant `IInv` adds that references are valid
(`RefsValid`), that the entry of a key is the lock its waiters and its holder refer
to (`EntryPinned`), that a locked inner lock has one holder, and that the counter of
an entry is the number of goroutines between `add` and `done` (`CountExact`).
`CleanEntry` sees a zero counter, hence no such goroutine (`CleanedIsUnused`), hence
nothing it removes was referred to.  Goroutines are finite in number; nothing else
is assumed.

*SeqAllocator.*  `SInv` adds to the properties where in GenSeq a call can be
(`AtValid`).  A window lies between the numbers handed out and the row
(`WindowOwned`); `Extend` writes before it widens the window, so a failed or
ambiguous write leaves numbers unused and never used twice.  The assumption
`NoSharing` is needed: seq_shared shows what happens without it.

*DegradeLog.*  `DInv` says what a call knows: after its load it still sees the
current `lastDegradeWarn`, or a warning was printed since it began.

*GroupNotice.*  `GInv` adds that the uids of a sent whitelist are meant to see the
notice, that damage never adds a uid and never removes the key (`Honest`), and that
documents belong to stored messages.  ContractIsKept reuses it: a dead-lettered notice
was damaged or had nobody on its list, and `VectorsAgree` goes through the shared
vectors one by one.

*Process.*  The parts share no state, so each has its own invariant and the steps of
the others leave it alone.  Queue: `Notified` describes the notify list of the condition
variable (who is listed sleeps, is listed once, and who was released is about to test
again); NoLostWakeup then survives Signal, Broadcast and consumers that overtake.
Dispatcher: `AtHome` and `Senders` say that a queued job is at its own pool and that the
job that sends it stands still meanwhile.  Wait: `Registered` says that a channel in the
map is open, empty, in no Trigger's hand and there for one id, which is why the send
after the lock cannot block and the close cannot panic.  Context: `OnceInv` follows
`sync.Once` through a panic, `ListenInv` the copy of the listeners.  Boot: `Migrating`
says that a migration a server does not plan is recorded already; two servers with
plans of different age still record in the order of ids because each takes its least
one.  Assumed: no two modules have a migration of the same id, the primary key of the
table.

*HttpPipeline.*  `HttpInv` says for a request, at whatever layer it is, how far each
promise is kept there: what was written, a redirect included (`Answer`, `AfterTls`), which headers stand (`Headers`,
`Corrected`), whom it was counted for (`Counted`: exactly the limiters passed that
apply to it and did not fail open), and that a token whose session ended before the
request arrived is stopped at the parser (`Entered`).  Every layer is one lemma over the
record of the request.  `ProxyTold` is the condition of CountedInOwnBuckets: an address
can only be right if whoever stands in front reports it; that ClientIP picks the right
one of the forms a proxy writes is checked by TLC on the inputs of the run.

*IM client.*  `IMInv` follows a call: an answer of status 200 comes from an execution
(`Done`), every executed request is reported or still waited for (`Accounted`), and a
request says what its sender meant from the moment it is made (`Meant`), because both
branches of the builder leave the same map whatever space_id it held before.

*Names.*  A name joined of two parts that hold no separator has exactly one cut and is
split into them; if either part holds one there are never two pieces, and the id itself is
returned (`SplitJoined`).  Two ids are equal only if their parts are (`SameParts`): were
the joining "@" in different places, a part would be the "ht" of a visitor (`NoLonger`).
Keys are compared by number and tail (`PathAndTail`, `KeyFromTail`).  Assumed
(`ChannelIdsAssumption`): a uid contains no "@" but that of "@ht" at its end, which is
how IsVisitorChannel tells visitors; and %d writes different numbers differently.  Not
demanded, for the code does not give it: one channel for two users with equal checksums,
a desk whose parts contain "|", different keys for numbers with "/" or "_cover" in them.

*Rich text.*  `RichInv` says that everything taken further is the payload that was
validated, with its own text in plain.  That the text of blocks none of which is blank
is not blank takes an induction over the blocks: FlattenSeq is unfolded one block at a
time (`OneMore`, `FlattenOnes`), and a text that is built so keeps the first character
that is not blank (`TextIsBuilt`).

*Token bucket.*  The quota is not inductive, for tokens can be gained by forgetting.
`TInv` bounds what was taken together with what is left by what flowed in until the
stored time, and says that the key outlives its refill: ttl is twice the time to fill
the bucket, so a key that is gone would have been full for any request that is late by
less than that time (`Close`).  The refinement maps the level to what lazy filling
would find at the time of the last run.  Both need scripts to run in the order of the
clocks they carry (`InOrder`); OneIsInOrder shows that one worker does so, and
ratelimit_reordered what two may do.

*UUIDs.*  `UInv`: a UUID whose clock sequence is still current is not later than the
last time, and clock sequences differ by the bumps in between up to whole rounds; two
equal UUIDs are then a multiple of the modulus apart.

*Redis connection.*  `RInv`.  The bound on the counter is not inductive, for calls under
way can still count: `Attempts` is the set of the executions of Incr that may come, a
pair of client and attempt each, and the counter together with its size stays within
what the calls allow.  An execution takes one pair away, a loss none or one, a new call
adds MaxRetries + 1.  `Given` are the values on their way to a client or received; a
number is given once because the counter has moved on (`NumbersInv`), an element
because it has left the source (`ElementsInv`).  Assumed: the elements of the list are
told apart.

*Observers.*  `OInv`: who found the client bare holds the mutex until its hook is in
place, so whoever is ready uses exactly one layer.

*Decimals.*  `EInv` is that the balance is a multiple of 10^-Scale and equal to the
exact value.  The argument is one lemma per operation over `Units`, the number of
10^-Scale a decimal stands for: rescaling to a smaller exponent loses nothing
(`RescaleDown`), so Add, Sub and Cmp are those of the exact values (`UnitsOfSum`,
`CmpUnits`); TrimZeros takes off zeros only, so a text is read back as it was written
(`UnitsOfScan`).  `OneDigitMore` and `RoundIs` split a number into whole steps and the
part of one that Round decides by, `QuoRemIs` and `DivRoundIs` put dividend and divisor
over a common unit; Mod, RoundCash and Avg are these two again (`DivByWhole`).  Powers
of ten, five and two are recursive functions.  That such a function exists, and hence
meets its equation, is proved from its finite tables (`PowersExist`); the inductions are
about a set and its least missing number (`Induct`), for the library's induction rules
take an operator and cannot be used.  Assumed (`LedgerAssumption`): Div keeps at least
two digits, 16 in the code, without which a cent could not be divided into coins; the
amounts are multiples of 10^-(Scale - 2), and Scale can be as large as one likes.  Avg
lies within its list only for numbers with no more digits than Div keeps, which the
property says.  The properties speak of powers up to the fifth and of floats with
binary exponents from -2 to 2; the proofs do not go beyond them.

*UUID texts.*  `Regular` is that the first 36 characters are those of a printed UUID.
Every pass of the loop over its groups says which characters it has seen
(`GroupError`); what remains after the fifth decides between the forms; behind an opening brace the
parser does not insist on the closing one, which is the fourth text it reads.  The
assumption is that a text consists of the classes of characters the parser tells apart.

*Configuration.*  `SInv`: the configuration is the result of New, or of configuring it
once, for configuring again changes nothing.  Each section writes fields of its own
(`OnlyIn`) and reads what earlier ones wrote; that a default is not applied to its own
result is shown section by section.  Files and environments are the sets of the model,
over whose values the proof quantifies.  Assumed (`SettingsAssumption`): the host has an
address; getIntranetIP (`config/config.go:1095`) returns an empty string otherwise, and
the URLs would have no host.

Only model-checked: all liveness (CallsReturn, IdleReclaimed, Answered, PopsReturn,
JobsFinish, TriggerWakes, BootEnds), for fairness and ENABLED are beyond the prover.
Every invariant and every action property of the runs that pass is a theorem; what a
theorem assumes beyond the run is said above (NoSharing, ProxyTold, InOrder).

## Not modelled

*Left out for good*: cryptography, checksums, markdown, logging, tracing, the task
queue and the search client (wrappers of third-party code), generated stubs, plain
structs, the wording of messages.

*Left out of a modelled part*:

* Decimal: the exponent is unbounded here and an int32 in the code, so that the panics of
  Mul, Shift and QuoRem on its overflow are not there; the errors of NewFromString (the
  texts of the model are numbers); Scan of anything but a text; the encodings of JSON,
  binary and gob.
* Uuid: versions 3, 4 and 5 (hashes and random bytes); Scan of 16 bytes, NullUUID and
  FromBytes.
* HttpPipeline: names that contain "@", which shift the fields of a session's value;
  GetLoginUID, which returns the whole "uid@name"; whether a browser accepts `*`
  together with credentials in an answer to a preflight.  TlsHandler is mounted after
  some routes and guards only the later ones: route "late" is one of these.
  CheckLoginRoleIsSuperAdmin, the same test with one role less.
* IMClient: the fields of the responses beyond what a caller's error depends on.
* RedisConn: the commands that are single calls of one of the kinds modelled;
  BuildTLSConfig, which reads files.
* Settings: fields that are read alike are stood for by one.  Left out are the
  environment overrides of the COS keys (one variable each, StringEnv as for S3) and
  Logger.LineNum.  Seen while modelling and
  not stated as properties, for nothing in the repository promises otherwise: a number
  cannot be configured to zero where the default is another; a list of "," is read as
  one element; a pair of S3 keys given by half in TS_S3_* is completed from the host's
  AWS_*, and its session token too (CredentialsRanked accepts both); URLs derived at the first ConfigureWithViper stay when it runs again with
  another file.
* ContextShared: the registry of event handlers, which the services fill.
* Misuse that the code leaves to its callers: a second StopCleanLoop (it closes a
  closed channel), Unlock of a key somebody else holds, a handler that keeps its
  pooled Context after it returned, a waiter that gives up and leaves its id in the
  wait registry.
* A database write that is applied long after its error was reported, behind a newer
  one (SeqAllocator lets it take effect at once or never), and a wall clock that is set
  back in DegradeLog (nothing is printed until it has caught up).

## Plan

Done: every invariant a passing run checks is proved for every instance.  Left are the
parts listed under *Not modelled*, of which the encodings of decimals and UUIDs for JSON
and databases would come first, and the exponent of a decimal as an int32.
