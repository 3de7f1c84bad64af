------------------------------- MODULE Library -------------------------------
(***************************************************************************)
(* The packages of pkg/ and config/ that stand on their own: the token     *)
(* bucket and its degradation warning, decimals, UUIDs, the Redis          *)
(* connection, the observers and the configuration.  They have no state in *)
(* common; a behaviour is one of one package, its scene, while the others  *)
(* stay as they are at the start.                                          *)
(***************************************************************************)
EXTENDS DegradeLog

CONSTANTS Workers, Skew, Cost, Cap, Rate, MaxDelay, LastSecond, MaxSent, None,  \* RateLimit
          DivisionPrecision, Amounts, Scale, MaxUnits,  \* Ledger
          SeqMod, LastTick, MaxBumps, Texts,            \* Uuid
          Clients, Retries, MaxCalls, Elements,         \* RedisConn
          Users, MaxReports,                            \* Observers
          IntranetIP                                    \* Settings

VARIABLES scene,
          redisClock, tokens, ts, expireAt, sent, sentAt, requests, admitted, denied, seen, promise,
          balance, exact,
          wallClock, lastTime, clockSequence, bumps, issued, v1, text, parsed,
          counter, cell, source, destination, call, calls, replies, taken,
          mutex, registered, hooks, user, observer, made, samples, status,
          file, environ, config, configured

T == INSTANCE RateLimit WITH clock <- redisClock, calls <- requests,
                             MaxTime <- LastSecond, MaxCalls <- MaxSent
L == INSTANCE Ledger
U == INSTANCE Uuid
R == INSTANCE RedisConn
O == INSTANCE Observers
S == INSTANCE Settings

ASSUME LibraryAssumption ==
    /\ T!RateLimitAssumption /\ L!LedgerAssumption /\ U!UuidAssumption
    /\ R!RedisConnAssumption /\ O!ObserversAssumption /\ S!SettingsAssumption

limitVars == <<redisClock, tokens, ts, expireAt, sent, sentAt, requests, admitted, denied, seen, promise>>
sumVars   == <<balance, exact>>
uuidVars  == <<wallClock, lastTime, clockSequence, bumps, issued, v1, text, parsed>>
connVars  == <<counter, cell, source, destination, call, calls, replies, taken>>
obsVars   == <<mutex, registered, hooks, user, observer, made, samples, status>>
setVars   == <<file, environ, config, configured>>

AllInit ==
    /\ scene \in {"warning", "bucket", "decimal", "uuid", "redis", "observers", "settings"}
    /\ Init /\ T!Init /\ L!Init /\ U!Init /\ R!Init /\ O!Init
    /\ scene # "uuid" => clockSequence = 0
    /\ IF scene = "settings" THEN S!Init
       ELSE file = S!EmptyFile /\ environ = S!Bare /\ config = S!New /\ configured = 0

AllNext ==
    /\ UNCHANGED scene
    /\ \/ scene = "warning" /\ Next /\ UNCHANGED <<limitVars, sumVars, uuidVars, connVars, obsVars, setVars>>
       \/ scene = "bucket" /\ T!Next /\ UNCHANGED <<vars, sumVars, uuidVars, connVars, obsVars, setVars>>
       \/ scene = "decimal" /\ L!Next /\ UNCHANGED <<vars, limitVars, uuidVars, connVars, obsVars, setVars>>
       \/ scene = "uuid" /\ U!Next /\ UNCHANGED <<vars, limitVars, sumVars, connVars, obsVars, setVars>>
       \/ scene = "redis" /\ R!Next /\ UNCHANGED <<vars, limitVars, sumVars, uuidVars, obsVars, setVars>>
       \/ scene = "observers" /\ O!Next /\ UNCHANGED <<vars, limitVars, sumVars, uuidVars, connVars, setVars>>
       \/ scene = "settings" /\ S!Next /\ UNCHANGED <<vars, limitVars, sumVars, uuidVars, connVars, obsVars>>

AllVars == <<scene, vars, limitVars, sumVars, uuidVars, connVars, obsVars, setVars>>

AllSpec == AllInit /\ [][AllNext]_AllVars

-----------------------------------------------------------------------------
(* Properties: NotSilenced, WarnsSpaced, and what each of the other        *)
(* packages promises, from the properties it states.                       *)

\* The script's (rps, burst): never more is admitted than the burst and what
\* the rate yields.
QuotaBound == T!QuotaBound
\* The lazily filled bucket in Redis cannot be told from the bucket on paper, and
\* a client that waits as long as retry_after says is admitted.
BucketIdeal == T!ImplementsIdeal /\ T!RetryHonest

\* Add, Sub, Neg, Shift and Scan: no sequence of them loses or gains anything.
Exact == L!Exact
\* Round, RoundBank, RoundCash, DivRound and the floats go to the nearest
\* multiple and know their ties; QuoRem, Floor, Ceil, Truncate and Mod agree; Avg
\* and Pow are what they say; String and NewFromString are inverse.
DecimalsRight ==
    scene = "decimal" =>
        /\ L!Rounds /\ L!Divides /\ L!Integral /\ L!TextFaithful
        /\ L!CashNearest /\ L!FloatsNearest /\ L!ListsAndPowers

\* RoundCash's comment on interval 15: the nearest multiple of ten cents.
CashFifteen == scene = "decimal" => L!CashFifteen

\* NewV1: no UUID is issued twice before the clock sequence has gone round.
V1Unique == U!V1Unique
\* FromString reads the three documented forms, and of all other texts just one
\* that is not documented: the braced form without its closing brace.
ReadsForms == U!ReadsForms

\* FromStringOrNil's comment: an error gives a Nil UUID, never a panic.
NoPanic == U!NoPanic

\* Incr, BRPoplpush and Lpop under repetition: successful Incrs return different
\* numbers, the counter is between the successful calls and all repetitions, and
\* no element is handed out twice or lost but by an Lpop whose reply was lost.
RepeatsBounded == R!IncrDistinct /\ R!IncrBounded /\ R!ElementsKept

\* Instrument and pipelineErr: every call is counted exactly once, and a sample
\* says "failed" exactly when something failed.
ReportsTrue == O!CountedOnce /\ O!StatusTrue

\* ConfigureWithViper: configuring again changes nothing; whatever the file leaves
\* out, every address can be used and the welcome has the application's name; the
\* application's credentials come before the host's and these before the file's,
\* field by field; and what the file switches off is off.
ConfigSound ==
    /\ S!ConfigureTwice /\ S!AddressesUsable /\ S!WelcomeNamed
    /\ S!CredentialsRanked /\ S!FileDecides
=============================================================================
