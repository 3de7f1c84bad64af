----------------------------- MODULE RateLimit ------------------------------
(***************************************************************************)
(* pkg/wkhttp/ratelimit.go: one key of a keyedLimiter.  A request reads    *)
(* the clock of its own process, and Redis then runs the token bucket      *)
(* script with that time, atomically but some time later.  The script      *)
(* fills the bucket lazily, writes nothing when it denies, and lets the    *)
(* key expire; allow falls open when Redis fails.                          *)
(*                                                                         *)
(* Amounts are integers in units (the code uses floats): a token is Cost   *)
(* units, the burst Cap = burst * Cost, and Rate units flow in per second. *)
(***************************************************************************)
EXTENDS Integers, FiniteSetsExt

CONSTANTS Workers,   \* goroutines that call allow, one request each at a time
          Skew,      \* Skew[w]: how far the clock of w's process is off
          Cost, Cap, Rate,
          MaxDelay,  \* longest time between reading the clock and the answer
          MaxTime,   \* bound of the model: the clock stops here
          MaxCalls,  \* bound of the model: requests in all
          None       \* no request under way, a hash field that is nil

\* newKeyedLimiter panics unless rps > 0 and burst > 0.
RateLimitAssumption ==
    /\ Cost \in Nat \ {0} /\ Rate \in Nat \ {0}
    /\ Cap \in Nat /\ Cap >= Cost
    /\ Skew \in [Workers -> Nat]
    /\ MaxDelay \in Nat /\ MaxTime \in Nat /\ MaxCalls \in Nat
    /\ None \notin Int

VARIABLES
    clock,     \* time at the Redis server
    tokens,    \* hash field tokens, or None
    ts,        \* hash field ts, or None
    expireAt,  \* when the key expires
    sent,      \* sent[w]: the `now` of the request of w, or None
    sentAt,    \* sentAt[w]: when it was read, on the clock of the server
    calls,     \* requests so far
    admitted,  \* script runs that took a token
    denied,    \* script runs that found none
    seen,      \* `now` of the last script run
    promise    \* earliest retry time given since the last admission, or None

redisVars == <<tokens, ts, expireAt>>
vars == <<clock, redisVars, sent, sentAt, calls, admitted, denied, seen, promise>>

CeilDiv(a, b) == (a + b - 1) \div b

\* The types of the variables; the bucket never holds more than burst.
TypeOK ==
    /\ clock \in 0 .. MaxTime
    /\ tokens \in (0 .. Cap) \cup {None}
    /\ ts \in Nat \cup {None}
    /\ expireAt \in Nat
    /\ sent \in [Workers -> Nat \cup {None}]
    /\ sentAt \in [Workers -> 0 .. MaxTime]
    /\ calls \in 0 .. MaxCalls
    /\ admitted \in Nat /\ denied \in Nat
    /\ seen \in Nat
    /\ promise \in Nat \cup {None}

Init ==
    /\ clock = 0
    /\ tokens = None /\ ts = None /\ expireAt = 0
    /\ sent = [w \in Workers |-> None]
    /\ sentAt = [w \in Workers |-> 0]
    /\ calls = 0 /\ admitted = 0 /\ denied = 0
    /\ seen = 0
    /\ promise = None

-----------------------------------------------------------------------------
(* The script                                                              *)

\* ttl: twice the time to fill the bucket, rounded up, at least a second.
TTL == Max({1, CeilDiv(2 * Cap, Rate)})

\* HMGET finds nothing on a key that never was or has expired.
Absent == tokens = None \/ clock >= expireAt

Stored == IF Absent THEN Cap ELSE tokens
StoredTs(now) == IF Absent THEN now ELSE ts

\* filled, before a token is taken.
Filled(now) ==
    Min({Cap, Stored + Max({0, now - StoredTs(now)}) * Rate})

\* Fault: ts is written only when the key is created.
Write_KeepsTs(amount, now) ==
    /\ tokens' = amount
    /\ ts' = StoredTs(now)
    /\ expireAt' = clock + TTL

\* HMSET and EXPIRE.
Write(amount, now) ==
    /\ tokens' = amount
    /\ ts' = now
    /\ expireAt' = clock + TTL

ScriptAllows(now) ==
    /\ Filled(now) >= Cost
    /\ Write(Filled(now) - Cost, now)

\* The deny path writes only when the key does not exist yet.
ScriptDenies(now) ==
    /\ Filled(now) < Cost
    /\ IF Absent THEN Write(Filled(now), now) ELSE UNCHANGED redisVars

\* Fault: floor instead of ceil.
RetryAfter_RoundsDown(now) == Max({1, (Cost - Filled(now)) \div Rate})

RetryAfter(now) == Max({1, CeilDiv(Cost - Filled(now), Rate)})

-----------------------------------------------------------------------------
(* allow                                                                   *)

\* allow reads time.Now and sends the script.
Send(w) ==
    /\ sent[w] = None
    /\ calls < MaxCalls
    /\ calls' = calls + 1
    /\ sent' = [sent EXCEPT ![w] = clock + Skew[w]]
    /\ sentAt' = [sentAt EXCEPT ![w] = clock]
    /\ UNCHANGED <<clock, redisVars, admitted, denied, seen, promise>>

Answered(w) == sent' = [sent EXCEPT ![w] = None] /\ sentAt' = [sentAt EXCEPT ![w] = 0]

\* The script takes a token; whether its reply arrives or is lost (fail open),
\* the request is let through and the token stays taken.
Allowed(w) ==
    /\ sent[w] # None
    /\ ScriptAllows(sent[w])
    /\ admitted' = admitted + 1
    /\ seen' = sent[w]
    /\ promise' = None
    /\ Answered(w)
    /\ UNCHANGED <<clock, calls, denied>>

Denied(w) ==
    /\ sent[w] # None
    /\ ScriptDenies(sent[w])
    /\ denied' = denied + 1
    /\ seen' = sent[w]
    /\ promise' = LET retry == sent[w] + RetryAfter(sent[w])
                  IN  IF promise = None THEN retry ELSE Min({promise, retry})
    /\ Answered(w)
    /\ UNCHANGED <<clock, calls, admitted>>

\* The script denies but its reply is lost: allow falls open, and the caller
\* is told no retry time.
DenialLost(w) ==
    /\ sent[w] # None
    /\ ScriptDenies(sent[w])
    /\ denied' = denied + 1
    /\ seen' = sent[w]
    /\ Answered(w)
    /\ UNCHANGED <<clock, calls, admitted, promise>>

\* Redis fails before it runs the script: allow falls open, no token is taken.
FailsOpen(w) ==
    /\ sent[w] # None
    /\ Answered(w)
    /\ UNCHANGED <<clock, redisVars, calls, admitted, denied, seen, promise>>

\* Time passes while no request under way is older than MaxDelay.
Tick ==
    /\ clock < MaxTime
    /\ \A w \in Workers : sent[w] # None => clock - sentAt[w] < MaxDelay
    /\ clock' = clock + 1
    /\ UNCHANGED <<redisVars, sent, sentAt, calls, admitted, denied, seen, promise>>

Next ==
    \/ \E w \in Workers : Send(w) \/ Allowed(w) \/ Denied(w) \/ DenialLost(w) \/ FailsOpen(w)
    \/ Tick

Spec == Init /\ [][Next]_vars

-----------------------------------------------------------------------------
(* Properties                                                              *)

\* (rps, burst) as a constraint: whatever the pattern of requests, the tokens
\* taken never exceed the burst plus what the rate yields in the time elapsed
\* (on the fastest of the clocks).
QuotaBound == admitted * Cost <= Cap + Rate * (clock + Max({Skew[w] : w \in Workers}))

\* Retry-After: a client that waits as long as a denial told it to is admitted,
\* unless somebody else was admitted in between.
RetryHonest == [][\A w \in Workers : Denied(w) /\ promise # None => sent[w] < promise]_vars

\* Lazy filling, the skipped write of a denial, the expiry of the key and lost
\* replies cannot be told from the bucket on paper.
Ideal == INSTANCE IdealBucket
         WITH time  <- seen,
              level <- IF tokens = None THEN Cap ELSE Min({Cap, tokens + (seen - ts) * Rate})

ImplementsIdeal == Ideal!Spec
=============================================================================
