---------------------------- MODULE LibraryProofs ----------------------------
(***************************************************************************)
(* What the packages of Library promise for every value of the constants.  *)
(* They share nothing, so each has an invariant of its own that the steps  *)
(* of the others leave alone.                                              *)
(***************************************************************************)
EXTENDS Library, SequenceTheorems, FiniteSetTheorems, TLAPS

\* Go's / and % on numbers that are not negative.
LEMMA DivMod ==
    ASSUME NEW a \in Nat, NEW b \in Nat \ {0}
    PROVE  /\ a % b \in 0 .. b - 1 /\ a \div b \in Nat
           /\ a = b * (a \div b) + (a % b)
  OBVIOUS

-----------------------------------------------------------------------------
(* Degradation warning.  The invariant relates the local variables of a    *)
(* call in flight to the shared time: a swap that wins sees the time its   *)
(* check was made against, and every warning printed is at most as late.   *)

\* Warnings carry times up to `last`, which is no later than the printing.
Stamped == (\A s \in stamps : s <= last) /\ last <= printedAt /\ printedAt <= clock

\* A call holds a time of the past; after its load it either still sees the
\* current `last`, or a warning was printed since the call began.
InFlight ==
    \A p \in Procs :
        /\ now[p] <= clock
        /\ pc[p] \in {"check", "swap"} => prev[p] <= last
        /\ pc[p] \in {"check", "swap"} => prev[p] = last \/ printedAt >= now[p]
        /\ pc[p] = "swap" => now[p] - prev[p] >= Interval

DInv == TypeOK /\ Stamped /\ InFlight /\ NotSilenced

\* Before the first call nothing was printed.
LEMMA InitDInv == Init => DInv
  BY DegradeAssumption DEF Init, DInv, TypeOK, Stamped, InFlight, NotSilenced

\* Every step of a call keeps the invariant.
LEMMA NextDInv == DInv /\ [Next]_vars => DInv'
<1> SUFFICES ASSUME DInv, [Next]_vars PROVE DInv'
  OBVIOUS
<1> USE DegradeAssumption DEF DInv, TypeOK, Stamped, InFlight, NotSilenced
<1>0. last \in Nat /\ clock \in Nat /\ printedAt \in Nat
  OBVIOUS
<1>1. ASSUME NEW p \in Procs, ReadClock(p) PROVE DInv'
  BY <1>1 DEF ReadClock
<1>2. ASSUME NEW p \in Procs, Load(p) PROVE DInv'
  BY <1>2 DEF Load
<1>3. ASSUME NEW p \in Procs, Check(p) PROVE DInv'
  <2>1. TypeOK' /\ Stamped'
    BY <1>3 DEF Check
  <2>2. CASE now[p] - prev[p] < Interval
    <3>1. printedAt > now[p] - Interval
      BY <1>3, <2>2 DEF Check
    <3>. QED BY <1>3, <2>1, <2>2, <3>1 DEF Check
  <2>3. CASE ~(now[p] - prev[p] < Interval)
    BY <1>3, <2>1, <2>3 DEF Check
  <2>. QED BY <2>2, <2>3
<1>4. ASSUME NEW p \in Procs, SwapWins(p) PROVE DInv'
  <2>1. TypeOK'
    <3>1. clock \in Nat /\ now[p] \in Nat
      OBVIOUS
    <3>2. stamps' \subseteq Nat
      BY <1>4, <3>1 DEF SwapWins
    <3>3. pc' \in [Procs -> {"idle", "load", "check", "swap", "silent"}]
      BY <1>4 DEF SwapWins, Return
    <3>4. now' \in [Procs -> Nat] /\ prev' \in [Procs -> Nat]
      BY <1>4 DEF SwapWins, Return
    <3>. QED BY <1>4, <3>1, <3>2, <3>3, <3>4 DEF SwapWins
  <2>2. last' = now[p] /\ printedAt' = clock /\ now[p] > last
    BY <1>4 DEF SwapWins
  <2>3. Stamped'
    BY <1>4, <2>2 DEF SwapWins
  <2>. QED BY <1>4, <2>1, <2>2, <2>3 DEF SwapWins, Return
<1>5. ASSUME NEW p \in Procs, SwapLoses(p) PROVE DInv'
  BY <1>5 DEF SwapLoses
<1>6. ASSUME NEW p \in Procs, ReturnSilent(p) PROVE DInv'
  BY <1>6 DEF ReturnSilent, Return
<1>7. CASE Tick
  BY <1>7 DEF Tick
<1>8. CASE UNCHANGED vars
  BY <1>8 DEF vars
<1>. QED
  BY <1>1, <1>2, <1>3, <1>4, <1>5, <1>6, <1>7, <1>8 DEF Next

\* The invariant of logDegrade.
THEOREM Invariance == Spec => []DInv
  BY InitDInv, NextDInv, PTL DEF Spec

\* Failures that go on are not silenced: a call without a warning began less
\* than an Interval after one, or overlapped one.
THEOREM Audible == Spec => []NotSilenced
  BY Invariance, PTL DEF DInv

\* The `now` of two warnings is an Interval apart, however the goroutines interleave.
THEOREM Throttled == Spec => WarnsSpaced
<1>1. DInv /\ [Next]_vars =>
        [\A p \in Procs : SwapWins(p) => \A s \in stamps : now[p] - s >= Interval]_vars
  <2> SUFFICES ASSUME DInv, NEW p \in Procs, SwapWins(p), NEW s \in stamps
               PROVE  now[p] - s >= Interval
    OBVIOUS
  <2>1. now[p] - prev[p] >= Interval /\ last = prev[p] /\ s <= last
    BY DEF DInv, Stamped, InFlight, SwapWins
  <2>. QED
    BY <2>1, DegradeAssumption DEF DInv, TypeOK
<1>. QED
  BY <1>1, Invariance, PTL DEF Spec, WarnsSpaced

-----------------------------------------------------------------------------
(* Token bucket                                                            *)

LEMMA MinOfTwo ==
    ASSUME NEW a \in Int, NEW b \in Int
    PROVE  T!Min({a, b}) = IF a <= b THEN a ELSE b
  BY DEF T!Min

LEMMA MaxOfTwo ==
    ASSUME NEW a \in Int, NEW b \in Int
    PROVE  T!Max({a, b}) = IF a >= b THEN a ELSE b
  BY DEF T!Max

LEMMA Distributes ==
    ASSUME NEW a \in Int, NEW b \in Int, NEW c \in Int
    PROVE  (a - b) * c = a * c - b * c /\ (a + b) * c = a * c + b * c /\ a * c \in Int /\ b * c \in Int
  OBVIOUS

LEMMA Grows ==
    ASSUME NEW a \in Int, NEW b \in Int, NEW c \in Nat, a <= b
    PROVE  a * c <= b * c
  OBVIOUS

LEMMA CeilDivCovers ==
    ASSUME NEW a \in Nat, NEW b \in Nat \ {0}
    PROVE  T!CeilDiv(a, b) \in Nat /\ a <= T!CeilDiv(a, b) * b
<1>1. PICK q \in Nat : q = (a + b - 1) \div b
  BY DivMod
<1>2. a + b - 1 \in Nat /\ (a + b - 1) % b \in 0 .. b - 1 /\ a + b - 1 = b * q + ((a + b - 1) % b)
  <2>1. a + b - 1 \in Nat
    OBVIOUS
  <2>. QED BY <1>1, <2>1, DivMod
<1>3. a <= q * b
  <2>1. PICK r \in 0 .. b - 1 : a + b - 1 = b * q + r
    BY <1>2
  <2>2. PICK p \in Int : p = b * q /\ p = q * b
    OBVIOUS
  <2>. QED BY <2>1, <2>2
<1>. QED BY <1>1, <1>3 DEF T!CeilDiv

LEMMA Constants ==
    /\ Cost \in Nat \ {0} /\ Rate \in Nat \ {0} /\ Cap \in Nat /\ Cap >= Cost
    /\ MaxDelay \in Nat /\ LastSecond \in Nat /\ None \notin Int
    /\ \A w \in Workers : Skew[w] \in Nat
  BY LibraryAssumption DEF T!RateLimitAssumption

\* The key lives at least as long as it takes to fill the bucket twice.
LEMMA LongLived == T!TTL \in Nat /\ 2 * Cap <= T!TTL * Rate
<1>1. Rate \in Nat \ {0} /\ Cap \in Nat /\ 2 * Cap \in Nat
  BY Constants
<1>2. PICK c \in Nat : c = T!CeilDiv(2 * Cap, Rate) /\ 2 * Cap <= c * Rate
  BY <1>1, CeilDivCovers
<1>3. T!TTL = IF 1 >= c THEN 1 ELSE c
  <2>1. T!Max({1, c}) = IF 1 >= c THEN 1 ELSE c
    BY MaxOfTwo
  <2>. QED BY <1>2, <2>1 DEF T!TTL
<1>4. c <= T!TTL /\ T!TTL \in Nat
  BY <1>3
<1>5. c * Rate <= T!TTL * Rate
  BY <1>1, <1>4, Grows
<1>. QED
  <2>1. c * Rate \in Int /\ T!TTL * Rate \in Int
    BY <1>1, <1>4
  <2>. QED BY <1>1, <1>2, <1>4, <1>5, <2>1

\* The clocks are at most s ahead, and what can pass between the reading of a clock
\* and the script is too short to fill the bucket.
Close(s) ==
    /\ s \in Nat /\ (\A w \in Workers : Skew[w] <= s) /\ \E w \in Workers : Skew[w] = s
    /\ (MaxDelay + s) * Rate <= Cap

Request(w) ==
    /\ sentAt[w] \in Nat /\ sentAt[w] <= redisClock /\ redisClock <= sentAt[w] + MaxDelay
    /\ sent[w] = sentAt[w] + Skew[w]

\* The key: its time is that of a script run, it outlives its refill, its tokens
\* and those taken are within the quota, and a promised retry will find a token.
Bucket(s) ==
    /\ tokens \in 0 .. Cap /\ ts \in Nat /\ ts <= seen
    /\ expireAt \in Nat /\ ts + T!TTL <= expireAt + s
    /\ admitted * Cost + tokens <= Cap + ts * Rate
    /\ promise # None => promise \in Nat /\ Cost <= tokens + (promise - ts) * Rate

TInv(s) ==
    /\ redisClock \in Nat /\ redisClock <= LastSecond /\ seen \in Nat /\ seen <= redisClock + s
    /\ admitted \in Nat /\ denied \in Nat
    /\ sent = [w \in Workers |-> sent[w]] /\ sentAt = [w \in Workers |-> sentAt[w]]
    /\ \A w \in Workers : sent[w] # None => Request(w)
    /\ IF tokens = None THEN admitted = 0 /\ promise = None ELSE Bucket(s)

Runs(w) == T!Allowed(w) \/ T!Denied(w) \/ T!DenialLost(w)

\* What the script finds, when it does not run behind a later one.
Level(at) ==
    IF tokens = None THEN Cap
    ELSE IF Cap <= tokens + (at - ts) * Rate THEN Cap ELSE tokens + (at - ts) * Rate

LEMMA FilledIsLevel ==
    ASSUME NEW s, Close(s), TInv(s), NEW w \in Workers, sent[w] # None, seen <= sent[w]
    PROVE  /\ sent[w] \in Nat /\ sent[w] <= redisClock + s
           /\ T!Filled(sent[w]) = Level(sent[w])
           /\ Level(sent[w]) \in 0 .. Cap
           /\ T!Absent => Level(sent[w]) = Cap
<1>1. /\ Rate \in Nat \ {0} /\ Cap \in Nat /\ MaxDelay \in Nat /\ Skew[w] \in Nat /\ None \notin Int
      /\ s \in Nat /\ Skew[w] <= s /\ T!TTL \in Nat
  BY Constants, LongLived DEF Close
<1>2. PICK at \in Nat : /\ at = sent[w] /\ redisClock \in Nat
                         /\ redisClock <= at + MaxDelay /\ at <= redisClock + s
  BY <1>1 DEF TInv, Request
<1>3. CASE tokens = None
  <2>1. T!Absent /\ T!Stored = Cap /\ T!StoredTs(at) = at
    BY <1>3 DEF T!Absent, T!Stored, T!StoredTs
  <2>2. at - at = 0 /\ T!Max({0, 0}) = 0 /\ Cap + 0 * Rate = Cap /\ T!Min({Cap, Cap}) = Cap
    BY <1>1, MinOfTwo, MaxOfTwo
  <2>3. T!Filled(at) = Cap
    BY <2>1, <2>2 DEF T!Filled
  <2>. QED BY <1>1, <1>2, <1>3, <2>3 DEF Level
<1>4. CASE tokens # None
  <2>1. tokens \in Nat /\ tokens <= Cap /\ ts \in Nat /\ ts <= at /\ expireAt \in Nat /\ ts + T!TTL <= expireAt + s
    BY <1>1, <1>2, <1>4 DEF TInv, Bucket
  <2>2. PICK d \in Nat : d = at - ts
    BY <2>1
  <2>3. PICK g \in Nat : g = d * Rate
    BY <1>1
  <2>4. Level(at) = IF Cap <= tokens + g THEN Cap ELSE tokens + g
    BY <1>4, <2>2, <2>3 DEF Level
  <2>5. Level(at) \in 0 .. Cap
    BY <1>1, <2>1, <2>4
  <2>6. CASE T!Absent
    <3>1. T!Stored = Cap /\ T!StoredTs(at) = at
      BY <2>6 DEF T!Stored, T!StoredTs
    <3>2. at - at = 0 /\ T!Max({0, 0}) = 0 /\ Cap + 0 * Rate = Cap /\ T!Min({Cap, Cap}) = Cap
      BY <1>1, MinOfTwo, MaxOfTwo
    <3>3. T!Filled(at) = Cap
      BY <3>1, <3>2 DEF T!Filled
    <3>4. redisClock >= expireAt
      BY <1>4, <2>6 DEF T!Absent
    <3>5. T!TTL - (MaxDelay + s) <= d
      BY <1>1, <1>2, <2>1, <2>2, <3>4
    <3>6. Cap <= g
      <4>1. PICK m \in Nat : m = MaxDelay + s
        BY <1>1
      <4>2. (T!TTL - m) * Rate <= d * Rate
        BY <1>1, <3>5, <4>1, Grows
      <4>3. (T!TTL - m) * Rate = T!TTL * Rate - m * Rate /\ T!TTL * Rate \in Int /\ m * Rate \in Int
        BY <1>1, Distributes
      <4>4. 2 * Cap <= T!TTL * Rate /\ m * Rate <= Cap
        BY <4>1, LongLived DEF Close
      <4>5. \A x, y, z, c \in Int : z = x - y /\ 2 * c <= x /\ y <= c /\ z <= g => c <= g
        OBVIOUS
      <4>. QED BY <1>1, <2>3, <4>2, <4>3, <4>4, <4>5
    <3>7. Level(at) = Cap
      BY <1>1, <2>1, <2>4, <3>6
    <3>. QED BY <1>2, <2>5, <3>3, <3>7
  <2>7. CASE ~T!Absent
    <3>1. T!Stored = tokens /\ T!StoredTs(at) = ts
      BY <2>7 DEF T!Stored, T!StoredTs
    <3>2. T!Max({0, d}) = d
      BY MaxOfTwo
    <3>3. T!Min({Cap, tokens + g}) = IF Cap <= tokens + g THEN Cap ELSE tokens + g
      BY <1>1, <2>1, MinOfTwo
    <3>4. T!Filled(at) = T!Min({Cap, tokens + g})
      BY <2>2, <2>3, <3>1, <3>2 DEF T!Filled
    <3>. QED BY <1>2, <2>4, <2>5, <2>7, <3>3, <3>4
  <2>. QED BY <2>6, <2>7
<1>. QED BY <1>3, <1>4

LEMMA AnsweredKeeps ==
    ASSUME NEW s, TInv(s), NEW w \in Workers, T!Answered(w), redisClock' = redisClock
    PROVE  /\ sent' = [v \in Workers |-> sent'[v]] /\ sentAt' = [v \in Workers |-> sentAt'[v]]
           /\ \A v \in Workers : sent'[v] # None => Request(v)'
<1>1. /\ sent' = [v \in Workers |-> IF v = w THEN None ELSE sent[v]]
      /\ sentAt' = [v \in Workers |-> IF v = w THEN 0 ELSE sentAt[v]]
  BY DEF T!Answered, TInv
<1>. QED BY <1>1 DEF TInv, Request

LEMMA AllowedKeeps ==
    ASSUME NEW s, Close(s), TInv(s), NEW w \in Workers, T!Allowed(w), seen <= sent[w]
    PROVE  TInv(s)'
<1>1. PICK at : at = sent[w]
  OBVIOUS
<1>2. /\ at # None /\ T!Filled(at) >= Cost /\ tokens' = T!Filled(at) - Cost /\ ts' = at
      /\ expireAt' = redisClock + T!TTL
      /\ admitted' = admitted + 1 /\ seen' = at /\ promise' = None
      /\ T!Answered(w) /\ redisClock' = redisClock /\ denied' = denied
  BY <1>1 DEF T!Allowed, T!ScriptAllows, T!Write
<1>3. /\ at \in Nat /\ at <= redisClock + s /\ T!Filled(at) = Level(at) /\ Level(at) \in 0 .. Cap
  BY <1>1, <1>2, FilledIsLevel
<1>4. /\ Cost \in Nat \ {0} /\ Rate \in Nat \ {0} /\ Cap \in Nat /\ s \in Nat /\ T!TTL \in Nat
      /\ None \notin Int /\ redisClock \in Nat /\ admitted \in Nat
  BY Constants, LongLived DEF Close, TInv
<1>5. tokens' \in 0 .. Cap /\ tokens' # None
  BY <1>2, <1>3, <1>4
<1>6. expireAt' \in Nat /\ ts' + T!TTL <= expireAt' + s
  BY <1>2, <1>3, <1>4
<1>7. PICK a, b, r \in Int : a = admitted * Cost /\ b = (admitted + 1) * Cost /\ r = at * Rate
  BY <1>3, <1>4
<1>8. b = a + Cost
  BY <1>4, <1>7
<1>9. a + Level(at) <= Cap + r
  <2>1. CASE tokens = None
    <3>1. admitted = 0 /\ Level(at) = Cap
      BY <2>1 DEF TInv, Level
    <3>2. a = 0 /\ 0 <= r
      BY <1>3, <1>4, <1>7, <3>1
    <3>. QED BY <1>4, <1>7, <3>1, <3>2
  <2>2. CASE tokens # None
    <3>1. /\ tokens \in Int /\ ts \in Nat /\ ts <= at
          /\ a + tokens <= Cap + ts * Rate
      BY <1>1, <1>3, <1>4, <1>7, <2>2 DEF TInv, Bucket
    <3>2. PICK p, g \in Int : p = ts * Rate /\ g = (at - ts) * Rate
      BY <1>3, <1>4, <3>1
    <3>3. g = r - p
      BY <1>3, <1>4, <1>7, <3>1, <3>2, Distributes
    <3>4. Level(at) <= tokens + g
      BY <1>3, <1>4, <2>2, <3>1, <3>2 DEF Level
    <3>5. Level(at) \in Int
      BY <1>3, <1>4
    <3>. QED BY <1>4, <1>7, <3>1, <3>2, <3>3, <3>4, <3>5
  <2>. QED BY <2>1, <2>2
<1>10. admitted' * Cost + tokens' <= Cap + ts' * Rate
  <2>1. b + (Level(at) - Cost) <= Cap + r
    <3>1. Level(at) \in Int
      BY <1>3, <1>4
    <3>. QED BY <1>4, <1>7, <1>8, <1>9, <3>1
  <2>. QED BY <1>2, <1>3, <1>7, <2>1
<1>11. Bucket(s)'
  <2>1. ts' \in Nat /\ ts' <= seen'
    BY <1>2, <1>3
  <2>. QED BY <1>2, <1>5, <1>6, <1>10, <2>1 DEF Bucket, T!TTL, T!CeilDiv
<1>12. /\ redisClock' \in Nat /\ redisClock' <= LastSecond /\ seen' \in Nat /\ seen' <= redisClock' + s
       /\ admitted' \in Nat /\ denied' \in Nat
  BY <1>2, <1>3, <1>4 DEF TInv
<1>. QED BY <1>2, <1>5, <1>11, <1>12, AnsweredKeeps DEF TInv

\* A denial finds the key, and leaves it as it is.
LEMMA DenialReads ==
    ASSUME NEW s, Close(s), TInv(s), NEW w \in Workers, sent[w] # None, T!ScriptDenies(sent[w]), seen <= sent[w]
    PROVE  /\ tokens # None /\ UNCHANGED <<tokens, ts, expireAt>>
           /\ Level(sent[w]) < Cost /\ Level(sent[w]) = tokens + (sent[w] - ts) * Rate
<1>1. PICK at : at = sent[w]
  OBVIOUS
<1>2. /\ at \in Nat /\ T!Filled(at) = Level(at) /\ Level(at) \in 0 .. Cap
      /\ T!Absent => Level(at) = Cap
  BY <1>1, FilledIsLevel
<1>3. Level(at) < Cost
  BY <1>1, <1>2 DEF T!ScriptDenies
<1>4. ~(Cap < Cost) /\ Cap \in Nat /\ Cost \in Nat
  BY Constants
<1>5. Level(at) # Cap
  BY <1>3, <1>4
<1>6. ~T!Absent
  BY <1>2, <1>5
<1>7. UNCHANGED <<tokens, ts, expireAt>>
  BY <1>1, <1>6 DEF T!ScriptDenies, T!redisVars
<1>8. tokens # None
  BY <1>6 DEF T!Absent
<1>9. Level(at) = tokens + (at - ts) * Rate
  BY <1>5, <1>8 DEF Level
<1>. QED BY <1>1, <1>3, <1>7, <1>8, <1>9

LEMMA DeniedKeeps ==
    ASSUME NEW s, Close(s), TInv(s), NEW w \in Workers, T!Denied(w) \/ T!DenialLost(w), seen <= sent[w]
    PROVE  TInv(s)'
<1>1. PICK at : at = sent[w]
  OBVIOUS
<1>2. /\ at # None /\ T!ScriptDenies(at) /\ seen' = at /\ T!Answered(w) /\ denied' = denied + 1
      /\ redisClock' = redisClock /\ admitted' = admitted
  BY <1>1 DEF T!Denied, T!DenialLost
<1>3. /\ tokens # None /\ UNCHANGED <<tokens, ts, expireAt>>
      /\ Level(at) < Cost /\ Level(at) = tokens + (at - ts) * Rate
  BY <1>1, <1>2, DenialReads
<1>4. at \in Nat /\ at <= redisClock + s /\ T!Filled(at) = Level(at) /\ Level(at) \in 0 .. Cap
  BY <1>1, <1>2, FilledIsLevel
<1>5. /\ Cost \in Nat \ {0} /\ Rate \in Nat \ {0} /\ Cap \in Nat /\ None \notin Int
      /\ tokens \in Int /\ ts \in Nat /\ ts <= at /\ Level(at) \in Nat
  BY Constants, <1>1, <1>3, <1>4 DEF TInv, Bucket
<1>6. Bucket(s)
  BY <1>3 DEF TInv
<1>7. PICK c \in Nat : T!CeilDiv(Cost - Level(at), Rate) = c /\ Cost - Level(at) <= c * Rate
  <2>1. Cost - Level(at) \in Nat
    BY <1>3, <1>5
  <2>. QED BY <1>5, <2>1, CeilDivCovers
<1>8. PICK after \in Nat : after = T!RetryAfter(at) /\ c <= after
  <2>1. T!Max({1, c}) = IF 1 >= c THEN 1 ELSE c
    BY MaxOfTwo
  <2>2. T!RetryAfter(at) = T!Max({1, c})
    BY <1>4, <1>7 DEF T!RetryAfter
  <2>. QED BY <2>1, <2>2
<1>9. Cost <= tokens + ((at + after) - ts) * Rate
  <2>1. PICK g, h, k, l \in Int : /\ g = (at - ts) * Rate /\ h = after * Rate
                                  /\ k = ((at + after) - ts) * Rate /\ l = c * Rate
    BY <1>4, <1>5
  <2>2. l <= h
    BY <1>5, <1>8, <2>1, Grows
  <2>3. (at + after) - ts = (at - ts) + after
    BY <1>4, <1>5
  <2>4. k = g + h
    BY <1>4, <1>5, <2>1, <2>3, Distributes
  <2>5. Cost - (tokens + g) <= l
    BY <1>3, <1>7, <2>1
  <2>6. Cost <= tokens + k
    BY <1>5, <2>1, <2>2, <2>4, <2>5
  <2>. QED BY <2>1, <2>6
<1>10. promise' # None => promise' \in Nat /\ Cost <= tokens' + (promise' - ts') * Rate
  <2>1. promise # None => promise \in Nat /\ Cost <= tokens + (promise - ts) * Rate
    BY <1>6 DEF Bucket
  <2>2. CASE T!DenialLost(w)
    <3>1. promise' = promise
      BY <2>2 DEF T!DenialLost
    <3>. QED BY <1>3, <2>1, <3>1
  <2>3. CASE T!Denied(w)
    <3>1. promise' = IF promise = None THEN at + after ELSE T!Min({promise, at + after})
      BY <1>1, <1>8, <2>3 DEF T!Denied
    <3>2. promise # None => T!Min({promise, at + after}) = IF promise <= at + after THEN promise ELSE at + after
      BY <1>4, <2>1, MinOfTwo
    <3>3. promise' = at + after \/ (promise # None /\ promise' = promise)
      BY <3>1, <3>2
    <3>4. at + after \in Nat
      BY <1>4
    <3>. QED BY <1>3, <1>9, <2>1, <3>3, <3>4
  <2>. QED BY <2>2, <2>3
<1>11. Bucket(s)'
  <2>1. ts' <= seen'
    BY <1>2, <1>3, <1>5
  <2>. QED BY <1>2, <1>3, <1>6, <1>10, <2>1 DEF Bucket, T!TTL, T!CeilDiv
<1>12. /\ redisClock' \in Nat /\ redisClock' <= LastSecond /\ seen' \in Nat /\ seen' <= redisClock' + s
       /\ admitted' \in Nat /\ denied' \in Nat
  BY <1>2, <1>4 DEF TInv
<1>. QED BY <1>2, <1>3, <1>11, <1>12, AnsweredKeeps DEF TInv

LEMMA StepTInv ==
    ASSUME NEW s, Close(s), TInv(s), [AllNext]_AllVars, \A w \in Workers : Runs(w) => seen <= sent[w]
    PROVE  TInv(s)'
<1>1. CASE UNCHANGED limitVars
  BY <1>1 DEF limitVars, TInv, Bucket, Request, T!TTL, T!CeilDiv
<1>2. ASSUME NEW w \in Workers, T!Send(w) PROVE TInv(s)'
  <2>1. /\ sent' = [v \in Workers |-> IF v = w THEN redisClock + Skew[w] ELSE sent[v]]
        /\ sentAt' = [v \in Workers |-> IF v = w THEN redisClock ELSE sentAt[v]]
        /\ UNCHANGED <<redisClock, tokens, ts, expireAt, admitted, denied, seen, promise>>
    BY <1>2 DEF T!Send, TInv, T!redisVars
  <2>2. ASSUME NEW v \in Workers, sent'[v] # None PROVE Request(v)'
    <3>1. CASE v = w
      <4>1. redisClock \in Nat /\ MaxDelay \in Nat
        BY Constants DEF TInv
      <4>. QED BY <2>1, <3>1, <4>1 DEF Request
    <3>2. CASE v # w
      BY <2>1, <2>2, <3>2 DEF TInv, Request
    <3>. QED BY <3>1, <3>2
  <2>3. Bucket(s) => Bucket(s)'
    BY <2>1 DEF Bucket, T!TTL, T!CeilDiv
  <2>. QED BY <2>1, <2>2, <2>3 DEF TInv
<1>3. ASSUME NEW w \in Workers, T!FailsOpen(w) PROVE TInv(s)'
  <2>1. T!Answered(w) /\ UNCHANGED <<redisClock, tokens, ts, expireAt, admitted, denied, seen, promise>>
    BY <1>3 DEF T!FailsOpen, T!redisVars
  <2>2. Bucket(s) => Bucket(s)'
    BY <2>1 DEF Bucket, T!TTL, T!CeilDiv
  <2>. QED BY <2>1, <2>2, AnsweredKeeps DEF TInv
<1>4. CASE T!Tick
  <2>1. /\ redisClock' = redisClock + 1 /\ redisClock < LastSecond
        /\ \A w \in Workers : sent[w] # None => redisClock - sentAt[w] < MaxDelay
        /\ UNCHANGED <<tokens, ts, expireAt, sent, sentAt, admitted, denied, seen, promise>>
    BY <1>4 DEF T!Tick, T!redisVars
  <2>2. redisClock \in Nat /\ MaxDelay \in Nat /\ LastSecond \in Nat /\ s \in Nat /\ seen \in Nat
    BY Constants DEF TInv, Close
  <2>3. \A w \in Workers : sent[w] # None => Request(w)'
    BY <2>1, <2>2 DEF TInv, Request
  <2>4. Bucket(s) => Bucket(s)'
    BY <2>1 DEF Bucket, T!TTL, T!CeilDiv
  <2>5. redisClock' \in Nat /\ redisClock' <= LastSecond /\ seen' <= redisClock' + s
    BY <2>1, <2>2 DEF TInv
  <2>. QED BY <2>1, <2>3, <2>4, <2>5 DEF TInv
<1>5. CASE T!Next
  <2>1. ASSUME NEW w \in Workers, Runs(w) PROVE TInv(s)'
    BY <2>1, AllowedKeeps, DeniedKeeps DEF Runs
  <2>. QED BY <1>2, <1>3, <1>4, <1>5, <2>1 DEF T!Next, Runs
<1>. QED BY <1>1, <1>5 DEF AllNext, AllVars

LEMMA InitTInv == ASSUME NEW s, Close(s), AllInit PROVE TInv(s)
<1>1. /\ redisClock = 0 /\ tokens = None /\ admitted = 0 /\ denied = 0 /\ seen = 0 /\ promise = None
      /\ sent = [w \in Workers |-> None] /\ sentAt = [w \in Workers |-> 0]
  BY DEF AllInit, T!Init
<1>2. LastSecond \in Nat /\ s \in Nat
  BY Constants DEF Close
<1>. QED BY <1>1, <1>2 DEF TInv

LEMMA QuotaFollows == ASSUME NEW s, Close(s), TInv(s) PROVE QuotaBound
<1>1. T!Max({Skew[w] : w \in Workers}) = s
  <2> DEFINE K == {Skew[w] : w \in Workers}
  <2>1. s \in K /\ s \in Nat /\ \A k \in K : k \in Nat /\ k <= s
    BY Constants DEF Close
  <2> HIDE DEF K
  <2>2. \A k \in K : (\A l \in K : k >= l) => k = s
    BY <2>1
  <2>3. \A l \in K : s >= l
    BY <2>1
  <2>4. T!Max(K) = s
    BY <2>1, <2>2, <2>3 DEF T!Max
  <2>. QED BY <2>4 DEF K
<1>2. /\ Cost \in Nat /\ Rate \in Nat /\ Cap \in Nat /\ s \in Nat
      /\ admitted \in Nat /\ redisClock \in Nat /\ seen \in Nat /\ seen <= redisClock + s
  BY Constants DEF Close, TInv
<1>3. PICK a, r \in Int : a = admitted * Cost /\ r = Rate * (redisClock + s) /\ r >= 0
  BY <1>2
<1>4. a <= Cap + r
  <2>1. CASE tokens = None
    <3>1. a = 0
      BY <1>2, <1>3, <2>1 DEF TInv
    <3>. QED BY <1>2, <1>3, <3>1
  <2>2. CASE tokens # None
    <3>1. tokens \in Nat /\ ts \in Nat /\ ts <= redisClock + s /\ a + tokens <= Cap + ts * Rate
      BY <1>2, <1>3, <2>2 DEF TInv, Bucket
    <3>2. ts * Rate <= (redisClock + s) * Rate
      BY <1>2, <3>1, Grows
    <3>3. PICK p \in Int : p = ts * Rate /\ p <= r
      BY <1>2, <1>3, <3>1, <3>2
    <3>. QED BY <1>2, <1>3, <3>1, <3>3
  <2>. QED BY <2>1, <2>2
<1>. QED BY <1>1, <1>3, <1>4 DEF QuotaBound, T!QuotaBound

\* Scripts run in the order of the clocks they carry.
NoOvertaking == \A w \in Workers : Runs(w) => seen <= sent[w]
InOrder == [][NoOvertaking]_AllVars

LEMMA StepInOrder ==
    ASSUME NEW s, Close(s), TInv(s), [AllNext]_AllVars, [NoOvertaking]_AllVars
    PROVE  TInv(s)'
<1>1. CASE UNCHANGED AllVars
  BY <1>1 DEF AllVars, limitVars, TInv, Bucket, Request, T!TTL, T!CeilDiv
<1>. QED BY <1>1, StepTInv DEF NoOvertaking

\* The token bucket script, for any number of workers, any rate and burst, clocks
\* that are apart and requests that are late by less than the bucket takes to
\* fill: as long as no script runs behind one with a later time, never more is
\* admitted than the burst and what the rate yields.
THEOREM QuotaIsBounded ==
    ASSUME NEW s, Close(s)
    PROVE  AllSpec /\ InOrder => []QuotaBound
<1>1. AllInit => TInv(s)
  BY InitTInv
<1>2. TInv(s) /\ [AllNext]_AllVars /\ [NoOvertaking]_AllVars => TInv(s)'
  BY StepInOrder
<1>3. TInv(s) => QuotaBound
  BY QuotaFollows
<1>. QED BY <1>1, <1>2, <1>3, PTL DEF AllSpec, InOrder

\* With one worker, whose clock may be ahead, no script is overtaken.
THEOREM OneIsInOrder ==
    ASSUME NEW w, Workers = {w}, Close(Skew[w])
    PROVE  AllSpec => InOrder
<1> DEFINE Turn == TInv(Skew[w]) /\ (sent[w] # None => seen <= sent[w])
<1>1. AllInit => Turn
  <2>1. AllInit => sent = [v \in Workers |-> None]
    BY DEF AllInit, T!Init
  <2>. QED BY <2>1, InitTInv
<1>2. Turn => NoOvertaking
  BY DEF NoOvertaking, Runs, T!Allowed, T!Denied, T!DenialLost
<1>3. Turn /\ [AllNext]_AllVars => Turn'
  <2> SUFFICES ASSUME Turn, [AllNext]_AllVars PROVE Turn'
    OBVIOUS
  <2>1. TInv(Skew[w])'
    BY <1>2, StepInOrder
  <2>2. CASE UNCHANGED limitVars
    BY <2>1, <2>2 DEF limitVars
  <2>3. CASE T!Next
    <3>1. sent = [v \in Workers |-> sent[v]] /\ w \in Workers
      BY DEF TInv
    <3>2. CASE T!Answered(w)
      <4>1. sent'[w] = None
        BY <3>1, <3>2 DEF T!Answered
      <4>. QED BY <2>1, <4>1
    <3>3. CASE T!Send(w)
      <4>1. sent'[w] = redisClock + Skew[w] /\ seen' = seen
        BY <3>1, <3>3 DEF T!Send
      <4>. QED BY <2>1, <4>1 DEF TInv
    <3>4. CASE T!Tick
      BY <2>1, <3>4 DEF T!Tick
    <3>. QED BY <2>3, <3>2, <3>3, <3>4 DEF T!Next, T!Allowed, T!Denied, T!DenialLost, T!FailsOpen
  <2>. QED BY <2>2, <2>3 DEF AllNext, AllVars
<1>. QED BY <1>1, <1>2, <1>3, PTL DEF AllSpec, InOrder

\* Retry-After, under the same conditions.
LEMMA RetryFollows ==
    ASSUME NEW s, Close(s), TInv(s), [AllNext]_AllVars, [NoOvertaking]_AllVars
    PROVE  [\A w \in Workers : T!Denied(w) /\ promise # None => sent[w] < promise]_(T!vars)
<1> SUFFICES ASSUME T!vars' # T!vars, NEW w \in Workers, T!Denied(w), promise # None
             PROVE  sent[w] < promise
  OBVIOUS
<1>1. AllVars' # AllVars
  BY DEF AllVars, limitVars, T!vars, T!redisVars
<1>2. PICK at : at = sent[w]
  OBVIOUS
<1>3. at # None /\ T!ScriptDenies(at) /\ seen <= at
  BY <1>1, <1>2 DEF T!Denied, NoOvertaking, Runs
<1>4. tokens # None /\ Level(at) < Cost /\ Level(at) = tokens + (at - ts) * Rate
  BY <1>2, <1>3, DenialReads
<1>5. at \in Nat
  BY <1>2, <1>3, FilledIsLevel
<1>6. promise \in Nat /\ Cost <= tokens + (promise - ts) * Rate /\ tokens \in Int /\ ts \in Nat
  BY Constants, <1>4 DEF TInv, Bucket
<1>7. Rate \in Nat /\ Cost \in Nat
  BY Constants
<1>8. promise <= at => (promise - ts) * Rate <= (at - ts) * Rate
  BY <1>5, <1>6, <1>7, Grows
<1>9. (promise - ts) * Rate \in Int /\ (at - ts) * Rate \in Int
  BY <1>5, <1>6, <1>7
<1>10. ~(promise <= at)
  BY <1>4, <1>6, <1>7, <1>8, <1>9
<1>. QED BY <1>2, <1>5, <1>6, <1>10

\* The level of the bucket on paper, at the time of the last script run.
OnPaper == IF tokens = None THEN Cap ELSE T!Min({Cap, tokens + (seen - ts) * Rate})

LEMMA IdealInit == AllInit => T!Ideal!Init
  BY DEF AllInit, T!Init, T!Ideal!Init

\* Filled on paper from the last run to the next, the bucket is what the script finds.
LEMMA PaperFilled ==
    ASSUME NEW s, Close(s), TInv(s), NEW w \in Workers, sent[w] # None, seen <= sent[w]
    PROVE  T!Ideal!Filled(OnPaper, sent[w] - seen) = Level(sent[w])
<1>1. /\ Rate \in Nat /\ Cap \in Nat /\ seen \in Nat
  BY Constants DEF TInv
<1>2. PICK at \in Nat : at = sent[w]
  BY FilledIsLevel
<1>3. PICK e \in Nat : e = at - seen
  BY <1>1, <1>2
<1>4. PICK h \in Nat : h = e * Rate
  BY <1>1
<1>5. \A a, b \in Int : T!Ideal!Min({a, b}) = IF a <= b THEN a ELSE b
  BY DEF T!Ideal!Min
<1>6. CASE tokens = None
  <2>1. OnPaper = Cap /\ Level(at) = Cap
    BY <1>6 DEF OnPaper, Level
  <2>2. T!Ideal!Min({Cap, Cap + h}) = Cap
    BY <1>1, <1>5
  <2>. QED BY <1>2, <1>3, <1>4, <2>1, <2>2 DEF T!Ideal!Filled
<1>7. CASE tokens # None
  <2>1. tokens \in Nat /\ ts \in Nat /\ ts <= seen
    BY <1>1, <1>7 DEF TInv, Bucket
  <2>2. PICK g, k \in Int : g = (seen - ts) * Rate /\ k = (at - ts) * Rate
    BY <1>1, <2>1
  <2>3. k = g + h
    <3>1. at - ts = (seen - ts) + e /\ seen - ts \in Int
      BY <1>1, <1>3, <2>1
    <3>. QED BY <1>1, <1>4, <2>2, <3>1, Distributes
  <2>4. OnPaper = IF Cap <= tokens + g THEN Cap ELSE tokens + g
    BY <1>1, <1>7, <2>1, <2>2, MinOfTwo DEF OnPaper
  <2>5. Level(at) = IF Cap <= tokens + k THEN Cap ELSE tokens + k
    BY <1>7, <2>2 DEF Level
  <2>6. OnPaper \in Int
    BY <1>1, <2>1, <2>2, <2>4
  <2>7. T!Ideal!Filled(OnPaper, e) = IF Cap <= OnPaper + h THEN Cap ELSE OnPaper + h
    BY <1>1, <1>4, <1>5, <2>6 DEF T!Ideal!Filled
  <2>8. (IF Cap <= OnPaper + h THEN Cap ELSE OnPaper + h) = Level(at)
    <3>1. CASE Cap <= tokens + g
      BY <1>1, <2>1, <2>2, <2>3, <2>4, <2>5, <3>1
    <3>2. CASE ~(Cap <= tokens + g)
      BY <1>1, <2>1, <2>2, <2>3, <2>4, <2>5, <3>2
    <3>. QED BY <3>1, <3>2
  <2>. QED BY <1>2, <1>3, <2>7, <2>8
<1>. QED BY <1>6, <1>7

LEMMA IdealStep ==
    ASSUME Close(0), TInv(0), [AllNext]_AllVars, [NoOvertaking]_AllVars
    PROVE  [T!Ideal!Next]_(T!Ideal!vars)
<1>1. CASE UNCHANGED <<tokens, ts, seen, admitted, denied>>
  BY <1>1 DEF T!Ideal!vars
<1>2. ASSUME NEW w \in Workers, Runs(w), seen <= sent[w]
      PROVE  T!Ideal!Next
  <2>1. PICK at : at = sent[w]
    OBVIOUS
  <2>2. at # None
    BY <1>2, <2>1 DEF Runs, T!Allowed, T!Denied, T!DenialLost
  <2>3. /\ at \in Nat /\ at <= redisClock + 0 /\ T!Filled(at) = Level(at) /\ Level(at) \in 0 .. Cap
        /\ T!Ideal!Filled(OnPaper, at - seen) = Level(at)
    BY <1>2, <2>1, <2>2, FilledIsLevel, PaperFilled
  <2>4. /\ Rate \in Nat /\ Cap \in Nat /\ Cost \in Nat /\ Cap >= Cost /\ seen \in Nat /\ None \notin Int
        /\ redisClock \in Nat /\ redisClock <= LastSecond /\ LastSecond \in Nat
    BY Constants DEF TInv
  <2>5. at \in seen .. LastSecond
    BY <1>2, <2>1, <2>3, <2>4
  <2>6. CASE T!Allowed(w)
    <3>1. /\ Level(at) >= Cost /\ tokens' = Level(at) - Cost /\ ts' = at
          /\ admitted' = admitted + 1 /\ seen' = at /\ denied' = denied
      BY <2>1, <2>3, <2>6 DEF T!Allowed, T!ScriptAllows, T!Write
    <3>2. tokens' \in Nat /\ tokens' <= Cap /\ tokens' # None
      BY <2>3, <2>4, <3>1
    <3>3. (seen' - ts') * Rate = 0
      BY <2>3, <2>4, <3>1
    <3>4. T!Min({Cap, tokens'}) = tokens'
      <4>1. T!Min({Cap, tokens'}) = IF Cap <= tokens' THEN Cap ELSE tokens'
        BY <2>4, <3>2, MinOfTwo
      <4>. QED BY <2>4, <3>2, <4>1
    <3>5. tokens' + 0 = tokens'
      <4>1. \A x \in Nat : x + 0 = x
        OBVIOUS
      <4>. QED BY <3>2, <4>1, Zenon
    <3>6. T!Min({Cap, tokens' + (seen' - ts') * Rate}) = tokens'
      BY <3>3, <3>4, <3>5
    <3>7. OnPaper' = Level(at) - Cost
      BY <3>1, <3>2, <3>6 DEF OnPaper, T!Min
    <3>8. T!Ideal!Admit(at)
      BY <2>3, <3>1, <3>7 DEF T!Ideal!Admit, OnPaper
    <3>. QED BY <2>5, <3>8 DEF T!Ideal!Next
  <2>7. CASE T!Denied(w) \/ T!DenialLost(w)
    <3>1. T!ScriptDenies(at) /\ seen' = at /\ denied' = denied + 1 /\ admitted' = admitted
      BY <2>1, <2>7 DEF T!Denied, T!DenialLost
    <3>2. /\ tokens # None /\ UNCHANGED <<tokens, ts, expireAt>>
          /\ Level(at) < Cost /\ Level(at) = tokens + (at - ts) * Rate
      BY <1>2, <2>1, <2>2, <3>1, DenialReads
    <3>3. T!Min({Cap, Level(at)}) = Level(at)
      <4>1. T!Min({Cap, Level(at)}) = IF Cap <= Level(at) THEN Cap ELSE Level(at)
        BY <2>3, <2>4, MinOfTwo
      <4>. QED BY <2>3, <2>4, <3>2, <4>1
    <3>4. OnPaper' = Level(at)
      BY <3>1, <3>2, <3>3 DEF OnPaper, T!Min
    <3>5. T!Ideal!Deny(at)
      BY <2>3, <3>1, <3>2, <3>4 DEF T!Ideal!Deny, OnPaper
    <3>. QED BY <2>5, <3>5 DEF T!Ideal!Next
  <2>. QED BY <1>2, <2>6, <2>7 DEF Runs
<1>3. CASE UNCHANGED AllVars
  BY <1>1, <1>3 DEF AllVars, limitVars
<1>4. CASE T!Next /\ NoOvertaking
  <2>1. ASSUME NEW w \in Workers, T!Send(w) \/ T!FailsOpen(w)
        PROVE  UNCHANGED <<tokens, ts, seen, admitted, denied>>
    BY <2>1 DEF T!Send, T!FailsOpen, T!redisVars
  <2>2. CASE T!Tick
    BY <1>1, <2>2 DEF T!Tick, T!redisVars
  <2>. QED BY <1>1, <1>2, <1>4, <2>1, <2>2 DEF T!Next, NoOvertaking, Runs
<1>5. CASE UNCHANGED limitVars
  BY <1>1, <1>5 DEF limitVars
<1>. QED BY <1>3, <1>4, <1>5 DEF AllNext

\* The lazily filled bucket in Redis, its skipped writes, its expiry and the lost
\* replies cannot be told from the bucket on paper, and who waits as long as
\* Retry-After says is admitted: for clocks in step, requests late by less than
\* the bucket takes to fill, and scripts that do not overtake each other.
THEOREM BucketIsIdeal ==
    ASSUME Close(0)
    PROVE  AllSpec /\ InOrder => BucketIdeal
<1>1. AllInit => TInv(0) /\ T!Ideal!Init
  BY InitTInv, IdealInit
<1>2. TInv(0) /\ [AllNext]_AllVars /\ [NoOvertaking]_AllVars => TInv(0)'
  BY StepInOrder
<1>3. TInv(0) /\ [AllNext]_AllVars /\ [NoOvertaking]_AllVars => [T!Ideal!Next]_(T!Ideal!vars)
  BY IdealStep
<1>4. TInv(0) /\ [AllNext]_AllVars /\ [NoOvertaking]_AllVars
        => [\A w \in Workers : T!Denied(w) /\ promise # None => sent[w] < promise]_(T!vars)
  BY RetryFollows
<1>. QED BY <1>1, <1>2, <1>3, <1>4, PTL
         DEF AllSpec, InOrder, BucketIdeal, T!ImplementsIdeal, T!RetryHonest, T!Ideal!Spec

-----------------------------------------------------------------------------
(* UUIDs                                                                   *)

\* A UUID of version 1: its clock sequence is that of the storage, less the bumps
\* since, up to whole rounds; and if it is later than the last time, the clock
\* sequence has moved on since it was issued.
Issued(u) ==
    /\ u.n \in Nat /\ u.n < issued
    /\ u.bump \in Nat /\ u.bump <= bumps
    /\ u.time \in Nat /\ (u.bump = bumps => u.time <= lastTime)
    /\ u.seq \in 0 .. SeqMod - 1
    /\ \E k \in Int : u.seq = clockSequence - (bumps - u.bump) + k * SeqMod

\* Of two UUIDs the later has moved the clock sequence on or has a later time.
Ordered(u, w) ==
    u.n < w.n => u.bump <= w.bump /\ (u.bump = w.bump => u.time < w.time)

UInv ==
    /\ wallClock \in Nat /\ lastTime \in Nat /\ bumps \in Nat /\ issued \in Nat
    /\ clockSequence \in 0 .. 4 * SeqMod - 1
    /\ \A u \in v1 : Issued(u)
    /\ \A u, w \in v1 : Ordered(u, w)

\* The 16 bits of the clock sequence are a multiple of its 14 bits.
LEMMA Overflow ==
    ASSUME NEW m \in Nat \ {0}, NEW c \in 0 .. 4 * m - 1, NEW step \in {0, 1}
    PROVE  LET d == (c + step) % (4 * m)
           IN d \in 0 .. 4 * m - 1 /\ \E k \in Int : d = c + step + k * m
<1> DEFINE d == (c + step) % (4 * m)
           q == (c + step) \div (4 * m)
<1>1. 4 * m \in Nat \ {0} /\ c + step \in Nat
  OBVIOUS
<1>2. d \in 0 .. 4 * m - 1 /\ q \in Nat /\ c + step = (4 * m) * q + d
  BY <1>1, DivMod
<1> HIDE DEF d, q
<1>3. (4 * m) * q = (4 * q) * m /\ -(4 * q) \in Int /\ (-(4 * q)) * m = -((4 * q) * m)
  BY <1>2
<1>4. d = c + step + (-(4 * q)) * m
  <2>1. (4 * q) * m \in Int /\ d \in Int /\ c \in Int /\ step \in Int
    BY <1>2
  <2>. QED BY <1>2, <1>3, <2>1
<1>. QED BY <1>2, <1>3, <1>4 DEF d

LEMMA Remainder ==
    ASSUME NEW m \in Nat \ {0}, NEW d \in Nat
    PROVE  d % m \in 0 .. m - 1 /\ \E k \in Int : d % m = d + k * m
<1>1. d % m \in 0 .. m - 1 /\ d \div m \in Nat /\ d = m * (d \div m) + (d % m)
  BY DivMod
<1>2. PICK q \in Nat, r \in Nat : q = d \div m /\ r = d % m
  BY <1>1
<1>3. -q \in Int /\ r = d + (-q) * m
  <2>1. d = m * q + r
    BY <1>1, <1>2
  <2>. QED BY <2>1
<1>. QED BY <1>1, <1>2, <1>3

\* What getStorage does to the UUIDs there are.
LEMMA IssueKeeps ==
    ASSUME UInv, U!Issue(U!getStorage), NEW u \in v1, NEW i \in Nat, issued <= i
    PROVE  /\ u.n \in Nat /\ u.n < i
           /\ u.bump \in Nat /\ u.bump <= bumps'
           /\ u.time \in Nat /\ (u.bump = bumps' => u.time < wallClock)
           /\ u.seq \in 0 .. SeqMod - 1
           /\ \E k \in Int : u.seq = clockSequence' - (bumps' - u.bump) + k * SeqMod
<1>1. PICK step \in {0, 1} : /\ step = U!getStorage
                             /\ bumps' = bumps + step
                             /\ clockSequence' = (clockSequence + step) % (4 * SeqMod)
                             /\ step = 0 => wallClock > lastTime
  BY DEF U!Issue, U!getStorage, UInv
<1>2. SeqMod \in Nat \ {0}
  BY LibraryAssumption DEF U!UuidAssumption
<1>3. clockSequence' \in 0 .. 4 * SeqMod - 1 /\ \E k \in Int : clockSequence' = clockSequence + step + k * SeqMod
  BY <1>1, <1>2, Overflow DEF UInv
<1>4. Issued(u) /\ bumps \in Nat /\ lastTime \in Nat /\ wallClock \in Nat /\ issued \in Nat
  BY DEF UInv
<1>5. /\ u.n \in Nat /\ u.n < i
      /\ u.bump \in Nat /\ u.bump <= bumps'
      /\ u.time \in Nat /\ (u.bump = bumps' => u.time < wallClock)
      /\ u.seq \in 0 .. SeqMod - 1
  BY <1>1, <1>4 DEF Issued
<1>6. \E k \in Int : u.seq = clockSequence' - (bumps' - u.bump) + k * SeqMod
  <2>1. PICK k \in Int : u.seq = clockSequence - (bumps - u.bump) + k * SeqMod
    BY <1>4 DEF Issued
  <2>2. PICK l \in Int : clockSequence' = clockSequence + step + l * SeqMod
    BY <1>3
  <2>3. (k - l) * SeqMod = k * SeqMod - l * SeqMod /\ k * SeqMod \in Int /\ l * SeqMod \in Int
    BY <1>2
  <2>4. PICK ks, ls, kl \in Int : ks = k * SeqMod /\ ls = l * SeqMod /\ kl = (k - l) * SeqMod
    BY <1>2
  <2>5. u.seq = clockSequence' - (bumps' - u.bump) + kl
    <3>1. clockSequence \in Int
      BY <1>2 DEF UInv
    <3>2. u.bump \in Int /\ bumps \in Int /\ kl = ks - ls
      BY <1>4, <2>3, <2>4 DEF Issued
    <3>. QED BY <1>1, <2>1, <2>2, <2>4, <3>1, <3>2
  <2>6. k - l \in Int
    OBVIOUS
  <2>. QED BY <2>4, <2>5, <2>6
<1>. QED BY <1>5, <1>6

LEMMA IssueTypes ==
    ASSUME UInv, U!Issue(U!getStorage)
    PROVE  /\ bumps' \in Nat /\ lastTime' = wallClock
           /\ clockSequence' \in 0 .. 4 * SeqMod - 1
<1>1. SeqMod \in Nat \ {0}
  BY LibraryAssumption DEF U!UuidAssumption
<1>2. PICK step \in {0, 1} : /\ bumps' = bumps + step /\ lastTime' = wallClock
                             /\ clockSequence' = (clockSequence + step) % (4 * SeqMod)
  BY DEF U!Issue, U!getStorage
<1>. QED BY <1>1, <1>2, Overflow DEF UInv

LEMMA NewV2Keeps == ASSUME UInv, U!NewV2 PROVE UInv'
<1>1. U!Issue(U!getStorage) /\ UNCHANGED <<wallClock, issued, v1>>
  BY DEF U!NewV2
<1>2. \A u \in v1 : Issued(u)'
  <2> SUFFICES ASSUME NEW u \in v1 PROVE Issued(u)'
    OBVIOUS
  <2>1. issued \in Nat /\ issued <= issued /\ wallClock \in Nat
    BY DEF UInv
  <2>2. /\ u.n \in Nat /\ u.n < issued
        /\ u.bump \in Nat /\ u.bump <= bumps'
        /\ u.time \in Nat /\ (u.bump = bumps' => u.time < wallClock)
        /\ u.seq \in 0 .. SeqMod - 1
        /\ \E k \in Int : u.seq = clockSequence' - (bumps' - u.bump) + k * SeqMod
    BY <1>1, <2>1, IssueKeeps
  <2>3. u.bump = bumps' => u.time <= lastTime'
    BY <1>1, <2>1, <2>2, IssueTypes
  <2>. QED BY <1>1, <2>2, <2>3 DEF Issued
<1>. QED BY <1>1, <1>2, IssueTypes DEF UInv, Ordered

LEMMA NewV1Keeps == ASSUME UInv, U!NewV1 PROVE UInv'
<1>0. PICK new : new = [n |-> issued, time |-> wallClock, seq |-> clockSequence' % SeqMod, bump |-> bumps']
  OBVIOUS
<1>1. U!Issue(U!getStorage) /\ UNCHANGED wallClock /\ issued' = issued + 1 /\ v1' = v1 \cup {new}
  BY <1>0 DEF U!NewV1
<1>2. /\ wallClock \in Nat /\ issued \in Nat /\ issued + 1 \in Nat /\ issued <= issued + 1
      /\ bumps' \in Nat /\ lastTime' = wallClock
      /\ clockSequence' \in 0 .. 4 * SeqMod - 1
  BY <1>1, IssueTypes DEF UInv
<1>3. SeqMod \in Nat \ {0}
  BY LibraryAssumption DEF U!UuidAssumption
<1>4. new.n = issued /\ new.time = wallClock /\ new.seq = clockSequence' % SeqMod /\ new.bump = bumps'
  BY <1>0
<1>5. clockSequence' % SeqMod \in 0 .. SeqMod - 1 /\ \E k \in Int : clockSequence' % SeqMod = clockSequence' + k * SeqMod
  <2>1. clockSequence' \in Nat
    BY <1>2, <1>3
  <2>. QED BY <1>3, <2>1, Remainder
<1>6. Issued(new)'
  <2>1. \E k \in Int : new.seq = clockSequence' - (bumps' - new.bump) + k * SeqMod
    <3>1. PICK k \in Int : new.seq = clockSequence' + k * SeqMod
      BY <1>4, <1>5
    <3>2. clockSequence' - (bumps' - new.bump) = clockSequence'
      <4>1. PICK c, b \in Int : c = clockSequence' /\ b = bumps'
        BY <1>2, <1>3
      <4>2. c - (b - b) = c
        OBVIOUS
      <4>. QED BY <1>4, <4>1, <4>2
    <3>. QED BY <3>1, <3>2
  <2>2. new.n \in Nat /\ new.n < issued + 1 /\ new.bump <= bumps' /\ new.time <= lastTime'
    BY <1>2, <1>4
  <2>. QED BY <1>1, <1>2, <1>4, <1>5, <2>1, <2>2 DEF Issued
<1>7. ASSUME NEW u \in v1
      PROVE  Issued(u)' /\ Ordered(u, new) /\ Ordered(new, u)
  <2>1. /\ u.n \in Nat /\ u.n < issued + 1
        /\ u.bump \in Nat /\ u.bump <= bumps'
        /\ u.time \in Nat /\ (u.bump = bumps' => u.time < wallClock)
        /\ u.seq \in 0 .. SeqMod - 1
        /\ \E k \in Int : u.seq = clockSequence' - (bumps' - u.bump) + k * SeqMod
    BY <1>1, <1>2, IssueKeeps
  <2>2. u.bump = bumps' => u.time <= lastTime'
    BY <1>2, <2>1
  <2>3. u.n < issued
    BY DEF UInv, Issued
  <2>4. Ordered(u, new) /\ Ordered(new, u)
    BY <1>2, <1>4, <2>1, <2>3 DEF Ordered
  <2>. QED BY <1>1, <2>1, <2>2, <2>4 DEF Issued
<1>8. Ordered(new, new)
  BY <1>2, <1>4 DEF Ordered
<1>9. \A u, w \in v1' : Ordered(u, w)'
  BY <1>1, <1>7, <1>8 DEF UInv, Ordered
<1>10. \A u \in v1' : Issued(u)'
  BY <1>1, <1>6, <1>7
<1>. QED BY <1>1, <1>2, <1>9, <1>10 DEF UInv

LEMMA StepUInv == ASSUME UInv, [AllNext]_AllVars PROVE UInv'
<1>1. CASE UNCHANGED <<wallClock, lastTime, clockSequence, bumps, issued, v1>>
  BY <1>1 DEF UInv, Issued, Ordered
<1>2. CASE U!ClockMoves
  <2>1. UNCHANGED <<lastTime, clockSequence, bumps, issued, v1>> /\ wallClock' \in Nat
    BY <1>2, LibraryAssumption DEF U!ClockMoves, U!UuidAssumption
  <2>. QED BY <2>1 DEF UInv, Issued, Ordered
<1>3. CASE \E s \in Texts : U!FromString(s)
  BY <1>1, <1>3 DEF U!FromString
<1>. QED BY <1>1, <1>2, <1>3, NewV1Keeps, NewV2Keeps DEF AllNext, AllVars, uuidVars, U!Next

\* NewV1, for a clock sequence of any width, any clock and any number of UUIDs: two
\* UUIDs are equal only if the clock sequence has gone all the way round between.
THEOREM UuidsAreUnique == AllSpec => []V1Unique
<1>1. AllInit => UInv
  BY LibraryAssumption DEF AllInit, U!Init, UInv, U!UuidAssumption
<1>2. UInv => V1Unique
  <2> SUFFICES ASSUME UInv, NEW u \in v1, NEW w \in v1, u.n < w.n, u.time = w.time, u.seq = w.seq
               PROVE  w.bump - u.bump >= SeqMod
    BY DEF V1Unique, U!V1Unique
  <2>1. /\ u.bump \in Nat /\ w.bump \in Nat /\ u.time \in Nat /\ w.time \in Nat /\ u.seq \in Int
        /\ u.bump < w.bump /\ bumps \in Nat /\ SeqMod \in Nat \ {0} /\ clockSequence \in Int
    <3>1. SeqMod \in Nat \ {0}
      BY LibraryAssumption DEF U!UuidAssumption
    <3>2. Issued(u) /\ Issued(w) /\ Ordered(u, w) /\ bumps \in Nat
      BY DEF UInv
    <3>3. clockSequence \in Int
      BY <3>1 DEF UInv
    <3>4. u.bump \in Nat /\ w.bump \in Nat /\ u.time \in Nat /\ w.time \in Nat
      BY <3>2 DEF Issued
    <3>5. u.seq \in Int
      BY <3>1, <3>2 DEF Issued
    <3>6. u.bump < w.bump
      BY <3>2, <3>4 DEF Ordered
    <3>. QED BY <3>1, <3>2, <3>3, <3>4, <3>5, <3>6
  <2>2. PICK k \in Int : u.seq = clockSequence - (bumps - u.bump) + k * SeqMod
    BY DEF UInv, Issued
  <2>3. PICK l \in Int : w.seq = clockSequence - (bumps - w.bump) + l * SeqMod
    BY DEF UInv, Issued
  <2>4. PICK d \in Int : d = k - l
    OBVIOUS
  <2>5. w.bump - u.bump = d * SeqMod
    <3>1. PICK ks, ls \in Int : ks = k * SeqMod /\ ls = l * SeqMod
      BY <2>1
    <3>2. d * SeqMod = ks - ls
      BY <2>1, <2>4, <3>1
    <3>3. u.seq = clockSequence - (bumps - u.bump) + ks /\ u.seq = clockSequence - (bumps - w.bump) + ls
      BY <2>2, <2>3, <3>1
    <3>4. w.bump - u.bump = ks - ls
      BY <2>1, <3>3
    <3>. QED BY <3>2, <3>4
  <2>6. d >= 1
    <3>1. d <= 0 => d * SeqMod <= 0
      BY <2>1
    <3>. QED BY <2>1, <2>5, <3>1
  <2>7. d * SeqMod >= SeqMod
    BY <2>1, <2>6
  <2>. QED BY <2>5, <2>7
<1>. QED BY <1>1, <1>2, StepUInv, PTL DEF AllSpec

-----------------------------------------------------------------------------
(* Observers                                                               *)

\* Whoever is past Instrument uses a client that is wrapped once: the one that
\* found it bare holds the mutex until its hook is in place.
OInv ==
    /\ user = [u \in Users |-> user[u]]
    /\ registered \in BOOLEAN
    /\ registered = FALSE => mutex = "free" /\ hooks = 0 /\ \A u \in Users : user[u] = "new"
    /\ mutex # "free" => mutex \in Users /\ user[mutex] = "wrap" /\ hooks = 0
    /\ \A u \in Users : /\ user[u] = "wrap" => mutex = u
                        /\ user[u] = "ready" => hooks = 1
    /\ registered = TRUE /\ mutex = "free" => hooks = 1
    /\ made \in Nat /\ samples = made
    /\ status.said = status.failed

LEMMA ReportKeeps ==
    ASSUME OInv, NEW failed \in BOOLEAN, NEW said \in BOOLEAN, said = failed, O!Report(1, failed, said)
    PROVE  OInv'
<1>1. UNCHANGED <<mutex, registered, hooks, user>>
  BY DEF O!Report
<1>2. CASE observer = "set"
  <2>1. made' = made + 1 /\ samples' = samples + 1 /\ status' = [failed |-> failed, said |-> said]
    BY <1>2 DEF O!Report
  <2>2. status'.said = status'.failed
    BY <2>1
  <2>. QED BY <1>1, <2>1, <2>2 DEF OInv
<1>3. CASE observer # "set"
  BY <1>1, <1>3 DEF O!Report, OInv
<1>. QED BY <1>2, <1>3

\* pipelineErr says "failed" exactly when one of the two commands failed.
LEMMA FirstOfTwo ==
    ASSUME NEW errs \in O!Errors \X O!Errors
    PROVE  (O!pipelineErr(errs) # "ok") <=> ("fail" \in O!Range(errs))
<1>1. PICK a \in O!Errors, b \in O!Errors : errs = <<a, b>>
  OBVIOUS
<1>2. Len(errs) = 2 /\ errs[1] = a /\ errs[2] = b /\ DOMAIN errs = 1 .. 2
  BY <1>1
<1>3. "fail" \in O!Range(errs) <=> (a = "fail" \/ b = "fail")
  <2>1. O!Range(errs) = {errs[x] : x \in 1 .. 2}
    BY <1>2 DEF O!Range
  <2>2. 1 .. 2 = {1, 2}
    OBVIOUS
  <2>. QED BY <1>2, <2>1, <2>2
<1>4. ASSUME NEW I \in SUBSET (1 .. 2), I # {}
      PROVE  O!Min(I) \in I
  <2>1. PICK m \in I : \A y \in I : m <= y
    <3>1. CASE 1 \in I
      <4>1. \A y \in I : 1 <= y
        OBVIOUS
      <4>. QED BY <3>1, <4>1
    <3>2. CASE 1 \notin I
      <4>1. \A y \in I : y = 2
        BY <3>2
      <4>2. PICK y \in I : TRUE
        BY <1>4
      <4>3. \A z \in I : z = y /\ y = 2
        BY <4>1
      <4>. QED BY <4>2, <4>3
    <3>. QED BY <3>1, <3>2
  <2>. QED BY <2>1 DEF O!Min
<1>5. CASE a = "fail" \/ b = "fail"
  <2> DEFINE I == {i \in 1 .. Len(errs) : errs[i] \notin {"ok", "Nil"}}
  <2>1. I \in SUBSET (1 .. 2) /\ I # {} /\ \A i \in I : errs[i] = "fail"
    BY <1>1, <1>2, <1>5 DEF O!Errors
  <2>2. O!SelectInSeq(errs, LAMBDA e : e \notin {"ok", "Nil"}) = O!Min(I)
    BY <2>1 DEF O!SelectInSeq
  <2>3. O!Min(I) \in I
    BY <1>4, <2>1
  <2>4. O!Min(I) # 0 /\ errs[O!Min(I)] = "fail"
    BY <2>1, <2>3
  <2> HIDE DEF I
  <2>5. O!pipelineErr(errs) = "fail"
    BY <2>2, <2>4 DEF O!pipelineErr
  <2>. QED BY <1>3, <1>5, <2>5
<1>6. CASE a # "fail" /\ b # "fail"
  <2> DEFINE I == {i \in 1 .. Len(errs) : errs[i] \notin {"ok", "Nil"}}
             J == {i \in 1 .. Len(errs) : errs[i] # "ok"}
  <2>1. I = {} /\ J \in SUBSET (1 .. 2) /\ \A i \in J : errs[i] = "Nil"
    BY <1>1, <1>2, <1>6 DEF O!Errors
  <2>2. O!SelectInSeq(errs, LAMBDA e : e \notin {"ok", "Nil"}) = 0
    BY <2>1 DEF O!SelectInSeq
  <2>3. O!pipelineErr(errs) = O!normalizeRedisErr(O!TopError(errs))
    BY <2>2 DEF O!pipelineErr
  <2>4. O!SelectInSeq(errs, LAMBDA e : e # "ok") = IF J # {} THEN O!Min(J) ELSE 0
    BY DEF O!SelectInSeq
  <2>5. J # {} => O!Min(J) \in J
    BY <1>4, <2>1
  <2>6. O!TopError(errs) \in {"ok", "Nil"}
    <3>1. CASE J = {}
      BY <2>4, <3>1 DEF O!TopError
    <3>2. CASE J # {}
      <4>1. O!SelectInSeq(errs, LAMBDA e : e # "ok") = O!Min(J) /\ errs[O!Min(J)] = "Nil" /\ O!Min(J) # 0
        BY <2>1, <2>4, <2>5, <3>2
      <4> HIDE DEF J
      <4>. QED BY <4>1 DEF O!TopError
    <3>. QED BY <3>1, <3>2
  <2>7. O!pipelineErr(errs) = "ok"
    BY <2>3, <2>6 DEF O!normalizeRedisErr
  <2>. QED BY <1>3, <1>6, <2>7
<1>. QED BY <1>5, <1>6

LEMMA StepOInv == ASSUME OInv, [AllNext]_AllVars PROVE OInv'
<1>1. CASE UNCHANGED <<mutex, registered, hooks, user, made, samples, status>>
  BY <1>1 DEF OInv
<1>2. ASSUME NEW u \in Users, O!Instrument(u) PROVE OInv'
  <2>1. /\ user[u] = "new" /\ mutex = "free" /\ registered' = TRUE
        /\ UNCHANGED <<hooks, made, samples, status>>
    BY <1>2 DEF O!Instrument
  <2>2. CASE registered = TRUE
    <3>1. user' = [user EXCEPT ![u] = "ready"] /\ mutex' = mutex
      BY <1>2, <2>2 DEF O!Instrument
    <3>. QED BY <2>1, <2>2, <3>1 DEF OInv
  <2>3. CASE registered = FALSE
    <3>1. user' = [user EXCEPT ![u] = "wrap"] /\ mutex' = u
      BY <1>2, <2>3 DEF O!Instrument
    <3>2. u # "free"
      BY LibraryAssumption DEF O!ObserversAssumption
    <3>. QED BY <2>1, <2>3, <3>1, <3>2 DEF OInv
  <2>. QED BY <2>2, <2>3 DEF OInv
<1>3. ASSUME NEW u \in Users, O!wrapClient(u) PROVE OInv'
  <2>1. /\ user[u] = "wrap" /\ hooks' = hooks + 1 /\ user' = [user EXCEPT ![u] = "ready"]
        /\ mutex' = "free" /\ UNCHANGED <<registered, made, samples, status>>
    BY <1>3 DEF O!wrapClient
  <2>2. u # "free"
    BY LibraryAssumption DEF O!ObserversAssumption
  <2>3. mutex = u /\ hooks = 0
    BY <2>1, <2>2 DEF OInv
  <2>4. \A w \in Users : user[w] = "wrap" => w = u
    BY <2>3 DEF OInv
  <2>. QED BY <2>1, <2>3, <2>4 DEF OInv
<1>4. ASSUME NEW u \in Users, NEW e \in O!Errors, O!Command(u, e) PROVE OInv'
  <2>1. hooks = 1 /\ O!Report(hooks, e = "fail", O!normalizeRedisErr(e) # "ok")
    BY <1>4 DEF O!Command, OInv
  <2>2. (O!normalizeRedisErr(e) # "ok") = (e = "fail")
    BY DEF O!normalizeRedisErr, O!Errors
  <2>3. (e = "fail") \in BOOLEAN /\ (O!normalizeRedisErr(e) # "ok") \in BOOLEAN
    OBVIOUS
  <2>. QED BY <2>1, <2>2, <2>3, ReportKeeps
<1>5. ASSUME NEW u \in Users, NEW errs \in O!Errors \X O!Errors, O!Pipeline(u, errs) PROVE OInv'
  <2>1. hooks = 1 /\ O!Report(hooks, "fail" \in O!Range(errs), O!pipelineErr(errs) # "ok")
    BY <1>5 DEF O!Pipeline, OInv
  <2>2. (O!pipelineErr(errs) # "ok") = ("fail" \in O!Range(errs))
    BY FirstOfTwo
  <2>3. ("fail" \in O!Range(errs)) \in BOOLEAN /\ (O!pipelineErr(errs) # "ok") \in BOOLEAN
    OBVIOUS
  <2>. QED BY <2>1, <2>2, <2>3, ReportKeeps
<1>6. ASSUME NEW e \in {"ok", "fail", "skip"}, O!Statement(e) PROVE OInv'
  <2>1. CASE e = "skip"
    BY <1>1, <1>6, <2>1 DEF O!Statement, O!obsVars
  <2>2. CASE e # "skip"
    <3>1. O!Report(1, e = "fail", e # "ok")
      BY <1>6, <2>2 DEF O!Statement
    <3>2. (e # "ok") = (e = "fail")
      BY <2>2
    <3>3. (e = "fail") \in BOOLEAN /\ (e # "ok") \in BOOLEAN
      OBVIOUS
    <3>. QED BY <3>1, <3>2, <3>3, ReportKeeps
  <2>. QED BY <2>1, <2>2
<1>7. ASSUME NEW o, O!SetObserver(o) PROVE OInv'
  BY <1>1, <1>7 DEF O!SetObserver
<1>8. CASE O!Next
  BY <1>2, <1>3, <1>4, <1>5, <1>6, <1>7, <1>8 DEF O!Next
<1>. QED BY <1>1, <1>8 DEF AllNext, AllVars, obsVars

\* Instrument, the hooks and pipelineErr, for any number of goroutines that share
\* a client and any number of calls.
THEOREM ReportsAreTrue == AllSpec => []ReportsTrue
<1>1. AllInit => OInv
  <2> SUFFICES ASSUME O!Init PROVE OInv
    BY DEF AllInit
  <2>1. user = [u \in Users |-> "new"] /\ status = [failed |-> FALSE, said |-> FALSE]
    BY DEF O!Init
  <2>2. user = [u \in Users |-> user[u]] /\ \A u \in Users : user[u] = "new"
    BY <2>1
  <2>3. status.said = status.failed
    BY <2>1
  <2>4. mutex = "free" /\ registered = FALSE /\ hooks = 0 /\ made = 0 /\ samples = 0
    BY DEF O!Init
  <2>5. FALSE \in BOOLEAN /\ 0 \in Nat /\ FALSE # TRUE
    OBVIOUS
  <2>. QED BY <2>2, <2>3, <2>4, <2>5 DEF OInv
<1>2. OInv => ReportsTrue
  BY DEF OInv, ReportsTrue, O!CountedOnce, O!StatusTrue
<1>. QED BY <1>1, <1>2, StepOInv, PTL DEF AllSpec

-----------------------------------------------------------------------------
(* Redis connection                                                        *)

\* A value of a command of K that is on its way to a client, or that a client got.
OnTheWay(c, K) == call[c].st = "applied" /\ call[c].op \in K /\ call[c].reply # <<>>
Got(r, K)      == r.op \in K /\ r.ok /\ r.value # <<>>

Given(K) ==
    {call[c].reply : c \in {d \in Clients : OnTheWay(d, K)}}
        \cup {r.value : r \in {s \in replies : Got(s, K)}}

\* No value of a command of K is given twice.
Distinct(K) ==
    /\ \A c, d \in Clients :
           OnTheWay(c, K) /\ OnTheWay(d, K) /\ call[c].reply = call[d].reply => c = d
    /\ \A c \in Clients, r \in replies : OnTheWay(c, K) /\ Got(r, K) => call[c].reply # r.value
    /\ \A r, s \in replies : Got(r, K) /\ Got(s, K) /\ r.value = s.value => r = s

CallType ==
    /\ call = [c \in Clients |-> call[c]]
    /\ \A c \in Clients :
           /\ DOMAIN call[c] = {"op", "st", "tries", "reply"}
           /\ call[c].op \in R!Ops /\ call[c].st \in {"idle", "sent", "applied"}
           /\ call[c].tries \in Nat
           /\ call[c].st # "idle" => call[c].tries \in 1 .. R!MaxRetries + 1

\* The executions of Incr that can still come: one per attempt that is left.
Left(c, k) ==
    /\ call[c].op = "Incr"
    /\ \/ call[c].st = "sent" /\ k >= call[c].tries
       \/ call[c].st = "applied" /\ k > call[c].tries

Attempts == {p \in Clients \X (1 .. R!MaxRetries + 1) : Left(p[1], p[2])}

CounterInv ==
    /\ counter \in Nat /\ calls \in [R!Ops -> Nat]
    /\ IsFiniteSet(Attempts)
    /\ counter + Cardinality(Attempts) <= (R!MaxRetries + 1) * calls["Incr"]

\* A successful Incr has a number up to the counter.
NumbersInv ==
    /\ Given({"Incr"}) \subseteq {<<n>> : n \in 1 .. counter}
    /\ \A c \in Clients : call[c].st = "applied" /\ call[c].op = "Incr" => call[c].reply # <<>>
    /\ \A r \in R!Good("Incr") : r.value # <<>>
    /\ Distinct({"Incr"})

Moves == {"Lpop", "BRPoplpush"}

\* An element given to a client has left the source.
ElementsInv ==
    /\ source \in Seq(R!Range(Elements)) /\ R!IsInjective(source)
    /\ destination \in Seq(R!Range(Elements))
    /\ IsFiniteSet(taken) /\ taken \subseteq R!Range(Elements)
    /\ R!Range(source) \cap (R!Range(destination) \cup taken) = {}
    /\ R!Range(destination) \cap taken = {}
    /\ R!Range(source) \cup R!Range(destination) \cup taken = R!Range(Elements)
    /\ Len(source) + Len(destination) + Cardinality(taken) = Len(Elements)
    /\ Given(Moves) \subseteq {<<x>> : x \in R!Range(destination) \cup taken}
    /\ Distinct(Moves)

RInv == CallType /\ CounterInv /\ NumbersInv /\ ElementsInv

LEMMA Bound == R!MaxRetries \in Nat
  BY LibraryAssumption DEF R!RedisConnAssumption, R!MaxRetries

\* A step that writes one client's call.
Writes(c, o, st, t, v) ==
    /\ call' = [d \in Clients |-> call'[d]]
    /\ DOMAIN call'[c] = {"op", "st", "tries", "reply"}
    /\ call'[c].op = o /\ call'[c].st = st /\ call'[c].tries = t /\ call'[c].reply = v
    /\ \A d \in Clients \ {c} : call'[d] = call[d]

LEMMA FieldWrites ==
    ASSUME CallType, NEW c \in Clients
    PROVE  /\ \A v : R!Answer(c, v) => Writes(c, call[c].op, "applied", call[c].tries, v)
           /\ \A ok, v : R!Return(c, ok, v) => Writes(c, call[c].op, "idle", call[c].tries, <<>>)
           /\ call' = [call EXCEPT ![c].st = "sent", ![c].tries = @ + 1, ![c].reply = <<>>]
                  => Writes(c, call[c].op, "sent", call[c].tries + 1, <<>>)
           /\ \A o : R!Call(c, o) => Writes(c, o, "sent", 1, <<>>)
<1>1. DOMAIN call = Clients /\ DOMAIN call[c] = {"op", "st", "tries", "reply"}
  BY DEF CallType
<1>2. ASSUME NEW v, R!Answer(c, v) PROVE Writes(c, call[c].op, "applied", call[c].tries, v)
  BY <1>1, <1>2 DEF R!Answer, Writes
<1>3. ASSUME NEW v, NEW ok, R!Return(c, ok, v) PROVE Writes(c, call[c].op, "idle", call[c].tries, <<>>)
  BY <1>1, <1>3 DEF R!Return, Writes
<1>4. ASSUME call' = [call EXCEPT ![c].st = "sent", ![c].tries = @ + 1, ![c].reply = <<>>]
      PROVE Writes(c, call[c].op, "sent", call[c].tries + 1, <<>>)
  BY <1>1, <1>4 DEF Writes
<1>5. ASSUME NEW o, R!Call(c, o) PROVE Writes(c, o, "sent", 1, <<>>)
  BY <1>1, <1>5 DEF R!Call, Writes
<1>. QED BY <1>2, <1>3, <1>4, <1>5

LEMMA WritesType ==
    ASSUME CallType, NEW c \in Clients, NEW o \in R!Ops, NEW st \in {"idle", "sent", "applied"},
           NEW t \in Nat, NEW v, st # "idle" => t \in 1 .. R!MaxRetries + 1, Writes(c, o, st, t, v)
    PROVE  CallType'
  BY DEF CallType, Writes

\* What does not answer a command of K gives no value of K.
LEMMA QuietGives ==
    ASSUME NEW K, Distinct(K), NEW c \in Clients, NEW o, NEW st, NEW t, NEW v,
           Writes(c, o, st, t, v), replies' = replies, ~(st = "applied" /\ o \in K /\ v # <<>>)
    PROVE  Distinct(K)' /\ Given(K)' \subseteq Given(K)
<1>1. ~OnTheWay(c, K)'
  BY DEF OnTheWay, Writes
<1>2. \A d \in Clients \ {c} : (OnTheWay(d, K)' <=> OnTheWay(d, K)) /\ call'[d].reply = call[d].reply
  BY DEF OnTheWay, Writes
<1>3. Distinct(K)'
  BY <1>1, <1>2 DEF Distinct, Got
<1>4. Given(K)' \subseteq Given(K)
  BY <1>1, <1>2 DEF Given, Got
<1>. QED BY <1>3, <1>4

LEMMA FreshGives ==
    ASSUME NEW K, Distinct(K), NEW c \in Clients, NEW o, NEW st, NEW t, NEW v,
           Writes(c, o, st, t, v), replies' = replies, v \notin Given(K)
    PROVE  Distinct(K)' /\ Given(K)' \subseteq Given(K) \cup {v}
<1>1. call'[c].reply = v
  BY DEF Writes
<1>2. \A d \in Clients \ {c} : (OnTheWay(d, K)' <=> OnTheWay(d, K)) /\ call'[d].reply = call[d].reply
  BY DEF OnTheWay, Writes
<1>3. /\ \A d \in Clients : OnTheWay(d, K) => call[d].reply # v
      /\ \A r \in replies : Got(r, K) => r.value # v
  BY DEF Given
<1>4. Distinct(K)'
  BY <1>1, <1>2, <1>3 DEF Distinct, Got
<1>5. Given(K)' \subseteq Given(K) \cup {v}
  BY <1>1, <1>2 DEF Given, Got
<1>. QED BY <1>4, <1>5

\* A call returns the value that was on its way, or none.
LEMMA ReturnGives ==
    ASSUME NEW K, CallType, Distinct(K), NEW c \in Clients, NEW ok, NEW v, R!Return(c, ok, v),
           ok /\ call[c].op \in K /\ v # <<>> => OnTheWay(c, K) /\ v = call[c].reply
    PROVE  Distinct(K)' /\ Given(K)' \subseteq Given(K)
<1>1. Writes(c, call[c].op, "idle", call[c].tries, <<>>)
  BY FieldWrites
<1>2. ~OnTheWay(c, K)'
  BY <1>1 DEF OnTheWay, Writes
<1>3. \A d \in Clients \ {c} : (OnTheWay(d, K)' <=> OnTheWay(d, K)) /\ call'[d].reply = call[d].reply
  BY <1>1 DEF OnTheWay, Writes
<1>4. PICK new : /\ replies' = replies \cup {new}
                 /\ Got(new, K) => OnTheWay(c, K) /\ new.value = call[c].reply
  <2> DEFINE r == [n |-> R!Cardinality(replies), op |-> call[c].op, ok |-> ok, value |-> v]
  <2>1. replies' = replies \cup {r}
    BY DEF R!Return
  <2>2. r.op = call[c].op /\ r.ok = ok /\ r.value = v
    OBVIOUS
  <2>3. ASSUME Got(r, K) PROVE OnTheWay(c, K) /\ r.value = call[c].reply
    <3> HIDE DEF r
    <3>1. r.op \in K /\ r.ok /\ r.value # <<>>
      BY <2>3 DEF Got
    <3>2. ok
      BY <2>2, <3>1, Zenon
    <3>. QED BY <2>2, <3>1, <3>2
  <2> HIDE DEF r
  <2>. QED BY <2>1, <2>3
<1>5. \A r \in replies : Got(r, K)' <=> Got(r, K)
  BY DEF Got
<1>6. Distinct(K)'
  <2>1. \A d, e \in Clients : (OnTheWay(d, K) /\ OnTheWay(e, K) /\ call[d].reply = call[e].reply => d = e)'
    BY <1>2, <1>3 DEF Distinct
  <2>2. \A d \in Clients, r \in replies' : (OnTheWay(d, K)' /\ Got(r, K) => call'[d].reply # r.value)
    BY <1>2, <1>3, <1>4 DEF Distinct
  <2>3. \A r, s \in replies' : Got(r, K) /\ Got(s, K) /\ r.value = s.value => r = s
    BY <1>4 DEF Distinct
  <2>. QED BY <2>1, <2>2, <2>3 DEF Distinct, Got
<1>7. Given(K)' \subseteq Given(K)
  BY <1>2, <1>3, <1>4 DEF Given, Got
<1>. QED BY <1>6, <1>7

LEMMA AttemptsShrink ==
    ASSUME NEW c \in Clients, NEW o, NEW st, NEW t, NEW v, Writes(c, o, st, t, v),
           \A k \in 1 .. R!MaxRetries + 1 : Left(c, k)' => Left(c, k)
    PROVE  Attempts' \subseteq Attempts
<1>1. \A d \in Clients \ {c}, k \in 1 .. R!MaxRetries + 1 : Left(d, k)' <=> Left(d, k)
  BY DEF Left, Writes
<1>2. \A d \in Clients, k \in 1 .. R!MaxRetries + 1 : Left(d, k)' => Left(d, k)
  BY <1>1
<1>3. Attempts' = {p \in Clients \X (1 .. R!MaxRetries + 1) : Left(p[1], p[2])'}
  BY DEF Attempts, Left
<1>4. \A p \in Clients \X (1 .. R!MaxRetries + 1) : p[1] \in Clients /\ p[2] \in 1 .. R!MaxRetries + 1
  OBVIOUS
<1>. QED BY <1>2, <1>3, <1>4 DEF Attempts

LEMMA CounterKept ==
    ASSUME CounterInv, Attempts' \subseteq Attempts, counter' = counter,
           calls' \in [R!Ops -> Nat], calls'["Incr"] = calls["Incr"]
    PROVE  CounterInv'
<1>1. /\ IsFiniteSet(Attempts) /\ counter \in Nat
      /\ counter + Cardinality(Attempts) <= (R!MaxRetries + 1) * calls["Incr"]
  BY DEF CounterInv
<1>2. IsFiniteSet(Attempts') /\ Cardinality(Attempts') <= Cardinality(Attempts)
  BY <1>1, FS_Subset
<1>3. Cardinality(Attempts) \in Nat /\ Cardinality(Attempts') \in Nat
  BY <1>1, <1>2, FS_CardinalityType
<1>4. PICK b : b = (R!MaxRetries + 1) * calls["Incr"] /\ b \in Int
  <2>1. calls["Incr"] \in Nat
    BY DEF CounterInv, R!Ops, R!Keys
  <2>. QED BY <2>1, Bound
<1>5. counter' + Cardinality(Attempts') <= b
  BY <1>1, <1>2, <1>3, <1>4
<1>6. b = (R!MaxRetries + 1) * calls'["Incr"]
  BY <1>4
<1>. QED BY <1>1, <1>2, <1>5, <1>6 DEF CounterInv

LEMMA IncrCounts ==
    ASSUME CallType, CounterInv, NEW c \in Clients, call[c].st = "sent", R!Incr(c)
    PROVE  CounterInv'
<1>1. /\ call[c].op = "Incr" /\ counter' = counter + 1 /\ calls' = calls
      /\ Writes(c, "Incr", "applied", call[c].tries, <<counter + 1>>)
  BY FieldWrites DEF R!Incr
<1>2. /\ IsFiniteSet(Attempts) /\ counter \in Nat /\ calls \in [R!Ops -> Nat] /\ calls["Incr"] \in Nat
      /\ counter + Cardinality(Attempts) <= (R!MaxRetries + 1) * calls["Incr"]
  BY DEF CounterInv, R!Ops, R!Keys
<1>3. PICK b : b = (R!MaxRetries + 1) * calls["Incr"] /\ b \in Int
  BY <1>2, Bound
<1>4. PICK t \in 1 .. R!MaxRetries + 1 : t = call[c].tries
  BY DEF CallType
<1>5. <<c, t>> \in Attempts
  <2>1. Left(c, t)
    BY <1>1, <1>4, Bound DEF Left
  <2>2. <<c, t>>[1] = c /\ <<c, t>>[2] = t /\ <<c, t>> \in Clients \X (1 .. R!MaxRetries + 1)
    OBVIOUS
  <2>. QED BY <2>1, <2>2 DEF Attempts
<1>6. Attempts' \subseteq Attempts \ {<<c, t>>}
  <2>1. \A k \in 1 .. R!MaxRetries + 1 : Left(c, k)' => Left(c, k) /\ k # t
    BY <1>1, <1>4, Bound DEF Left, Writes
  <2>2. Attempts' \subseteq Attempts
    BY <1>1, <2>1, AttemptsShrink
  <2>3. <<c, t>> \notin Attempts'
    <3>1. ~Left(c, t)'
      BY <2>1
    <3>. QED BY <3>1 DEF Attempts, Left
  <2>. QED BY <2>2, <2>3
<1>7. /\ IsFiniteSet(Attempts \ {<<c, t>>})
      /\ Cardinality(Attempts \ {<<c, t>>}) = Cardinality(Attempts) - 1
  BY <1>2, <1>5, FS_RemoveElement
<1>8. IsFiniteSet(Attempts') /\ Cardinality(Attempts') <= Cardinality(Attempts \ {<<c, t>>})
  BY <1>6, <1>7, FS_Subset
<1>9. Cardinality(Attempts) \in Nat /\ Cardinality(Attempts') \in Nat
  BY <1>2, <1>8, FS_CardinalityType
<1>10. counter' \in Nat /\ counter' + Cardinality(Attempts') <= b
  BY <1>1, <1>2, <1>3, <1>7, <1>8, <1>9
<1>11. b = (R!MaxRetries + 1) * calls'["Incr"]
  BY <1>1, <1>3
<1>. QED BY <1>1, <1>2, <1>8, <1>10, <1>11 DEF CounterInv

LEMMA CallCounts ==
    ASSUME CallType, CounterInv, NEW c \in Clients, NEW o \in R!Ops, R!Call(c, o)
    PROVE  CounterInv'
<1>1. /\ counter' = counter /\ calls' = [calls EXCEPT ![o] = @ + 1]
      /\ Writes(c, o, "sent", 1, <<>>)
  BY FieldWrites DEF R!Call
<1>2. /\ IsFiniteSet(Attempts) /\ counter \in Nat /\ calls \in [R!Ops -> Nat] /\ calls["Incr"] \in Nat
      /\ "Incr" \in R!Ops
      /\ counter + Cardinality(Attempts) <= (R!MaxRetries + 1) * calls["Incr"]
  BY DEF CounterInv, R!Ops, R!Keys
<1>3. calls' \in [R!Ops -> Nat]
  BY <1>1, <1>2
<1>4. CASE o # "Incr"
  <2>1. calls'["Incr"] = calls["Incr"]
    BY <1>1, <1>2, <1>4
  <2>2. \A k \in 1 .. R!MaxRetries + 1 : ~Left(c, k)'
    BY <1>1, <1>4 DEF Left, Writes
  <2>. QED BY <1>1, <1>3, <2>1, <2>2, AttemptsShrink, CounterKept
<1>5. CASE o = "Incr"
  <2> DEFINE N == 1 .. R!MaxRetries + 1
             New == {c} \X N
  <2>1. calls'["Incr"] = calls["Incr"] + 1
    BY <1>1, <1>2, <1>5
  <2>2. Attempts' \subseteq Attempts \cup New
    <3>1. \A d \in Clients \ {c}, k \in N : Left(d, k)' <=> Left(d, k)
      BY <1>1 DEF Left, Writes
    <3>2. Attempts' = {p \in Clients \X N : Left(p[1], p[2])'}
      BY DEF Attempts, Left
    <3>3. \A p \in Clients \X N : p[1] \in Clients /\ p[2] \in N /\ (p[1] = c => p \in New)
      OBVIOUS
    <3> HIDE DEF New
    <3>. QED BY <3>1, <3>2, <3>3 DEF Attempts
  <2>3. IsFiniteSet(New) /\ Cardinality(New) = R!MaxRetries + 1
    <3>1. IsFiniteSet(N) /\ Cardinality(N) = R!MaxRetries + 1
      BY Bound, FS_Interval
    <3>2. IsFiniteSet({c}) /\ Cardinality({c}) = 1
      BY FS_Singleton
    <3>3. IsFiniteSet(New) /\ Cardinality(New) = Cardinality({c}) * Cardinality(N)
      <4> HIDE DEF N
      <4>. QED BY <3>1, <3>2, FS_Product
    <3>. QED BY <3>1, <3>2, <3>3, Bound
  <2> HIDE DEF N, New
  <2>4. /\ IsFiniteSet(Attempts \cup New)
        /\ Cardinality(Attempts \cup New)
               = Cardinality(Attempts) + Cardinality(New) - Cardinality(Attempts \cap New)
        /\ IsFiniteSet(Attempts \cap New)
    BY <1>2, <2>3, FS_Union, FS_Intersection
  <2>5. IsFiniteSet(Attempts') /\ Cardinality(Attempts') <= Cardinality(Attempts \cup New)
    BY <2>2, <2>4, FS_Subset
  <2>6. /\ Cardinality(Attempts) \in Nat /\ Cardinality(Attempts') \in Nat
        /\ Cardinality(Attempts \cap New) \in Nat
    BY <1>2, <2>4, <2>5, FS_CardinalityType
  <2>7. (R!MaxRetries + 1) * calls'["Incr"] = (R!MaxRetries + 1) * calls["Incr"] + (R!MaxRetries + 1)
        /\ (R!MaxRetries + 1) * calls["Incr"] \in Int
    <3>1. PICK m, n \in Int : m = R!MaxRetries + 1 /\ n = calls["Incr"]
      BY <1>2, Bound
    <3>2. m * (n + 1) = m * n + m /\ m * n \in Int
      OBVIOUS
    <3>. QED BY <2>1, <3>1, <3>2
  <2>8. PICK b, m \in Int : /\ b = (R!MaxRetries + 1) * calls["Incr"] /\ m = R!MaxRetries + 1
                            /\ (R!MaxRetries + 1) * calls'["Incr"] = b + m
    BY <2>7, Bound
  <2>9. counter' + Cardinality(Attempts') <= b + m
    <3>1. PICK u, x, y, z \in Nat :
              /\ u = counter /\ x = Cardinality(Attempts) /\ y = Cardinality(Attempts')
              /\ z = Cardinality(Attempts \cap New)
      BY <1>2, <2>6
    <3>2. u + x <= b /\ y <= x + m - z
      BY <1>2, <2>3, <2>4, <2>5, <2>8, <3>1
    <3>3. u + y <= b + m
      BY <3>2
    <3>. QED BY <1>1, <3>1, <3>3
  <2>. QED BY <1>1, <1>2, <1>3, <2>5, <2>8, <2>9 DEF CounterInv
<1>. QED BY <1>4, <1>5

LEMMA RangeIs ==
    ASSUME NEW E, NEW s \in Seq(E)
    PROVE  /\ Len(s) \in Nat
           /\ \A x : x \in R!Range(s) <=> \E i \in 1 .. Len(s) : x = s[i]
           /\ R!Range(s) \subseteq E
           /\ R!IsInjective(s) <=> \A i, j \in 1 .. Len(s) : s[i] = s[j] => i = j
<1>1. Len(s) \in Nat /\ DOMAIN s = 1 .. Len(s)
  BY LenProperties
<1>2. \A i \in 1 .. Len(s) : s[i] \in E
  BY ElementOfSeq
<1>3. R!Range(s) = {s[i] : i \in 1 .. Len(s)}
  BY <1>1, Zenon DEF R!Range
<1>4. \A x : x \in R!Range(s) <=> \E i \in 1 .. Len(s) : x = s[i]
  BY <1>3
<1>5. R!IsInjective(s) <=> \A i, j \in 1 .. Len(s) : s[i] = s[j] => i = j
  BY <1>1, Zenon DEF R!IsInjective
<1>6. R!Range(s) \subseteq E
  BY <1>2, <1>4
<1>. QED BY <1>1, <1>4, <1>5, <1>6, Zenon

LEMMA HeadLeaves ==
    ASSUME NEW E, NEW s \in Seq(E), s # <<>>, R!IsInjective(s)
    PROVE  /\ Head(s) \in R!Range(s) /\ Tail(s) \in Seq(E) /\ Len(Tail(s)) = Len(s) - 1
           /\ R!IsInjective(Tail(s)) /\ R!Range(Tail(s)) = R!Range(s) \ {Head(s)}
<1>1. Tail(s) \in Seq(E) /\ Len(Tail(s)) = Len(s) - 1 /\ \A i \in 1 .. Len(Tail(s)) : Tail(s)[i] = s[i + 1]
  BY HeadTailProperties
<1>2. Len(s) \in Nat \ {0}
  BY EmptySeq
<1>3. Head(s) = s[1]
  OBVIOUS
<1>4. /\ (\A x : x \in R!Range(s) <=> \E i \in 1 .. Len(s) : x = s[i]) /\ \A i, j \in 1 .. Len(s) : s[i] = s[j] => i = j
  BY RangeIs, Zenon
<1>5. /\ (\A x : x \in R!Range(Tail(s)) <=> \E i \in 1 .. Len(s) - 1 : x = Tail(s)[i])
      /\ R!IsInjective(Tail(s)) <=> \A i, j \in 1 .. Len(s) - 1 : Tail(s)[i] = Tail(s)[j] => i = j
  <2>1. \A y : y \in R!Range(Tail(s)) <=> \E i \in 1 .. Len(Tail(s)) : y = Tail(s)[i]
    BY <1>1, RangeIs, Zenon
  <2>2. R!IsInjective(Tail(s)) <=> \A i, j \in 1 .. Len(Tail(s)) : Tail(s)[i] = Tail(s)[j] => i = j
    BY <1>1, RangeIs, Zenon
  <2>. QED BY <1>1, <2>1, <2>2
<1>6. \A i, j \in 1 .. Len(s) - 1 : s[i + 1] = s[j + 1] => i = j
  BY <1>2, <1>4
<1>7. R!IsInjective(Tail(s))
  BY <1>1, <1>5, <1>6
<1>8. R!Range(Tail(s)) = R!Range(s) \ {Head(s)}
  <2>1. ASSUME NEW x \in R!Range(Tail(s)) PROVE x \in R!Range(s) \ {Head(s)}
    <3>1. PICK i \in 1 .. Len(s) - 1 : x = s[i + 1]
      BY <1>1, <1>5
    <3>2. i + 1 \in 1 .. Len(s) /\ 1 \in 1 .. Len(s) /\ i + 1 # 1
      BY <1>2
    <3>. QED BY <1>3, <1>4, <3>1, <3>2
  <2>2. ASSUME NEW x \in R!Range(s), x # Head(s) PROVE x \in R!Range(Tail(s))
    <3>1. PICK i \in 1 .. Len(s) : x = s[i]
      BY <1>4
    <3>2. i - 1 \in 1 .. Len(s) - 1 /\ (i - 1) + 1 = i
      BY <1>2, <1>3, <2>2, <3>1
    <3>3. Tail(s)[i - 1] = x
      BY <1>1, <3>1, <3>2
    <3>. QED BY <1>5, <3>2, <3>3
  <2>. QED BY <2>1, <2>2
<1>. QED BY <1>1, <1>2, <1>3, <1>4, <1>7, <1>8

LEMMA LastLeaves ==
    ASSUME NEW E, NEW s \in Seq(E), s # <<>>, R!IsInjective(s)
    PROVE  /\ R!Last(s) \in R!Range(s) /\ R!Front(s) \in Seq(E) /\ Len(R!Front(s)) = Len(s) - 1
           /\ R!IsInjective(R!Front(s)) /\ R!Range(R!Front(s)) = R!Range(s) \ {R!Last(s)}
<1>1. Len(s) \in Nat \ {0}
  BY EmptySeq
<1>2. \A i \in 1 .. Len(s) : s[i] \in E
  BY ElementOfSeq
<1>3. PICK n \in Nat : n = Len(s) - 1
  BY <1>1
<1>4. R!Front(s) \in Seq(E) /\ Len(R!Front(s)) = n /\ \A i \in 1 .. n : R!Front(s)[i] = s[i]
  <2>1. \A i \in 1 .. n : s[i] \in E
    BY <1>1, <1>2, <1>3
  <2>2. /\ SubSeq(s, 1, n) \in Seq(E) /\ Len(SubSeq(s, 1, n)) = IF 1 <= n THEN n - 1 + 1 ELSE 0
        /\ \A i \in 1 .. n - 1 + 1 : SubSeq(s, 1, n)[i] = s[1 + i - 1]
    BY <2>1, SubSeqProperties
  <2>3. R!Front(s) = SubSeq(s, 1, n)
    BY <1>3 DEF R!Front
  <2>. QED BY <2>2, <2>3
<1>5. R!Last(s) = s[n + 1] /\ n + 1 = Len(s)
  BY <1>1, <1>3 DEF R!Last
<1>6. /\ (\A x : x \in R!Range(s) <=> \E i \in 1 .. n + 1 : x = s[i]) /\ \A i, j \in 1 .. n + 1 : s[i] = s[j] => i = j
  <2>1. \A y : y \in R!Range(s) <=> \E i \in 1 .. Len(s) : y = s[i]
    BY RangeIs, Zenon
  <2>2. R!IsInjective(s) <=> \A i, j \in 1 .. Len(s) : s[i] = s[j] => i = j
    BY RangeIs, Zenon
  <2>. QED BY <1>5, <2>1, <2>2
<1>7. /\ (\A x : x \in R!Range(R!Front(s)) <=> \E i \in 1 .. n : x = R!Front(s)[i])
      /\ R!IsInjective(R!Front(s)) <=> \A i, j \in 1 .. n : R!Front(s)[i] = R!Front(s)[j] => i = j
  <2>1. \A y : y \in R!Range(R!Front(s)) <=> \E i \in 1 .. Len(R!Front(s)) : y = R!Front(s)[i]
    BY <1>4, RangeIs, Zenon
  <2>2. R!IsInjective(R!Front(s)) <=> \A i, j \in 1 .. Len(R!Front(s)) : R!Front(s)[i] = R!Front(s)[j] => i = j
    BY <1>4, RangeIs, Zenon
  <2>. QED BY <1>4, <2>1, <2>2
<1>8. R!IsInjective(R!Front(s))
  BY <1>4, <1>6, <1>7
<1>9. R!Range(R!Front(s)) = R!Range(s) \ {R!Last(s)}
  <2>1. ASSUME NEW x \in R!Range(R!Front(s)) PROVE x \in R!Range(s) \ {R!Last(s)}
    <3>1. PICK i \in 1 .. n : x = s[i]
      BY <1>4, <1>7
    <3>2. i \in 1 .. n + 1 /\ n + 1 \in 1 .. n + 1 /\ i # n + 1
      OBVIOUS
    <3>. QED BY <1>5, <1>6, <3>1, <3>2
  <2>2. ASSUME NEW x \in R!Range(s), x # R!Last(s) PROVE x \in R!Range(R!Front(s))
    <3>1. PICK i \in 1 .. n + 1 : x = s[i]
      BY <1>6
    <3>2. i \in 1 .. n
      BY <1>5, <2>2, <3>1
    <3>. QED BY <1>4, <1>7, <3>1, <3>2
  <2>. QED BY <2>1, <2>2
<1>. QED BY <1>3, <1>4, <1>5, <1>6, <1>8, <1>9

LEMMA PushAdds ==
    ASSUME NEW E, NEW s \in Seq(E), NEW x \in E
    PROVE  /\ <<x>> \o s \in Seq(E) /\ Len(<<x>> \o s) = Len(s) + 1
           /\ R!Range(<<x>> \o s) = R!Range(s) \cup {x}
<1>1. <<x>> \in Seq(E) /\ Len(<<x>>) = 1 /\ <<x>>[1] = x
  OBVIOUS
<1>2. Len(s) \in Nat /\ \A y : y \in R!Range(s) <=> \E i \in 1 .. Len(s) : y = s[i]
  BY RangeIs, Zenon
<1>3. PICK t : /\ t = <<x>> \o s /\ t \in Seq(E) /\ Len(t) = Len(s) + 1
               /\ \A i \in 1 .. Len(s) + 1 : t[i] = IF i <= 1 THEN x ELSE s[i - 1]
  <2>1. /\ <<x>> \o s \in Seq(E) /\ Len(<<x>> \o s) = 1 + Len(s)
        /\ \A i \in 1 .. 1 + Len(s) : (<<x>> \o s)[i] = IF i <= 1 THEN <<x>>[i] ELSE s[i - 1]
    BY <1>1, ConcatProperties
  <2>2. \A i \in 1 .. 1 + Len(s) : i <= 1 => <<x>>[i] = x
    BY <1>1, <1>2
  <2> DEFINE t == <<x>> \o s
  <2>3. t \in Seq(E) /\ Len(t) = Len(s) + 1
    BY <1>2, <2>1
  <2>4. \A i \in 1 .. Len(s) + 1 : t[i] = IF i <= 1 THEN x ELSE s[i - 1]
    BY <1>2, <2>1, <2>2
  <2> HIDE DEF t
  <2>. QED
    <3>1. t = <<x>> \o s
      BY DEF t
    <3>. QED BY <2>3, <2>4, <3>1
<1>4. \A y : y \in R!Range(t) <=> \E i \in 1 .. Len(s) + 1 : y = t[i]
  <2>1. \A y : y \in R!Range(t) <=> \E i \in 1 .. Len(t) : y = t[i]
    <3>1. t \in Seq(E)
      BY <1>3
    <3>. QED BY <3>1, RangeIs, Zenon
  <2>. QED BY <1>3, <2>1
<1>5. t[1] = x /\ \A i \in 1 .. Len(s) : i + 1 \in 1 .. Len(s) + 1 /\ t[i + 1] = s[i]
  BY <1>2, <1>3
<1>6. ASSUME NEW y \in R!Range(t) PROVE y \in R!Range(s) \cup {x}
  <2>1. PICK i \in 1 .. Len(s) + 1 : y = t[i]
    BY <1>4
  <2>2. CASE i <= 1
    BY <1>3, <2>1, <2>2
  <2>3. CASE ~(i <= 1)
    <3>1. i - 1 \in 1 .. Len(s) /\ y = s[i - 1]
      BY <1>2, <1>3, <2>1, <2>3
    <3>. QED BY <1>2, <3>1
  <2>. QED BY <2>2, <2>3
<1>7. \A y \in R!Range(s) \cup {x} : y \in R!Range(t)
  BY <1>2, <1>4, <1>5
<1>. QED BY <1>3, <1>6, <1>7

\* Steps that give nothing: neither the counter nor the lists change.
LEMMA NumbersKept ==
    ASSUME NumbersInv, counter' = counter, Distinct({"Incr"})', Given({"Incr"})' \subseteq Given({"Incr"}),
           \A c \in Clients : (call[c].st = "applied" /\ call[c].op = "Incr" => call[c].reply # <<>>)',
           \A r \in R!Good("Incr")' : r.value # <<>>
    PROVE  NumbersInv'
<1>1. Given({"Incr"})' \subseteq {<<n>> : n \in 1 .. counter'}
  BY DEF NumbersInv
<1>. QED BY <1>1 DEF NumbersInv

LEMMA ElementsUnmoved ==
    ASSUME ElementsInv, UNCHANGED <<source, destination, taken>>, Distinct(Moves)',
           Given(Moves)' \subseteq Given(Moves)
    PROVE  ElementsInv'
  BY DEF ElementsInv

\* An execution: the numbers.
LEMMA IncrNumbers ==
    ASSUME CallType, CounterInv, NumbersInv, NEW c \in Clients, R!Incr(c)
    PROVE  NumbersInv'
<1>1. /\ call[c].op = "Incr" /\ counter' = counter + 1 /\ replies' = replies
      /\ Writes(c, "Incr", "applied", call[c].tries, <<counter + 1>>)
  BY FieldWrites DEF R!Incr
<1>2. counter \in Nat /\ Given({"Incr"}) \subseteq {<<n>> : n \in 1 .. counter} /\ Distinct({"Incr"})
  BY DEF CounterInv, NumbersInv
<1>3. <<counter + 1>> \notin Given({"Incr"})
  <2>1. ASSUME NEW n \in 1 .. counter PROVE <<n>> # <<counter + 1>>
    <3>1. <<n>>[1] = n /\ <<counter + 1>>[1] = counter + 1
      OBVIOUS
    <3>2. n # counter + 1
      BY <1>2
    <3>. QED BY <3>1, <3>2
  <2>. QED BY <1>2, <2>1
<1>4. Distinct({"Incr"})' /\ Given({"Incr"})' \subseteq Given({"Incr"}) \cup {<<counter + 1>>}
  BY <1>1, <1>2, <1>3, FreshGives
<1>5. Given({"Incr"})' \subseteq {<<n>> : n \in 1 .. counter'}
  <2>1. \A n \in 1 .. counter : n \in 1 .. counter'
    BY <1>1, <1>2
  <2>2. counter + 1 \in 1 .. counter'
    BY <1>1, <1>2
  <2>. QED BY <1>2, <1>4, <2>1, <2>2
<1>6. \A d \in Clients : (call[d].st = "applied" /\ call[d].op = "Incr" => call[d].reply # <<>>)'
  <2>1. <<counter + 1>> # <<>>
    OBVIOUS
  <2>. QED BY <1>1, <2>1 DEF NumbersInv, Writes
<1>7. \A r \in R!Good("Incr")' : r.value # <<>>
  BY <1>1 DEF NumbersInv, R!Good
<1>. QED BY <1>4, <1>5, <1>6, <1>7 DEF NumbersInv

\* The lists before an execution.
Lists ==
    /\ source \in Seq(R!Range(Elements)) /\ R!IsInjective(source)
    /\ destination \in Seq(R!Range(Elements))
    /\ IsFiniteSet(taken) /\ taken \subseteq R!Range(Elements)
    /\ Len(source) \in Nat /\ Len(destination) \in Nat /\ Cardinality(taken) \in Nat
    /\ Len(Elements) \in Nat
    /\ R!Range(source) \subseteq R!Range(Elements)

LEMMA ListsFollow == ASSUME ElementsInv PROVE Lists
<1>1. Elements \in Seq(R!Range(Elements))
  BY LibraryAssumption DEF R!RedisConnAssumption
<1>2. source \in Seq(R!Range(Elements)) /\ destination \in Seq(R!Range(Elements))
  BY DEF ElementsInv
<1>3. Len(source) \in Nat /\ Len(destination) \in Nat /\ Len(Elements) \in Nat
  BY <1>1, <1>2, LenProperties
<1>4. R!Range(source) \subseteq R!Range(Elements)
  BY DEF ElementsInv
<1>5. Cardinality(taken) \in Nat
  BY FS_CardinalityType DEF ElementsInv
<1>. QED BY <1>3, <1>4, <1>5 DEF ElementsInv, Lists

\* An element that leaves the source was given to nobody.
LEMMA NotGiven ==
    ASSUME ElementsInv, NEW x \in R!Range(source)
    PROVE  <<x>> \notin Given(Moves)
<1>1. x \notin R!Range(destination) \cup taken
  BY DEF ElementsInv
<1>2. ASSUME NEW y \in R!Range(destination) \cup taken PROVE <<y>> # <<x>>
  <2>1. <<x>>[1] = x /\ <<y>>[1] = y
    OBVIOUS
  <2>. QED BY <1>1, <2>1
<1>. QED BY <1>2 DEF ElementsInv

LEMMA LpopMoves ==
    ASSUME CallType, ElementsInv, NEW c \in Clients, R!Lpop(c)
    PROVE  ElementsInv'
<1>1. Lists
  BY ListsFollow
<1>2. CASE source = <<>>
  <2>1. /\ Writes(c, call[c].op, "applied", call[c].tries, <<>>)
        /\ UNCHANGED <<source, destination, taken, replies>>
    BY <1>2, FieldWrites DEF R!Lpop
  <2>2. Distinct(Moves)
    BY DEF ElementsInv
  <2>3. Distinct(Moves)' /\ Given(Moves)' \subseteq Given(Moves)
    BY <2>1, <2>2, QuietGives
  <2>. QED BY <2>1, <2>3, ElementsUnmoved
<1>3. CASE source # <<>>
  <2>1. PICK x : x = Head(source)
    OBVIOUS
  <2>2. /\ Writes(c, call[c].op, "applied", call[c].tries, <<x>>)
        /\ source' = Tail(source) /\ taken' = taken \cup {x} /\ UNCHANGED <<destination, replies>>
    BY <1>3, <2>1, FieldWrites DEF R!Lpop
  <2>3. /\ x \in R!Range(source) /\ source' \in Seq(R!Range(Elements)) /\ Len(source') = Len(source) - 1
        /\ R!IsInjective(source') /\ R!Range(source') = R!Range(source) \ {x}
    BY <1>1, <1>3, <2>1, <2>2, HeadLeaves DEF Lists
  <2>4. x \notin taken /\ x \notin R!Range(destination) /\ x \in R!Range(Elements)
    BY <1>1, <2>3 DEF ElementsInv, Lists
  <2>5. IsFiniteSet(taken') /\ Cardinality(taken') = Cardinality(taken) + 1
    BY <1>1, <2>2, <2>4, FS_AddElement DEF Lists
  <2>6. Distinct(Moves)' /\ Given(Moves)' \subseteq Given(Moves) \cup {<<x>>}
    <3>1. Distinct(Moves)
      BY DEF ElementsInv
    <3>2. <<x>> \notin Given(Moves)
      BY <2>3, NotGiven
    <3>. QED BY <2>2, <3>1, <3>2, FreshGives
  <2>7. Given(Moves)' \subseteq {<<y>> : y \in R!Range(destination') \cup taken'}
    BY <2>2, <2>6 DEF ElementsInv
  <2>8. Len(source') + Len(destination') + Cardinality(taken') = Len(Elements)
    BY <1>1, <2>2, <2>3, <2>5 DEF ElementsInv, Lists
  <2>9. /\ taken' \subseteq R!Range(Elements)
        /\ R!Range(source') \cap (R!Range(destination') \cup taken') = {}
        /\ R!Range(destination') \cap taken' = {}
        /\ R!Range(source') \cup R!Range(destination') \cup taken' = R!Range(Elements)
    BY <2>2, <2>3, <2>4 DEF ElementsInv
  <2>10. destination' \in Seq(R!Range(Elements))
    BY <1>1, <2>2 DEF Lists
  <2>. QED BY <2>3, <2>5, <2>6, <2>7, <2>8, <2>9, <2>10 DEF ElementsInv
<1>. QED BY <1>2, <1>3

LEMMA BRPoplpushMoves ==
    ASSUME CallType, ElementsInv, NEW c \in Clients, R!BRPoplpush(c)
    PROVE  ElementsInv'
<1>1. Lists
  BY ListsFollow
<1>2. CASE source = <<>>
  <2>1. /\ Writes(c, call[c].op, "applied", call[c].tries, <<>>)
        /\ UNCHANGED <<source, destination, taken, replies>>
    BY <1>2, FieldWrites DEF R!BRPoplpush
  <2>2. Distinct(Moves)
    BY DEF ElementsInv
  <2>3. Distinct(Moves)' /\ Given(Moves)' \subseteq Given(Moves)
    BY <2>1, <2>2, QuietGives
  <2>. QED BY <2>1, <2>3, ElementsUnmoved
<1>3. CASE source # <<>>
  <2>1. PICK x : x = R!Last(source)
    OBVIOUS
  <2>2. /\ Writes(c, call[c].op, "applied", call[c].tries, <<x>>)
        /\ source' = R!Front(source) /\ destination' = <<x>> \o destination
        /\ UNCHANGED <<taken, replies>>
    BY <1>3, <2>1, FieldWrites DEF R!BRPoplpush
  <2>3. /\ x \in R!Range(source) /\ source' \in Seq(R!Range(Elements)) /\ Len(source') = Len(source) - 1
        /\ R!IsInjective(source') /\ R!Range(source') = R!Range(source) \ {x}
    BY <1>1, <1>3, <2>1, <2>2, LastLeaves DEF Lists
  <2>4. x \notin taken /\ x \notin R!Range(destination) /\ x \in R!Range(Elements)
    BY <1>1, <2>3 DEF ElementsInv, Lists
  <2>5. /\ destination' \in Seq(R!Range(Elements)) /\ Len(destination') = Len(destination) + 1
        /\ R!Range(destination') = R!Range(destination) \cup {x}
    BY <1>1, <2>2, <2>4, PushAdds DEF Lists
  <2>6. Distinct(Moves)' /\ Given(Moves)' \subseteq Given(Moves) \cup {<<x>>}
    <3>1. Distinct(Moves)
      BY DEF ElementsInv
    <3>2. <<x>> \notin Given(Moves)
      BY <2>3, NotGiven
    <3>. QED BY <2>2, <3>1, <3>2, FreshGives
  <2>7. Given(Moves)' \subseteq {<<y>> : y \in R!Range(destination') \cup taken'}
    BY <2>2, <2>5, <2>6 DEF ElementsInv
  <2>8. Len(source') + Len(destination') + Cardinality(taken') = Len(Elements)
    BY <1>1, <2>2, <2>3, <2>5 DEF ElementsInv, Lists
  <2>9. /\ R!Range(source') \cap (R!Range(destination') \cup taken') = {}
        /\ R!Range(destination') \cap taken' = {}
        /\ R!Range(source') \cup R!Range(destination') \cup taken' = R!Range(Elements)
    BY <2>2, <2>3, <2>4, <2>5 DEF ElementsInv
  <2>10. IsFiniteSet(taken') /\ taken' \subseteq R!Range(Elements)
    BY <1>1, <2>2 DEF Lists
  <2>. QED BY <2>3, <2>5, <2>6, <2>7, <2>8, <2>9, <2>10 DEF ElementsInv
<1>. QED BY <1>2, <1>3

LEMMA Counted == \A A : R!Cardinality(A) = Cardinality(A)
  BY DEF R!Cardinality, Cardinality

\* A step that writes one call, gives no number and no element, and leaves counter
\* and lists alone.
LEMMA QuietKeeps ==
    ASSUME RInv, NEW c \in Clients, NEW o \in R!Ops, NEW st \in {"idle", "sent", "applied"},
           NEW t \in Nat, NEW v, Writes(c, o, st, t, v),
           st # "idle" => t \in 1 .. R!MaxRetries + 1,
           st = "applied" => o \notin {"Incr"} \cup Moves,
           UNCHANGED <<counter, source, destination, taken, replies>>, CounterInv'
    PROVE  RInv'
<1>1. CallType'
  BY WritesType DEF RInv
<1>2. Distinct({"Incr"})' /\ Given({"Incr"})' \subseteq Given({"Incr"})
  BY QuietGives DEF RInv, NumbersInv
<1>3. Distinct(Moves)' /\ Given(Moves)' \subseteq Given(Moves)
  BY QuietGives DEF RInv, ElementsInv
<1>4. \A d \in Clients : (call[d].st = "applied" /\ call[d].op = "Incr" => call[d].reply # <<>>)'
  BY DEF RInv, NumbersInv, Writes
<1>5. \A r \in R!Good("Incr")' : r.value # <<>>
  BY DEF RInv, NumbersInv, R!Good
<1>6. NumbersInv'
  BY <1>2, <1>4, <1>5, NumbersKept DEF RInv
<1>7. ElementsInv'
  BY <1>3, ElementsUnmoved DEF RInv
<1>. QED BY <1>1, <1>6, <1>7 DEF RInv

LEMMA ReturnKeeps ==
    ASSUME RInv, NEW c \in Clients, NEW ok \in BOOLEAN, NEW v, R!Return(c, ok, v),
           ok => call[c].st = "applied" /\ v = call[c].reply
    PROVE  RInv'
<1>1. /\ Writes(c, call[c].op, "idle", call[c].tries, <<>>)
      /\ UNCHANGED <<counter, cell, source, destination, calls, taken>>
  BY FieldWrites DEF RInv, R!Return
<1>2. call[c].op \in R!Ops /\ call[c].tries \in Nat
  BY DEF RInv, CallType
<1>3. CallType'
  BY <1>1, <1>2, WritesType DEF RInv
<1>4. ASSUME NEW K, ok /\ call[c].op \in K /\ v # <<>> PROVE OnTheWay(c, K) /\ v = call[c].reply
  BY <1>4 DEF OnTheWay
<1>5. Distinct({"Incr"})' /\ Given({"Incr"})' \subseteq Given({"Incr"})
  <2>1. ok /\ call[c].op \in {"Incr"} /\ v # <<>> => OnTheWay(c, {"Incr"}) /\ v = call[c].reply
    BY <1>4
  <2>2. CallType /\ Distinct({"Incr"})
    BY DEF RInv, NumbersInv
  <2>. QED BY <2>1, <2>2, ReturnGives
<1>6. Distinct(Moves)' /\ Given(Moves)' \subseteq Given(Moves)
  <2>1. ok /\ call[c].op \in Moves /\ v # <<>> => OnTheWay(c, Moves) /\ v = call[c].reply
    BY <1>4
  <2>2. CallType /\ Distinct(Moves)
    BY DEF RInv, ElementsInv
  <2>. QED BY <2>1, <2>2, ReturnGives
<1>7. \A d \in Clients : (call[d].st = "applied" /\ call[d].op = "Incr" => call[d].reply # <<>>)'
  BY <1>1 DEF RInv, NumbersInv, Writes
<1>8. \A r \in R!Good("Incr")' : r.value # <<>>
  <2> DEFINE new == [n |-> R!Cardinality(replies), op |-> call[c].op, ok |-> ok, value |-> v]
  <2>1. replies' = replies \cup {new}
    BY DEF R!Return
  <2>2. new.op = call[c].op /\ new.ok = ok /\ new.value = v
    OBVIOUS
  <2> HIDE DEF new
  <2>3. ASSUME new.op = "Incr", new.ok PROVE new.value # <<>>
    <3>1. ok
      BY <2>2, <2>3, Zenon
    <3>2. call[c].st = "applied" /\ call[c].op = "Incr" /\ v = call[c].reply
      BY <2>2, <2>3, <3>1
    <3>. QED BY <2>2, <3>2 DEF RInv, NumbersInv
  <2>4. \A r \in replies : r.op = "Incr" /\ r.ok => r.value # <<>>
    BY DEF RInv, NumbersInv, R!Good
  <2>. QED BY <2>1, <2>3, <2>4 DEF R!Good
<1>9. NumbersInv'
  BY <1>1, <1>5, <1>7, <1>8, NumbersKept DEF RInv
<1>10. ElementsInv'
  BY <1>1, <1>6, ElementsUnmoved DEF RInv
<1>11. CounterInv'
  <2>1. \A k \in 1 .. R!MaxRetries + 1 : ~Left(c, k)'
    BY <1>1 DEF Left, Writes
  <2>2. Attempts' \subseteq Attempts
    BY <1>1, <2>1, AttemptsShrink
  <2>3. calls' \in [R!Ops -> Nat] /\ calls'["Incr"] = calls["Incr"] /\ counter' = counter
    BY <1>1 DEF RInv, CounterInv
  <2>. QED BY <2>2, <2>3, CounterKept DEF RInv
<1>. QED BY <1>3, <1>9, <1>10, <1>11 DEF RInv

LEMMA ApplyKeeps ==
    ASSUME RInv, NEW c \in Clients, R!Apply(c)
    PROVE  RInv'
<1>1. /\ CallType /\ call[c].st = "sent" /\ call[c].op \in R!Ops
      /\ call[c].tries \in Nat /\ call[c].tries \in 1 .. R!MaxRetries + 1
  BY DEF RInv, CallType, R!Apply
<1>2. ASSUME NEW v, R!Answer(c, v) PROVE CallType' /\ Writes(c, call[c].op, "applied", call[c].tries, v)
  BY <1>1, <1>2, FieldWrites, WritesType
<1>3. ASSUME NEW v, R!Answer(c, v), call[c].op # "Incr", UNCHANGED <<counter, calls>> PROVE CounterInv'
  <2>1. \A k \in 1 .. R!MaxRetries + 1 : ~Left(c, k)'
    BY <1>2, <1>3 DEF Left, Writes
  <2>2. Attempts' \subseteq Attempts
    BY <1>2, <1>3, <2>1, AttemptsShrink
  <2>3. calls' \in [R!Ops -> Nat] /\ calls'["Incr"] = calls["Incr"] /\ counter' = counter
    BY <1>3 DEF RInv, CounterInv
  <2>. QED BY <2>2, <2>3, CounterKept DEF RInv
<1>4. ASSUME NEW v, R!Answer(c, v), call[c].op # "Incr", UNCHANGED <<counter, replies>> PROVE NumbersInv'
  <2>1. Distinct({"Incr"})' /\ Given({"Incr"})' \subseteq Given({"Incr"})
    BY <1>2, <1>4, QuietGives DEF RInv, NumbersInv
  <2>2. \A d \in Clients : (call[d].st = "applied" /\ call[d].op = "Incr" => call[d].reply # <<>>)'
    BY <1>2, <1>4 DEF RInv, NumbersInv, Writes
  <2>3. \A r \in R!Good("Incr")' : r.value # <<>>
    BY <1>4 DEF RInv, NumbersInv, R!Good
  <2>. QED BY <1>4, <2>1, <2>2, <2>3, NumbersKept DEF RInv
<1>5. ASSUME NEW v, R!Answer(c, v), call[c].op \notin Moves,
             UNCHANGED <<source, destination, taken, replies>>
      PROVE ElementsInv'
  <2>1. Distinct(Moves)' /\ Given(Moves)' \subseteq Given(Moves)
    BY <1>2, <1>5, QuietGives DEF RInv, ElementsInv
  <2>. QED BY <1>5, <2>1, ElementsUnmoved DEF RInv
<1>6. CASE R!Incr(c)
  <2>1. /\ call[c].op = "Incr" /\ R!Answer(c, <<counter + 1>>)
        /\ UNCHANGED <<source, destination, taken, replies>>
    BY <1>6 DEF R!Incr
  <2>2. CallType' /\ ElementsInv'
    BY <1>2, <1>5, <2>1 DEF Moves
  <2>. QED BY <1>1, <1>6, <2>2, IncrCounts, IncrNumbers DEF RInv
<1>7. CASE R!Lpop(c)
  <2>1. PICK v : R!Answer(c, v)
    BY <1>7 DEF R!Lpop
  <2>2. call[c].op # "Incr" /\ UNCHANGED <<counter, calls, replies>>
    BY <1>7 DEF R!Lpop
  <2>. QED BY <1>2, <1>3, <1>4, <1>7, <2>1, <2>2, LpopMoves DEF RInv
<1>8. CASE R!BRPoplpush(c)
  <2>1. PICK v : R!Answer(c, v)
    BY <1>8 DEF R!BRPoplpush
  <2>2. call[c].op # "Incr" /\ UNCHANGED <<counter, calls, replies>>
    BY <1>8 DEF R!BRPoplpush
  <2>. QED BY <1>2, <1>3, <1>4, <1>8, <2>1, <2>2, BRPoplpushMoves DEF RInv
<1>9. CASE R!GetString(c) \/ R!Set(c)
  <2>1. PICK v : R!Answer(c, v)
    BY <1>9 DEF R!GetString, R!Set
  <2>2. /\ call[c].op # "Incr" /\ call[c].op \notin Moves
        /\ UNCHANGED <<counter, calls, replies, source, destination, taken>>
    BY <1>9 DEF R!GetString, R!Set, Moves
  <2>. QED BY <1>2, <1>3, <1>4, <1>5, <2>1, <2>2 DEF RInv
<1>. QED BY <1>6, <1>7, <1>8, <1>9 DEF R!Apply

LEMMA LostKeeps ==
    ASSUME RInv, NEW c \in Clients, R!Lost(c)
    PROVE  RInv'
<1>1. /\ CallType /\ call[c].st \in {"sent", "applied"} /\ call[c].op \in R!Ops
      /\ call[c].tries \in Nat /\ call[c].tries \in 1 .. R!MaxRetries + 1
  BY DEF RInv, CallType, R!Lost
<1>2. CASE call[c].tries > R!MaxRetries
  <2>1. R!Return(c, FALSE, <<>>)
    BY <1>2 DEF R!Lost
  <2>. QED BY <2>1, ReturnKeeps
<1>3. CASE ~(call[c].tries > R!MaxRetries)
  <2>1. /\ Writes(c, call[c].op, "sent", call[c].tries + 1, <<>>)
        /\ UNCHANGED <<counter, source, destination, calls, replies, taken>>
    BY <1>1, <1>3, FieldWrites DEF R!Lost
  <2>2. call[c].tries + 1 \in Nat /\ call[c].tries + 1 \in 1 .. R!MaxRetries + 1
    BY <1>1, <1>3, Bound
  <2>3. \A k \in 1 .. R!MaxRetries + 1 : Left(c, k)' => Left(c, k)
    BY <1>1, <2>1, Bound DEF Left, Writes
  <2>4. Attempts' \subseteq Attempts
    BY <2>1, <2>3, AttemptsShrink
  <2>5. calls' \in [R!Ops -> Nat] /\ calls'["Incr"] = calls["Incr"] /\ counter' = counter
    BY <2>1 DEF RInv, CounterInv
  <2>6. CounterInv'
    BY <2>4, <2>5, CounterKept DEF RInv
  <2>. QED BY <1>1, <2>1, <2>2, <2>6, QuietKeeps
<1>. QED BY <1>2, <1>3

LEMMA StepRInv == ASSUME RInv, [AllNext]_AllVars PROVE RInv'
<1>1. CASE UNCHANGED connVars
  <2>1. UNCHANGED <<counter, source, destination, call, calls, replies, taken>>
    BY <1>1 DEF connVars
  <2>2. CallType'
    BY <2>1 DEF RInv, CallType
  <2>3. CounterInv'
    BY <2>1 DEF RInv, CounterInv, Attempts, Left
  <2>4. (Distinct({"Incr"})' <=> Distinct({"Incr"})) /\ Given({"Incr"})' = Given({"Incr"})
    BY <2>1 DEF Distinct, Given, OnTheWay, Got
  <2>5. (Distinct(Moves)' <=> Distinct(Moves)) /\ Given(Moves)' = Given(Moves)
    BY <2>1 DEF Distinct, Given, OnTheWay, Got
  <2>6. NumbersInv'
    BY <2>1, <2>4 DEF RInv, NumbersInv, R!Good
  <2>7. ElementsInv'
    BY <2>1, <2>5 DEF RInv, ElementsInv
  <2>. QED BY <2>2, <2>3, <2>6, <2>7 DEF RInv
<1>2. ASSUME NEW c \in Clients, R!Reply(c) PROVE RInv'
  <2>1. PICK ok \in BOOLEAN : R!Return(c, ok, call[c].reply) /\ call[c].st = "applied"
    BY <1>2 DEF R!Reply
  <2>. QED BY <2>1, ReturnKeeps
<1>3. ASSUME NEW c \in Clients, NEW o \in R!Ops, R!Call(c, o) PROVE RInv'
  <2>1. Writes(c, o, "sent", 1, <<>>) /\ UNCHANGED <<counter, source, destination, taken, replies>>
    BY <1>3, FieldWrites DEF RInv, R!Call
  <2>2. CounterInv'
    BY <1>3, CallCounts DEF RInv
  <2>3. 1 \in Nat /\ 1 \in 1 .. R!MaxRetries + 1
    BY Bound
  <2>. QED BY <2>1, <2>2, <2>3, QuietKeeps
<1>4. CASE R!Next
  BY <1>2, <1>3, <1>4, ApplyKeeps, LostKeeps DEF R!Next
<1>. QED BY <1>1, <1>4 DEF AllNext, AllVars, connVars

LEMMA InitRInv == AllInit => RInv
<1> SUFFICES ASSUME R!Init PROVE RInv
  BY DEF AllInit
<1>1. /\ counter = 0 /\ source = Elements /\ destination = <<>> /\ replies = {} /\ taken = {}
      /\ calls = [o \in R!Ops |-> 0]
      /\ call = [c \in Clients |-> [op |-> "Set", st |-> "idle", tries |-> 0, reply |-> <<>>]]
  BY DEF R!Init
<1>2. /\ call = [c \in Clients |-> call[c]]
      /\ \A c \in Clients : /\ DOMAIN call[c] = {"op", "st", "tries", "reply"}
                            /\ call[c].op = "Set" /\ call[c].st = "idle" /\ call[c].tries = 0
  BY <1>1
<1>3. CallType
  BY <1>2 DEF CallType, R!Ops, R!Keys
<1>4. CounterInv
  <2>1. Attempts = {}
    BY <1>2 DEF Attempts, Left
  <2>2. IsFiniteSet(Attempts) /\ Cardinality(Attempts) = 0
    BY <2>1, FS_EmptySet
  <2>3. calls \in [R!Ops -> Nat] /\ calls["Incr"] = 0
    BY <1>1 DEF R!Ops, R!Keys
  <2>4. (R!MaxRetries + 1) * 0 = 0
    BY Bound
  <2>. QED BY <1>1, <2>2, <2>3, <2>4 DEF CounterInv
<1>5. \A K : Given(K) = {} /\ Distinct(K)
  BY <1>1, <1>2 DEF Given, Distinct, OnTheWay
<1>6. NumbersInv
  BY <1>1, <1>2, <1>5 DEF NumbersInv, R!Good
<1>7. ElementsInv
  <2>1. Elements \in Seq(R!Range(Elements)) /\ R!IsInjective(Elements)
    BY LibraryAssumption DEF R!RedisConnAssumption
  <2>2. Len(Elements) \in Nat
    BY <2>1, LenProperties
  <2>3. IsFiniteSet(taken) /\ Cardinality(taken) = 0
    BY <1>1, FS_EmptySet
  <2>4. destination \in Seq(R!Range(Elements)) /\ Len(destination) = 0
    BY <1>1, EmptySeq
  <2>5. R!Range(destination) = {}
    <3>1. \A x : x \in R!Range(destination) <=> \E i \in 1 .. Len(destination) : x = destination[i]
      BY <2>4, RangeIs, Zenon
    <3>. QED BY <2>4, <3>1
  <2>. QED BY <1>1, <1>5, <2>1, <2>2, <2>3, <2>4, <2>5 DEF ElementsInv
<1>. QED BY <1>3, <1>4, <1>6, <1>7 DEF RInv

LEMMA RepeatsFollow == RInv => RepeatsBounded
<1> SUFFICES ASSUME RInv PROVE RepeatsBounded
  OBVIOUS
<1>1. ASSUME NEW K, Distinct(K), NEW r \in replies, NEW s \in replies, r.op \in K, r.ok, s.op \in K, s.ok,
             r.value = s.value, r.value # <<>>
      PROVE  r = s
  <2>1. Got(r, K) /\ Got(s, K)
    BY <1>1 DEF Got
  <2>. QED BY <1>1, <2>1 DEF Distinct
<1>2. R!IncrDistinct
  <2> SUFFICES ASSUME NEW r \in R!Good("Incr"), NEW s \in R!Good("Incr"), r.value = s.value PROVE r = s
    BY DEF R!IncrDistinct
  <2>1. r \in replies /\ s \in replies /\ r.op \in {"Incr"} /\ s.op \in {"Incr"} /\ r.ok /\ s.ok
    BY DEF R!Good
  <2>2. r.value # <<>> /\ Distinct({"Incr"})
    BY DEF RInv, NumbersInv
  <2>. QED BY <1>1, <2>1, <2>2
<1>3. Cardinality(R!Good("Incr")) <= counter
  <2> DEFINE G == R!Good("Incr")
             f == [r \in G |-> r.value[1]]
  <2>1. counter \in Nat
    BY DEF RInv, CounterInv
  <2>2. ASSUME NEW r \in G PROVE \E n \in 1 .. counter : r.value = <<n>>
    <3>1. r \in replies /\ Got(r, {"Incr"})
      BY DEF R!Good, Got, RInv, NumbersInv
    <3>2. r.value \in Given({"Incr"})
      BY <3>1 DEF Given
    <3>. QED BY <3>2 DEF RInv, NumbersInv
  <2>3. ASSUME NEW r \in G PROVE r.value[1] \in 1 .. counter /\ r.value = <<r.value[1]>>
    BY <2>2
  <2>4. \A r, s \in G : r.value[1] = s.value[1] => r = s
    BY <1>2, <2>3 DEF R!IncrDistinct
  <2> HIDE DEF G
  <2>5. f \in [G -> 1 .. counter] /\ \A r, s \in G : f[r] = f[s] => r = s
    BY <2>3, <2>4
  <2>6. f \in Injection(G, 1 .. counter)
    <3> HIDE DEF f
    <3>. QED BY <2>5 DEF Injection, IsInjective
  <2>7. IsFiniteSet(1 .. counter) /\ Cardinality(1 .. counter) = counter
    BY <2>1, FS_Interval
  <2>8. Cardinality(G) <= Cardinality(1 .. counter)
    <3> HIDE DEF f
    <3>. QED BY <2>6, <2>7, FS_Injection
  <2>. QED BY <2>7, <2>8 DEF G
<1>4. R!IncrBounded
  <2>1. counter <= (R!MaxRetries + 1) * calls["Incr"]
    <3>1. PICK a \in Nat : a = Cardinality(Attempts)
      BY FS_CardinalityType DEF RInv, CounterInv
    <3>2. calls["Incr"] \in Nat /\ counter \in Nat
      BY DEF RInv, CounterInv, R!Ops, R!Keys
    <3>3. PICK b \in Int : b = (R!MaxRetries + 1) * calls["Incr"]
      BY <3>2, Bound
    <3>4. counter + a <= b
      BY <3>1, <3>3 DEF RInv, CounterInv
    <3>. QED BY <3>1, <3>2, <3>3, <3>4
  <2>. QED BY <1>3, <2>1, Counted DEF R!IncrBounded
<1>5. R!ElementsKept
  <2>1. ASSUME NEW r \in R!Good("BRPoplpush") \cup R!Good("Lpop"),
               NEW s \in R!Good("BRPoplpush") \cup R!Good("Lpop"),
               r.value = s.value, r.value # <<>>
        PROVE  r = s
    <3>1. r \in replies /\ s \in replies /\ r.op \in Moves /\ s.op \in Moves /\ r.ok /\ s.ok
      BY DEF R!Good, Moves
    <3>2. Distinct(Moves)
      BY DEF RInv, ElementsInv
    <3>. QED BY <1>1, <2>1, <3>1, <3>2
  <2>2. R!Cardinality(taken) = Cardinality(taken)
    BY Counted
  <2>. QED BY <2>1, <2>2 DEF R!ElementsKept, RInv, ElementsInv
<1>. QED BY <1>2, <1>4, <1>5 DEF RepeatsBounded

\* redis.go with go-redis' repetitions: Incr, Lpop and BRPoplpush for any number of
\* clients, calls, retries and elements, whatever is lost before or after the server
\* executed it: no number and no element is given twice, and no element is lost but
\* by an Lpop whose reply was lost.
THEOREM RepeatsAreBounded == AllSpec => []RepeatsBounded
  BY InitRInv, StepRInv, RepeatsFollow, PTL DEF AllSpec
==============================================================================
