------------------------- MODULE HttpPipelineProofs -------------------------
(***************************************************************************)
(* What HttpPipeline promises for any number of requests, whatever they    *)
(* ask for, and any sessions, origins and bucket sizes.  The invariant has *)
(* one part per promise; each speaks of one request, and says how far the  *)
(* promise is kept at the layer the request has reached.                   *)
(***************************************************************************)
EXTENDS HttpPipeline, SequenceTheorems, TLAPS

\* The layers a request has passed.
Passed(c) == {Chains[c.in.route][k] : k \in 1 .. c.i - 1}

\* Where a request can be.
OnItsWay(c) ==
    /\ c.in \in Inputs /\ c.i \in DOMAIN Chains[c.in.route]
    /\ c.st \in {"run", "parse", "refuse", "done"}
    /\ c.st = "parse" => Layer(c) = "auth" /\ c.in.token \in Tokens
    /\ c.handled \in BOOLEAN
    /\ c.handled = TRUE => c.st = "done" /\ Layer(c) = "handler"
    /\ c.uid \in Uids \cup {""}
    /\ c.uid # "" => "auth" \in Passed(c)

\* A layer that refuses ends the way, and nothing is written before the last step;
\* but a redirect has gone out while its request still waits for the handler.
Answer(c) ==
    /\ c.refusal # "tls" /\ c.st # "done" => c.bodies = 0
    /\ c.refusal # "tls" /\ c.st = "done" => c.bodies = IF c.status \in {204, 500} THEN 0 ELSE 1
    /\ c.st = "refuse" => c.status \in {401, 429}
    /\ c.st \in {"run", "parse"} \/ c.handled => c.refusal \in {"none", "tls"}
    /\ c.refusal = "tls" => c.in.plain /\ Layer(c) = "handler" /\ c.st # "refuse"
    /\ c.refusal = "tls" /\ c.in.method = "GET" => c.status = 301 /\ c.bodies \in Nat \ {0}

Headers(c) ==
    /\ c.retry \in BOOLEAN
    /\ c.retry = TRUE <=> c.refusal \in Limiters
    /\ c.retry = TRUE => c.scope = c.refusal
    /\ c.uid # "" /\ "uid" \in Passed(c) => c.scope = "uid"

\* Who is counted at a layer, and for whom.
Counts(c, l) == (l = "ip" => ~c.in.excluded) /\ (l = "uid" => c.uid # "")
Owner(c, l)  == IF l = "uid" THEN c.uid ELSE ClientIP(c.in)
Counted(c) ==
    /\ c.open \subseteq Passed(c)
    /\ c.paid = {<<l, Owner(c, l)>> : l \in {k \in Passed(c) \cap Limiters : Counts(c, k) /\ k \notin c.open}}

\* A request whose token had no session since it arrived is not past the parser.
Entered(c, alive, cache) ==
    /\ c.ended \in BOOLEAN
    /\ c.ended = TRUE => c.in.token \notin alive
    /\ cache = "redis" /\ c.parser = "legacy" =>
          c.st \in {"parse", "refuse"} \/ (c.st = "done" /\ ~c.handled) \/ c.ended = FALSE

\* The override has corrected what CORSMiddleware wrote.
Offered(c) ==
    LET o == c.in.origin IN
    /\ c.acac <=> c.acao = "own"
    /\ c.vary <=> o # NoOrigin
    /\ c.acac => o # NoOrigin /\ IsOriginAllowed(o)
Corrected(c) == Offered(c) \/ (c.st = "done" /\ c.status = 204)

Good(c, alive, cache) ==
    OnItsWay(c) /\ Answer(c) /\ Headers(c) /\ Counted(c) /\ Entered(c, alive, cache) /\ Corrected(c)

\* A session that is over is out of Redis.
EnvInv ==
    /\ session \in [Tokens -> {<<>>} \cup Entries] /\ live \subseteq Tokens
    /\ bucket \in [BucketKeys -> 0 .. Burst]
    /\ kind = "redis" => \A t \in Tokens \ live : session[t] = <<>>

HttpInv ==
    /\ EnvInv
    /\ q = [r \in Requests |-> q[r]]
    /\ \A r \in Requests : q[r].st = "idle" \/ Good(q[r], live, kind)

-----------------------------------------------------------------------------
(* The chains                                                              *)

LEMMA Routes == DOMAIN Chains = {"login", "user", "admin", "late"}
  BY DEF Chains

\* Authentication comes before the uid limiter and the handler comes last; no
\* layer is mounted twice.
LEMMA ChainFacts ==
    ASSUME NEW c, OnItsWay(c)
    PROVE  /\ Layer(c) \in {"ip", "strict", "uid", "auth", "tls", "handler"}
           /\ Layer(c) \notin Passed(c)
           /\ Layer(c) = "auth" => "uid" \notin Passed(c)
           /\ Layer(c) = "handler" =>
                 /\ Passed(c) \cap Limiters = Range(Chains[c.in.route]) \cap Limiters
                 /\ "auth" \in Passed(c) => "uid" \in Passed(c)
           /\ "uid" \in Passed(c) => Layer(c) = "handler"
<1>1. c.in.route \in {"login", "user", "admin", "late"} /\ c.i \in DOMAIN Chains[c.in.route]
  BY HttpAssumption, Routes DEF OnItsWay
<1> USE <1>1 DEF Layer, Passed, Chains, Limiters, Range
<1>2. CASE c.in.route = "login"
  BY <1>2
<1>3. CASE c.in.route = "user"
  BY <1>3
<1>4. CASE c.in.route = "admin"
  BY <1>4
<1>5. CASE c.in.route = "late"
  BY <1>5
<1>. QED BY <1>1, <1>2, <1>3, <1>4, <1>5

\* After a layer that is not the handler there is another one.
LEMMA NextLayer ==
    ASSUME NEW c, OnItsWay(c), Layer(c) # "handler", NEW d, d.in = c.in, d.i = c.i + 1
    PROVE  d.i \in DOMAIN Chains[d.in.route] /\ Passed(d) = Passed(c) \cup {Layer(c)}
<1>1. c.in.route \in {"login", "user", "admin", "late"} /\ c.i \in DOMAIN Chains[c.in.route]
  BY HttpAssumption, Routes DEF OnItsWay
<1> USE <1>1 DEF Layer, Chains
<1>2. c.i \in Nat \ {0} /\ d.i \in DOMAIN Chains[d.in.route]
  <2>1. CASE c.in.route = "login"
    BY <2>1
  <2>2. CASE c.in.route = "user"
    BY <2>2
  <2>3. CASE c.in.route = "admin"
    BY <2>3
  <2>4. CASE c.in.route = "late"
    BY <2>4
  <2>. QED BY <1>1, <2>1, <2>2, <2>3, <2>4
<1>3. 1 .. d.i - 1 = (1 .. c.i - 1) \cup {c.i}
  BY <1>2
<1>4. Passed(d) = Passed(c) \cup {Chains[c.in.route][c.i]}
  BY <1>3 DEF Passed
<1>. QED BY <1>2, <1>4

\* TlsHandler is the last layer before the handler.
LEMMA AfterTls ==
    ASSUME NEW c, OnItsWay(c), Layer(c) = "tls", NEW d, d.in = c.in, d.i = c.i + 1
    PROVE  Layer(d) = "handler"
<1>1. c.in.route \in {"login", "user", "admin", "late"} /\ c.i \in DOMAIN Chains[c.in.route]
  BY HttpAssumption, Routes DEF OnItsWay
<1> USE <1>1 DEF Layer, Chains
<1>2. CASE c.in.route = "login"
  BY <1>2
<1>3. CASE c.in.route = "user"
  BY <1>3
<1>4. CASE c.in.route = "admin"
  BY <1>4
<1>5. CASE c.in.route = "late"
  BY <1>5
<1>. QED BY <1>1, <1>2, <1>3, <1>4, <1>5

\* The key of a request that is counted is one of the buckets.
LEMMA KeyIsBucket ==
    ASSUME NEW c, OnItsWay(c), Layer(c) \in Limiters, ~Skips(c)
    PROVE  /\ Key(c) \in BucketKeys /\ Key(c) = <<Layer(c), Owner(c, Layer(c))>>
           /\ Counts(c, Layer(c))
<1>1. Key(c) = <<Layer(c), Owner(c, Layer(c))>> /\ Counts(c, Layer(c))
  BY DEF Key, Owner, Skips, Counts
<1>2. CASE Layer(c) = "uid"
  <2>1. c.uid \in Uids /\ Key(c) = <<"uid", c.uid>>
    BY <1>1, <1>2 DEF OnItsWay, Skips, Owner
  <2>2. Key(c) \in {"uid"} \X Uids
    BY <2>1
  <2>. QED BY <1>1, <2>2 DEF BucketKeys
<1>3. CASE Layer(c) \in {"ip", "strict"}
  <2>1. ClientIP(c.in) \in Ips /\ Key(c) = <<Layer(c), ClientIP(c.in)>>
    BY <1>1, <1>3 DEF OnItsWay, Owner, Ips
  <2>2. Key(c) \in {"ip", "strict"} \X Ips
    BY <1>3, <2>1
  <2>. QED BY <1>1, <2>2 DEF BucketKeys
<1>. QED BY <1>1, <1>2, <1>3 DEF Limiters
-----------------------------------------------------------------------------
(* One request moves                                                       *)

\* What no layer touches.
Same(c, d) ==
    /\ d.in = c.in /\ d.ended = c.ended
    /\ d.acao = c.acao /\ d.acac = c.acac /\ d.vary = c.vary

LEMMA OneMoves ==
    ASSUME HttpInv, NEW r \in Requests, NEW d, q' = [q EXCEPT ![r] = d], Good(d, live, kind),
           UNCHANGED <<kind, session, live>>, bucket' \in [BucketKeys -> 0 .. Burst]
    PROVE  HttpInv'
<1>1. EnvInv'
  BY DEF HttpInv, EnvInv
<1>2. q' = [s \in Requests |-> q'[s]] /\ \A s \in Requests : q'[s] = IF s = r THEN d ELSE q[s]
  BY DEF HttpInv
<1>3. \A s \in Requests : q'[s].st = "idle" \/ Good(q'[s], live', kind')
  BY <1>2 DEF HttpInv
<1>. QED BY <1>1, <1>2, <1>3 DEF HttpInv

\* The parts that follow from what stays the same, for a request that goes on to
\* the next layer.
LEMMA GoesOn ==
    ASSUME NEW c, NEW d, OnItsWay(c), Answer(c), Corrected(c), Same(c, d), Layer(c) # "handler",
           c.st \in {"run", "parse"}, d.st = "run", d.i = c.i + 1,
           d.handled = c.handled,
           d.uid \in Uids \cup {""}, d.uid # "" => d.uid = c.uid \/ Layer(c) = "auth",
           \/ d.refusal = c.refusal /\ d.bodies = c.bodies
           \/ /\ Layer(c) = "tls" /\ c.in.plain /\ d.refusal = "tls"
              /\ c.in.method = "GET" => d.status = 301 /\ d.bodies \in Nat \ {0}
    PROVE  OnItsWay(d) /\ Answer(d) /\ Corrected(d)
<1>1. d.i \in DOMAIN Chains[d.in.route] /\ Passed(d) = Passed(c) \cup {Layer(c)}
  BY NextLayer DEF Same
<1>2. OnItsWay(d)
  BY <1>1 DEF OnItsWay, Same
<1>3. Answer(d)
  <2>1. c.st # "done" /\ ~c.handled /\ ~d.handled
    BY DEF OnItsWay
  <2>2. c.refusal = "none" /\ c.bodies = 0
    BY <2>1 DEF Answer
  <2>3. CASE d.refusal = c.refusal /\ d.bodies = c.bodies
    BY <2>1, <2>2, <2>3 DEF Answer
  <2>4. CASE /\ Layer(c) = "tls" /\ c.in.plain /\ d.refusal = "tls"
             /\ c.in.method = "GET" => d.status = 301 /\ d.bodies \in Nat \ {0}
    <3>1. d.in = c.in
      BY DEF Same
    <3>2. Layer(d) = "handler"
      BY <2>4, <3>1, AfterTls
    <3>. QED BY <2>1, <2>4, <3>1, <3>2, ZenonT(30) DEF Answer
  <2>. QED BY <2>3, <2>4
<1>4. Corrected(d)
  BY ZenonT(30) DEF Corrected, Offered, Same
<1>. QED BY <1>2, <1>3, <1>4

\* RateLimitMiddleware and its like.
LEMMA LimitSkipsInv == ASSUME HttpInv, NEW r \in Requests, LimitSkips(r) PROVE HttpInv'
<1> DEFINE c == q[r]
           d == Advance(c)
<1>1. c.st = "run" /\ Layer(c) \in Limiters /\ Skips(c) /\ q' = [q EXCEPT ![r] = d] /\ UNCHANGED env
  BY DEF LimitSkips, AtLimiter
<1>2. Good(c, live, kind)
  BY <1>1 DEF HttpInv
<1>3. /\ Same(c, d) /\ d.st = "run" /\ d.i = c.i + 1 /\ d.bodies = c.bodies /\ d.handled = c.handled
      /\ d.uid = c.uid /\ d.refusal = c.refusal /\ d.retry = c.retry /\ d.scope = c.scope
      /\ d.open = c.open /\ d.paid = c.paid /\ d.parser = c.parser
  BY DEF Advance, Same
<1> HIDE DEF c, d
<1>4. Layer(c) # "handler" /\ Passed(d) = Passed(c) \cup {Layer(c)} /\ Layer(c) \notin Passed(c)
  BY <1>1, <1>2, <1>3, NextLayer, ChainFacts DEF Good, Limiters, Same
<1>5. OnItsWay(d) /\ Answer(d) /\ Corrected(d)
  BY <1>1, <1>2, <1>3, <1>4, GoesOn DEF Good, OnItsWay
<1>6. Headers(d)
  BY <1>1, <1>2, <1>3, <1>4 DEF Good, Headers, Skips
<1>7. Counted(d)
  <2>1. ~Counts(c, Layer(c)) /\ \A l : (Counts(d, l) <=> Counts(c, l)) /\ Owner(d, l) = Owner(c, l)
    BY <1>1, <1>3 DEF Skips, Counts, Owner, Same
  <2>. QED BY <1>2, <1>3, <1>4, <2>1 DEF Good, Counted
<1>8. Entered(d, live, kind)
  BY <1>1, <1>2, <1>3 DEF Good, Entered, Same
<1>9. bucket' \in [BucketKeys -> 0 .. Burst]
  BY <1>1 DEF env, HttpInv, EnvInv
<1>. QED BY <1>1, <1>5, <1>6, <1>7, <1>8, <1>9, OneMoves DEF Good, env

\* A token is taken from the request's own bucket.
LEMMA LimitAllowsInv == ASSUME HttpInv, NEW r \in Requests, LimitAllows(r) PROVE HttpInv'
<1> DEFINE c == q[r]
           d == Advance(setRateLimitHeaders([c EXCEPT !.paid = @ \cup {Key(c)}], FALSE))
<1>1. /\ c.st = "run" /\ Layer(c) \in Limiters /\ ~Skips(c) /\ bucket[Key(c)] > 0
      /\ bucket' = [bucket EXCEPT ![Key(c)] = @ - 1]
      /\ q' = [q EXCEPT ![r] = d] /\ UNCHANGED <<kind, session, live>>
  BY DEF LimitAllows, AtLimiter
<1>2. Good(c, live, kind)
  BY <1>1 DEF HttpInv
<1>3. /\ Same(c, d) /\ d.st = "run" /\ d.i = c.i + 1 /\ d.bodies = c.bodies /\ d.handled = c.handled
      /\ d.uid = c.uid /\ d.refusal = c.refusal /\ d.retry = FALSE /\ d.scope = Layer(c)
      /\ d.open = c.open /\ d.paid = c.paid \cup {Key(c)} /\ d.parser = c.parser
  BY DEF Advance, setRateLimitHeaders, Layer, Same
<1> HIDE DEF c, d
<1>4. Layer(c) # "handler" /\ Passed(d) = Passed(c) \cup {Layer(c)} /\ Layer(c) \notin Passed(c)
  BY <1>1, <1>2, <1>3, NextLayer, ChainFacts DEF Good, Limiters, Same
<1>5. OnItsWay(d) /\ Answer(d) /\ Corrected(d)
  BY <1>1, <1>2, <1>3, <1>4, GoesOn DEF Good, OnItsWay
<1>6. Headers(d)
  <2>1. "uid" \in Passed(d) => Layer(c) = "uid"
    BY <1>2, <1>4, ChainFacts DEF Good
  <2>2. c.refusal \notin Limiters
    BY <1>1, <1>2 DEF Good, Answer, Limiters
  <2>. QED BY <1>3, <2>1, <2>2 DEF Headers
<1>7. Counted(d)
  <2>1. /\ Key(c) = <<Layer(c), Owner(c, Layer(c))>> /\ Counts(c, Layer(c))
        /\ \A l : (Counts(d, l) <=> Counts(c, l)) /\ Owner(d, l) = Owner(c, l)
    BY <1>1, <1>2, <1>3, KeyIsBucket DEF Good, Counts, Owner, Same
  <2>2. Layer(c) \notin c.open
    BY <1>2, <1>4 DEF Good, Counted
  <2>. QED BY <1>1, <1>2, <1>3, <1>4, <2>1, <2>2 DEF Good, Counted
<1>8. Entered(d, live, kind)
  BY <1>1, <1>2, <1>3 DEF Good, Entered, Same
<1>9. bucket' \in [BucketKeys -> 0 .. Burst]
  <2>1. Key(c) \in BucketKeys /\ bucket \in [BucketKeys -> 0 .. Burst] /\ Burst \in Nat
    BY <1>1, <1>2, KeyIsBucket, HttpAssumption DEF Good, HttpInv, EnvInv
  <2>. QED BY <1>1, <2>1
<1>. QED BY <1>1, <1>5, <1>6, <1>7, <1>8, <1>9, OneMoves DEF Good

\* The same for a request that its layer refuses.
LEMMA StopsHere ==
    ASSUME NEW c, NEW d, OnItsWay(c), Answer(c), Corrected(c), Same(c, d),
           Layer(c) # "handler",
           c.st \in {"run", "parse"}, d.st = "refuse", d.i = c.i, d.status \in {401, 429},
           d.bodies = c.bodies, d.handled = c.handled, d.uid = c.uid, d.refusal # "tls"
    PROVE  /\ OnItsWay(d) /\ Answer(d) /\ Corrected(d)
           /\ Passed(d) = Passed(c) /\ ~d.handled
<1>1. Passed(d) = Passed(c) /\ c.st # "done"
  BY DEF Passed, Same
<1>2. ~c.handled
  BY <1>1 DEF OnItsWay
<1>3. ~d.handled
  BY <1>2
<1>4. OnItsWay(d)
  BY <1>1, <1>3, ZenonT(30) DEF OnItsWay, Same
<1>5. Answer(d)
  <2>1. c.refusal # "tls" /\ d.bodies = 0
    BY <1>1 DEF Answer
  <2>. QED BY <1>3, <2>1 DEF Answer
<1>6. Corrected(d)
  BY <1>1 DEF Corrected, Offered, Same
<1>. QED BY <1>1, <1>3, <1>4, <1>5, <1>6

\* The bucket is empty: 429, and nothing is counted.
LEMMA LimitRefusesInv == ASSUME HttpInv, NEW r \in Requests, LimitRefuses(r) PROVE HttpInv'
<1> DEFINE c == q[r]
           d == [setRateLimitHeaders(c, TRUE) EXCEPT !.st = "refuse", !.refusal = Layer(c), !.status = 429]
<1>1. c.st = "run" /\ Layer(c) \in Limiters /\ q' = [q EXCEPT ![r] = d] /\ UNCHANGED env
  BY DEF LimitRefuses, AtLimiter
<1>2. Good(c, live, kind)
  BY <1>1 DEF HttpInv
<1>3. /\ Same(c, d) /\ d.st = "refuse" /\ d.i = c.i /\ d.bodies = c.bodies /\ d.handled = c.handled
      /\ d.uid = c.uid /\ d.refusal = Layer(c) /\ d.retry = TRUE /\ d.scope = Layer(c) /\ d.status = 429
      /\ d.open = c.open /\ d.paid = c.paid /\ d.parser = c.parser
  BY DEF setRateLimitHeaders, Layer, Same
<1> HIDE DEF c, d
<1>4. OnItsWay(d) /\ Answer(d) /\ Corrected(d) /\ Passed(d) = Passed(c)
  BY <1>1, <1>2, <1>3, StopsHere DEF Good, Limiters
<1>5. Headers(d)
  <2>1. "uid" \notin Passed(d)
    BY <1>1, <1>2, <1>4, ChainFacts DEF Good, Limiters
  <2>. QED BY <1>1, <1>3, <2>1 DEF Headers
<1>6. Counted(d)
  <2>1. \A l : (Counts(d, l) <=> Counts(c, l)) /\ Owner(d, l) = Owner(c, l)
    BY <1>3 DEF Counts, Owner, Same
  <2>. QED BY <1>2, <1>3, <1>4, <2>1 DEF Good, Counted
<1>7. Entered(d, live, kind)
  BY <1>2, <1>3 DEF Good, Entered, Same
<1>8. bucket' \in [BucketKeys -> 0 .. Burst]
  BY <1>1 DEF env, HttpInv, EnvInv
<1>. QED BY <1>1, <1>4, <1>5, <1>6, <1>7, <1>8, OneMoves DEF Good, env

\* Redis does not answer: the layer is passed, and named in c.open.
LEMMA LimitFailsOpenInv == ASSUME HttpInv, NEW r \in Requests, LimitFailsOpen(r) PROVE HttpInv'
<1> DEFINE c == q[r]
           d == Advance(setRateLimitHeaders([c EXCEPT !.open = @ \cup {Layer(c)}], FALSE))
<1>1. c.st = "run" /\ Layer(c) \in Limiters /\ q' = [q EXCEPT ![r] = d] /\ UNCHANGED env
  BY DEF LimitFailsOpen, AtLimiter
<1>2. Good(c, live, kind)
  BY <1>1 DEF HttpInv
<1>3. /\ Same(c, d) /\ d.st = "run" /\ d.i = c.i + 1 /\ d.bodies = c.bodies /\ d.handled = c.handled
      /\ d.uid = c.uid /\ d.refusal = c.refusal /\ d.retry = FALSE /\ d.scope = Layer(c)
      /\ d.open = c.open \cup {Layer(c)} /\ d.paid = c.paid /\ d.parser = c.parser
  BY DEF Advance, setRateLimitHeaders, Layer, Same
<1> HIDE DEF c, d
<1>4. Layer(c) # "handler" /\ Passed(d) = Passed(c) \cup {Layer(c)} /\ Layer(c) \notin Passed(c)
  BY <1>1, <1>2, <1>3, NextLayer, ChainFacts DEF Good, Limiters, Same
<1>5. OnItsWay(d) /\ Answer(d) /\ Corrected(d)
  BY <1>1, <1>2, <1>3, <1>4, GoesOn DEF Good, OnItsWay
<1>6. Headers(d)
  <2>1. "uid" \in Passed(d) => Layer(c) = "uid"
    BY <1>2, <1>4, ChainFacts DEF Good
  <2>2. c.refusal \notin Limiters
    BY <1>1, <1>2 DEF Good, Answer, Limiters
  <2>. QED BY <1>3, <2>1, <2>2 DEF Headers
<1>7. Counted(d)
  <2>1. \A l : (Counts(d, l) <=> Counts(c, l)) /\ Owner(d, l) = Owner(c, l)
    BY <1>3 DEF Counts, Owner, Same
  <2>. QED BY <1>2, <1>3, <1>4, <2>1 DEF Good, Counted
<1>8. Entered(d, live, kind)
  BY <1>1, <1>2, <1>3 DEF Good, Entered, Same
<1>9. bucket' \in [BucketKeys -> 0 .. Burst]
  BY <1>1 DEF env, HttpInv, EnvInv
<1>. QED BY <1>1, <1>5, <1>6, <1>7, <1>8, <1>9, OneMoves DEF Good, env

-----------------------------------------------------------------------------
(* Authentication                                                          *)

\* A 401 leaves the request where it is.
LEMMA UnauthorizedIsGood ==
    ASSUME NEW c, NEW alive, NEW cache, Good(c, alive, cache), c.st \in {"run", "parse"}, Layer(c) = "auth"
    PROVE  Good(Unauthorized(c), alive, cache)
<1> DEFINE d == Unauthorized(c)
<1>1. /\ Same(c, d) /\ d.st = "refuse" /\ d.i = c.i /\ d.bodies = c.bodies /\ d.handled = c.handled
      /\ d.uid = c.uid /\ d.refusal = "auth" /\ d.retry = c.retry /\ d.scope = c.scope /\ d.status = 401
      /\ d.open = c.open /\ d.paid = c.paid /\ d.parser = c.parser
  BY DEF Unauthorized, Same
<1> HIDE DEF d
<1>2. OnItsWay(d) /\ Answer(d) /\ Corrected(d) /\ Passed(d) = Passed(c)
  BY <1>1, StopsHere DEF Good
<1>3. Headers(d)
  <2>1. c.refusal \notin Limiters
    BY DEF Good, Answer, Limiters
  <2>2. "auth" \notin Limiters /\ c.retry \in BOOLEAN /\ c.retry = FALSE
    BY <2>1 DEF Good, Headers, Limiters
  <2>. QED BY <1>1, <1>2, <2>2, ZenonT(30) DEF Good, Headers
<1>4. Counted(d)
  <2>1. \A l : (Counts(d, l) <=> Counts(c, l)) /\ Owner(d, l) = Owner(c, l)
    BY <1>1 DEF Counts, Owner, Same
  <2>. QED BY <1>1, <1>2, <2>1 DEF Good, Counted
<1>5. Entered(d, alive, cache)
  BY <1>1 DEF Good, Entered, Same
<1>. QED BY <1>2, <1>3, <1>4, <1>5 DEF Good, d

\* A request that the parser lets in with a uid of its own choosing.
LEMMA LetIn ==
    ASSUME NEW c, NEW d, NEW alive, NEW cache, Good(c, alive, cache), c.st = "parse", Same(c, d),
           d.st = "run", d.i = c.i + 1, d.bodies = c.bodies, d.handled = c.handled, d.uid \in Uids,
           d.refusal = c.refusal, d.retry = c.retry, d.scope = c.scope,
           d.open = c.open, d.paid = c.paid, d.parser = c.parser,
           cache = "redis" /\ c.parser = "legacy" => c.ended = FALSE
    PROVE  Good(d, alive, cache)
<1>1. Layer(c) = "auth" /\ Passed(d) = Passed(c) \cup {"auth"} /\ "uid" \notin Passed(c)
  <2>1. OnItsWay(c) /\ Layer(c) = "auth" /\ d.in = c.in
    BY DEF Good, OnItsWay, Same
  <2>. QED BY <2>1, NextLayer, ChainFacts
<1>2. OnItsWay(d) /\ Answer(d) /\ Corrected(d)
  BY <1>1, GoesOn DEF Good
<1>3. Headers(d)
  BY <1>1 DEF Good, Headers
<1>4. Counted(d)
  <2>1. \A l : l # "uid" => (Counts(d, l) <=> Counts(c, l)) /\ Owner(d, l) = Owner(c, l)
    BY DEF Counts, Owner, Same
  <2>2. Passed(d) \cap Limiters = Passed(c) \cap Limiters /\ "uid" \notin Passed(d)
    BY <1>1 DEF Limiters
  <2>. QED BY <1>1, <2>1, <2>2 DEF Good, Counted
<1>5. Entered(d, alive, cache)
  BY DEF Good, Entered, Same
<1>. QED BY <1>2, <1>3, <1>4, <1>5 DEF Good

\* AuthMiddleware loads the parser.
LEMMA AuthMiddlewareInv == ASSUME HttpInv, NEW r \in Requests, AuthMiddleware(r) PROVE HttpInv'
<1> DEFINE c == q[r]
           d == [c EXCEPT !.st = "parse", !.parser = parser]
<1>1. /\ c.st = "run" /\ Layer(c) = "auth" /\ UNCHANGED env
      /\ q' = [q EXCEPT ![r] = IF c.in.token = "" THEN Unauthorized(c) ELSE d]
  BY DEF AuthMiddleware
<1>2. Good(c, live, kind)
  BY <1>1 DEF HttpInv
<1>3. /\ Same(c, d) /\ d.st = "parse" /\ d.i = c.i /\ d.bodies = c.bodies /\ d.handled = c.handled
      /\ d.uid = c.uid /\ d.refusal = c.refusal /\ d.retry = c.retry /\ d.scope = c.scope
      /\ d.open = c.open /\ d.paid = c.paid
  BY DEF Same
<1> HIDE DEF c, d
<1>4. Passed(d) = Passed(c) /\ Layer(d) = Layer(c) /\ c.st # "done"
  BY <1>1, <1>3 DEF Passed, Layer, Same
<1>5. ~c.handled /\ ~d.handled
  BY <1>2, <1>3, <1>4 DEF Good, OnItsWay
<1>6. ASSUME c.in.token # "" PROVE OnItsWay(d)
  <2>1. c.in.token \in Tokens
    BY <1>2, <1>6, HttpAssumption DEF Good, OnItsWay
  <2>. QED BY <1>1, <1>2, <1>3, <1>4, <1>5, <2>1 DEF Good, OnItsWay, Same
<1>7. Answer(d)
  <2>1. c.refusal \in {"none", "tls"} /\ c.refusal # "tls"
    BY <1>1, <1>2 DEF Good, Answer
  <2>2. d.refusal = "none" /\ d.bodies = 0
    BY <1>2, <1>3, <1>4, <2>1 DEF Good, Answer
  <2>. QED BY <1>3, <1>5, <2>2 DEF Answer
<1>8. Headers(d) /\ Entered(d, live, kind)
  BY <1>2, <1>3, <1>4 DEF Good, Headers, Entered, Same
<1>9. Counted(d)
  <2>1. \A l : (Counts(d, l) <=> Counts(c, l)) /\ Owner(d, l) = Owner(c, l)
    BY <1>3 DEF Counts, Owner, Same
  <2>. QED BY <1>2, <1>3, <1>4, <2>1 DEF Good, Counted
<1>10. Corrected(d)
  BY <1>2, <1>3, <1>4 DEF Good, Corrected, Offered, Same
<1>11. bucket' \in [BucketKeys -> 0 .. Burst] /\ UNCHANGED <<kind, session, live>>
  BY <1>1 DEF env, HttpInv, EnvInv
<1>12. CASE c.in.token = ""
  BY <1>1, <1>2, <1>11, <1>12, UnauthorizedIsGood, OneMoves
<1>13. CASE c.in.token # ""
  <2>1. Good(d, live, kind)
    BY <1>6, <1>7, <1>8, <1>9, <1>10, <1>13 DEF Good
  <2>2. q' = [q EXCEPT ![r] = d]
    BY <1>1, <1>13
  <2>. QED BY <1>11, <2>1, <2>2, OneMoves
<1>. QED BY <1>12, <1>13

\* The token's entry is what a login wrote, and there is one only as long as the
\* session lives when Redis keeps it.
LEMMA ParseInv == ASSUME HttpInv, NEW r \in Requests, Parse(r) PROVE HttpInv'
<1> DEFINE c == q[r]
           e == Cached(c.in.token)
           d == Advance([c EXCEPT !.uid = e[1], !.role = IF Len(e) > 2 THEN e[3] ELSE ""])
<1>1. /\ c.st = "parse" /\ c.parser = "legacy" /\ UNCHANGED env
      /\ q' = [q EXCEPT ![r] = IF Len(e) < 2 THEN Unauthorized(c) ELSE d]
  BY DEF Parse
<1>2. Good(c, live, kind) /\ Layer(c) = "auth" /\ c.in.token \in Tokens
  BY <1>1 DEF HttpInv, Good, OnItsWay
<1>3. /\ Same(c, d) /\ d.st = "run" /\ d.i = c.i + 1 /\ d.bodies = c.bodies /\ d.handled = c.handled
      /\ d.uid = e[1] /\ d.refusal = c.refusal /\ d.retry = c.retry /\ d.scope = c.scope
      /\ d.open = c.open /\ d.paid = c.paid /\ d.parser = c.parser
  BY DEF Advance, Same
<1>4. e \in {<<>>} \cup Entries /\ (e # <<>> => e = session[c.in.token])
  BY <1>2 DEF Cached, HttpInv, EnvInv
<1>5. e = <<>> => Len(e) < 2
  OBVIOUS
<1>6. c.ended = TRUE /\ kind = "redis" => e = <<>>
  BY <1>2, <1>4 DEF HttpInv, EnvInv, Good, Entered
<1>7. c.ended \in BOOLEAN
  BY <1>2 DEF Good, Entered
<1> HIDE DEF c, e, d
<1>8. bucket' \in [BucketKeys -> 0 .. Burst] /\ UNCHANGED <<kind, session, live>>
  BY <1>1 DEF env, HttpInv, EnvInv
<1>9. CASE Len(e) < 2
  BY <1>1, <1>2, <1>8, <1>9, UnauthorizedIsGood, OneMoves
<1>10. CASE ~(Len(e) < 2)
  <2>1. e \in Entries /\ d.uid \in Uids
    BY <1>3, <1>4, <1>5, <1>10 DEF Uids
  <2>2. kind = "redis" => c.ended = FALSE
    BY <1>5, <1>6, <1>7, <1>10
  <2>3. Good(d, live, kind)
    BY <1>1, <1>2, <1>3, <2>1, <2>2, LetIn
  <2>4. q' = [q EXCEPT ![r] = d]
    BY <1>1, <1>10
  <2>. QED BY <1>8, <2>3, <2>4, OneMoves
<1>. QED BY <1>9, <1>10

\* Whatever an injected parser answers.
LEMMA ParseCustomInv == ASSUME HttpInv, NEW r \in Requests, ParseCustom(r) PROVE HttpInv'
<1> DEFINE c == q[r]
           d == Advance([c EXCEPT !.uid = "u2"])
<1>1. /\ c.st = "parse" /\ c.parser = "custom" /\ UNCHANGED env
      /\ q' = [q EXCEPT ![r] = Unauthorized(c)] \/ q' = [q EXCEPT ![r] = d]
  BY DEF ParseCustom
<1>2. Good(c, live, kind) /\ Layer(c) = "auth"
  BY <1>1 DEF HttpInv, Good, OnItsWay
<1>3. /\ Same(c, d) /\ d.st = "run" /\ d.i = c.i + 1 /\ d.bodies = c.bodies /\ d.handled = c.handled
      /\ d.uid \in Uids /\ d.refusal = c.refusal /\ d.retry = c.retry /\ d.scope = c.scope
      /\ d.open = c.open /\ d.paid = c.paid /\ d.parser = c.parser
  BY DEF Advance, Same, Uids
<1> HIDE DEF c, d
<1>4. bucket' \in [BucketKeys -> 0 .. Burst] /\ UNCHANGED <<kind, session, live>>
  BY <1>1 DEF env, HttpInv, EnvInv
<1>5. Good(d, live, kind) /\ Good(Unauthorized(c), live, kind)
  BY <1>1, <1>2, <1>3, LetIn, UnauthorizedIsGood
<1>. QED BY <1>1, <1>4, <1>5, OneMoves

\* The redirect of a plain request, which does not stop it.
LEMMA TlsHandlerInv == ASSUME HttpInv, NEW r \in Requests, TlsHandler(r) PROVE HttpInv'
<1> DEFINE c == q[r]
           d == Advance(IF c.in.plain THEN Redirect(c) ELSE c)
<1>1. c.st = "run" /\ Layer(c) = "tls" /\ q' = [q EXCEPT ![r] = d] /\ UNCHANGED env
  BY DEF TlsHandler
<1>2. Good(c, live, kind)
  BY <1>1 DEF HttpInv
<1>3. /\ Same(c, d) /\ d.st = "run" /\ d.i = c.i + 1 /\ d.handled = c.handled
      /\ d.uid = c.uid /\ d.retry = c.retry /\ d.scope = c.scope
      /\ d.open = c.open /\ d.paid = c.paid /\ d.parser = c.parser
      /\ \/ d.refusal = c.refusal /\ d.bodies = c.bodies
         \/ /\ c.in.plain /\ d.refusal = "tls" /\ d.status = 301
            /\ d.bodies = IF c.in.method = "GET" THEN c.bodies + 1 ELSE c.bodies
  <2>1. CASE c.in.plain
    BY <2>1 DEF Advance, Redirect, Same
  <2>2. CASE ~c.in.plain
    BY <2>2 DEF Advance, Same
  <2>. QED BY <2>1, <2>2
<1> HIDE DEF c, d
<1>4. Passed(d) = Passed(c) \cup {"tls"}
  BY <1>1, <1>2, <1>3, NextLayer DEF Good, Same
<1>5. OnItsWay(d) /\ Answer(d) /\ Corrected(d)
  <2>1. c.bodies = 0
    BY <1>1, <1>2 DEF Good, Answer
  <2>2. \/ d.refusal = c.refusal /\ d.bodies = c.bodies
        \/ /\ Layer(c) = "tls" /\ c.in.plain /\ d.refusal = "tls"
           /\ c.in.method = "GET" => d.status = 301 /\ d.bodies \in Nat \ {0}
    BY <1>1, <1>3, <2>1
  <2>. QED BY <1>1, <1>2, <1>3, <2>2, GoesOn DEF Good, OnItsWay
<1>6. Headers(d)
  <2>1. c.refusal \notin Limiters /\ d.refusal \notin Limiters
    BY <1>1, <1>2, <1>3 DEF Good, Answer, Limiters
  <2>2. c.retry \in BOOLEAN /\ ~(c.retry = TRUE)
    BY <1>2, <2>1 DEF Good, Headers
  <2>. QED BY <1>2, <1>3, <1>4, <2>1, <2>2 DEF Good, Headers
<1>7. Counted(d)
  <2>1. \A l : (Counts(d, l) <=> Counts(c, l)) /\ Owner(d, l) = Owner(c, l)
    BY <1>3 DEF Counts, Owner, Same
  <2>2. Passed(d) \cap Limiters = Passed(c) \cap Limiters
    BY <1>4 DEF Limiters
  <2>. QED BY <1>2, <1>3, <1>4, <2>1, <2>2 DEF Good, Counted
<1>8. Entered(d, live, kind)
  BY <1>1, <1>2, <1>3 DEF Good, Entered, Same
<1>9. bucket' \in [BucketKeys -> 0 .. Burst] /\ UNCHANGED <<kind, session, live>>
  BY <1>1 DEF env, HttpInv, EnvInv
<1>. QED BY <1>1, <1>5, <1>6, <1>7, <1>8, <1>9, OneMoves DEF Good

-----------------------------------------------------------------------------
(* The answer                                                              *)

\* The end of a request: its layer, uid, buckets and headers stay as they are.
LEMMA Ends ==
    ASSUME NEW c, NEW d, NEW alive, NEW cache, Good(c, alive, cache), Same(c, d),
           d.st = "done", d.i = c.i, d.uid = c.uid, d.retry = c.retry, d.scope = c.scope,
           d.refusal = c.refusal, d.open = c.open, d.paid = c.paid, d.parser = c.parser,
           c.refusal # "tls" /\ d.status \in {204, 500} => d.bodies = 0,
           c.refusal # "tls" /\ d.status \notin {204, 500} => d.bodies = 1,
           c.refusal = "tls" /\ c.in.method = "GET" => d.status = 301 /\ d.bodies \in Nat \ {0},
           c.st \in {"run", "refuse"}, d.handled \in BOOLEAN,
           d.handled = TRUE => c.st = "run" /\ Layer(c) = "handler",
           d.handled = FALSE => c.st = "refuse"
    PROVE  Good(d, alive, cache)
<1>1. Passed(d) = Passed(c) /\ Layer(d) = Layer(c) /\ c.st # "done"
  BY DEF Passed, Layer, Same
<1>2. OnItsWay(d)
  BY <1>1 DEF Good, OnItsWay, Same
<1>3. Answer(d)
  <2>1. d.refusal = "tls" => d.in.plain /\ Layer(d) = "handler" /\ d.st # "refuse"
    BY <1>1 DEF Good, Answer, Same
  <2>2. d.handled = TRUE => d.refusal \in {"none", "tls"}
    BY DEF Good, Answer
  <2>3. d.refusal = "tls" /\ d.in.method = "GET" => d.status = 301 /\ d.bodies \in Nat \ {0}
    BY DEF Same
  <2>. QED BY <2>1, <2>2, <2>3 DEF Answer
<1>4. Headers(d)
  <2>1. Headers(c)
    BY DEF Good
  <2>. QED BY <1>1, <2>1 DEF Headers
<1>5. Counted(d)
  <2>1. \A l : (Counts(d, l) <=> Counts(c, l)) /\ Owner(d, l) = Owner(c, l)
    BY DEF Counts, Owner, Same
  <2>. QED BY <1>1, <2>1 DEF Good, Counted
<1>6. Entered(d, alive, cache)
  BY <1>1 DEF Good, Entered, Same
<1>7. Corrected(d)
  BY <1>1 DEF Good, Corrected, Offered, Same
<1>. QED BY <1>2, <1>3, <1>4, <1>5, <1>6, <1>7 DEF Good

\* RenderError writes the answer of a layer that refused.
LEMMA RenderErrorInv == ASSUME HttpInv, NEW r \in Requests, RenderError(r) PROVE HttpInv'
<1> DEFINE c == q[r]
<1>1. c.st = "refuse" /\ UNCHANGED env
  BY DEF RenderError
<1>2. PICK s \in {c.status, 200} :
          q' = [q EXCEPT ![r].st = "done", ![r].bodies = @ + 1, ![r].status = s]
  BY DEF RenderError
<1>3. Good(c, live, kind)
  BY <1>1 DEF HttpInv
<1> DEFINE d == [c EXCEPT !.st = "done", !.bodies = @ + 1, !.status = s]
<1>4. /\ Same(c, d) /\ d.st = "done" /\ d.i = c.i /\ d.bodies = c.bodies + 1 /\ d.handled = c.handled
      /\ d.uid = c.uid /\ d.refusal = c.refusal /\ d.retry = c.retry /\ d.scope = c.scope /\ d.status = s
      /\ d.open = c.open /\ d.paid = c.paid /\ d.parser = c.parser
  BY DEF Same
<1>5. q' = [q EXCEPT ![r] = d]
  BY <1>2 DEF HttpInv
<1>6. c.refusal # "tls" /\ c.bodies = 0 /\ c.status \in {401, 429} /\ c.handled = FALSE
  BY <1>1, <1>3 DEF Good, Answer, OnItsWay
<1> HIDE DEF c, d
<1>7. d.bodies = 1 /\ d.status \notin {204, 500} /\ d.handled = FALSE
  BY <1>2, <1>4, <1>6
<1>8. Good(d, live, kind)
  <2>1. c.st \in {"run", "refuse"} /\ d.handled \in BOOLEAN /\ d.handled # TRUE
    BY <1>1, <1>7
  <2>2. /\ c.refusal # "tls" /\ d.status \in {204, 500} => d.bodies = 0
        /\ c.refusal # "tls" /\ d.status \notin {204, 500} => d.bodies = 1
        /\ c.refusal = "tls" /\ c.in.method = "GET" => d.status = 301 /\ d.bodies \in Nat \ {0}
        /\ d.handled = TRUE => c.st = "run" /\ Layer(c) = "handler"
        /\ d.handled = FALSE => c.st = "refuse"
    BY <1>1, <1>6, <1>7, <2>1
  <2>. QED BY <1>3, <1>4, <2>1, <2>2, Ends, Zenon
<1>9. bucket' \in [BucketKeys -> 0 .. Burst] /\ UNCHANGED <<kind, session, live>>
  BY <1>1 DEF env, HttpInv, EnvInv
<1>. QED BY <1>5, <1>8, <1>9, OneMoves

\* The handler writes its answer.
LEMMA HandleInv == ASSUME HttpInv, NEW r \in Requests, Handle(r) PROVE HttpInv'
<1> DEFINE c == q[r]
           a == IF c.in.route = "admin" /\ ~CheckLoginRole(c) THEN 400 ELSE 200
           s == WriteStatus(c, a)
           d == [c EXCEPT !.st = "done", !.handled = TRUE, !.bodies = @ + 1, !.status = s]
<1>1. c.st = "run" /\ Layer(c) = "handler" /\ UNCHANGED env
  BY DEF Handle
<1>2. q' = [q EXCEPT ![r] = d]
  BY DEF Handle, HttpInv
<1>3. Good(c, live, kind)
  BY <1>1 DEF HttpInv
<1>4. /\ Same(c, d) /\ d.st = "done" /\ d.i = c.i /\ d.bodies = c.bodies + 1 /\ d.handled = TRUE
      /\ d.uid = c.uid /\ d.refusal = c.refusal /\ d.retry = c.retry /\ d.scope = c.scope /\ d.status = s
      /\ d.open = c.open /\ d.paid = c.paid /\ d.parser = c.parser
  BY DEF Same
<1>5. /\ c.refusal # "tls" => c.bodies = 0
      /\ c.refusal = "tls" /\ c.in.method = "GET" => c.status = 301 /\ c.bodies \in Nat \ {0}
  BY <1>1, <1>3 DEF Good, Answer
<1>6. /\ a \in {400, 200} /\ (c.bodies = 0 => s = a)
      /\ c.bodies \in Nat \ {0} => s = c.status
  BY DEF WriteStatus
<1> HIDE DEF c, d, s, a
<1>7. /\ c.refusal # "tls" => d.bodies = 1 /\ d.status \notin {204, 500}
      /\ c.refusal = "tls" /\ c.in.method = "GET" => d.status = 301 /\ d.bodies \in Nat \ {0}
  BY <1>4, <1>5, <1>6
<1>8. Good(d, live, kind)
  <2>1. /\ c.refusal # "tls" /\ d.status \in {204, 500} => d.bodies = 0
        /\ c.refusal # "tls" /\ d.status \notin {204, 500} => d.bodies = 1
    BY <1>7
  <2>. QED BY <1>1, <1>3, <1>4, <1>7, <2>1, Ends, ZenonT(30)
<1>9. bucket' \in [BucketKeys -> 0 .. Burst] /\ UNCHANGED <<kind, session, live>>
  BY <1>1 DEF env, HttpInv, EnvInv
<1>. QED BY <1>2, <1>8, <1>9, OneMoves

\* gin.Recovery answers for a handler that panics.
LEMMA HandlerPanicsInv == ASSUME HttpInv, NEW r \in Requests, HandlerPanics(r) PROVE HttpInv'
<1> DEFINE c == q[r]
           s == WriteStatus(c, 500)
           d == [c EXCEPT !.st = "done", !.handled = TRUE, !.status = s]
<1>1. c.st = "run" /\ Layer(c) = "handler" /\ UNCHANGED env
  BY DEF HandlerPanics
<1>2. q' = [q EXCEPT ![r] = d]
  BY ZenonT(30) DEF HandlerPanics, HttpInv
<1>3. Good(c, live, kind)
  BY <1>1 DEF HttpInv
<1>4. /\ Same(c, d) /\ d.st = "done" /\ d.i = c.i /\ d.bodies = c.bodies /\ d.handled = TRUE
      /\ d.uid = c.uid /\ d.refusal = c.refusal /\ d.retry = c.retry /\ d.scope = c.scope /\ d.status = s
      /\ d.open = c.open /\ d.paid = c.paid /\ d.parser = c.parser
  BY DEF Same
<1>5. /\ c.refusal # "tls" => c.bodies = 0
      /\ c.refusal = "tls" /\ c.in.method = "GET" => c.status = 301 /\ c.bodies \in Nat \ {0}
  BY <1>1, <1>3 DEF Good, Answer
<1>6. (c.bodies = 0 => s = 500) /\ (c.bodies \in Nat \ {0} => s = c.status)
  BY DEF WriteStatus
<1> HIDE DEF c, d, s
<1>7. /\ c.refusal # "tls" => d.bodies = 0 /\ d.status \in {204, 500}
      /\ c.refusal = "tls" /\ c.in.method = "GET" => d.status = 301 /\ d.bodies \in Nat \ {0}
  BY <1>4, <1>5, <1>6
<1>8. Good(d, live, kind)
  BY <1>1, <1>3, <1>4, <1>7, Ends, ZenonT(30)
<1>9. bucket' \in [BucketKeys -> 0 .. Burst] /\ UNCHANGED <<kind, session, live>>
  BY <1>1 DEF env, HttpInv, EnvInv
<1>. QED BY <1>2, <1>8, <1>9, OneMoves

\* The engine's middlewares let a request in: CORSMiddleware ends a preflight,
\* the override settles the headers of everything else.
LEMMA ArriveInv ==
    ASSUME HttpInv, NEW r \in Requests, NEW in \in Inputs, Arrive(r, in) PROVE HttpInv'
<1> DEFINE f == Fresh(in)
           c == CORSMiddleware(f)
           d == IF c.st = "done" THEN c ELSE SecureCORSOverrideMiddleware(c)
<1>1. q' = [q EXCEPT ![r] = d] /\ UNCHANGED env
  BY DEF Arrive
<1>2. /\ c.in = in /\ c.i = 1 /\ c.st \in {"run", "done"} /\ c.handled = FALSE /\ c.uid = ""
      /\ c.bodies = 0 /\ c.refusal = "none" /\ c.retry = FALSE /\ c.open = {} /\ c.paid = {}
      /\ c.parser = "none" /\ c.ended \in BOOLEAN /\ (c.ended = TRUE => in.token \notin live)
      /\ (c.st = "done" => c.status = 204)
      /\ c.vary = FALSE
  BY DEF Fresh, CORSMiddleware
<1>3. /\ d.in = c.in /\ d.i = c.i /\ d.st = c.st /\ d.handled = c.handled /\ d.uid = c.uid
      /\ d.bodies = c.bodies /\ d.refusal = c.refusal /\ d.retry = c.retry /\ d.open = c.open
      /\ d.paid = c.paid /\ d.parser = c.parser /\ d.ended = c.ended /\ d.status = c.status
  BY DEF Fresh, CORSMiddleware, SecureCORSOverrideMiddleware
<1>4. c.st # "done" => Offered(d)
  <2>1. CASE c.in.origin = NoOrigin
    <3>1. c.st # "done" => d.acao = "none" /\ d.acac = FALSE /\ d.vary = FALSE
      BY <2>1 DEF Fresh, CORSMiddleware, SecureCORSOverrideMiddleware
    <3>. QED BY <1>3, <2>1, <3>1 DEF Offered
  <2>2. CASE c.in.origin # NoOrigin /\ IsOriginAllowed(c.in.origin)
    <3>1. c.st # "done" => d.acao = "own" /\ d.acac = TRUE /\ d.vary = TRUE
      BY <2>2 DEF Fresh, CORSMiddleware, SecureCORSOverrideMiddleware
    <3>. QED BY <1>3, <2>2, <3>1 DEF Offered
  <2>3. CASE c.in.origin # NoOrigin /\ ~IsOriginAllowed(c.in.origin)
    <3>1. c.st # "done" => d.acao = "none" /\ d.acac = FALSE /\ d.vary = TRUE
      BY <2>3 DEF Fresh, CORSMiddleware, SecureCORSOverrideMiddleware
    <3>. QED BY <1>3, <2>3, <3>1 DEF Offered
  <2>. QED BY <2>1, <2>2, <2>3
<1> HIDE DEF f, c, d
<1>5. Passed(d) = {}
  <2>1. d.i = 1
    BY <1>2, <1>3
  <2>. QED BY <2>1 DEF Passed
<1>6. OnItsWay(d)
  <2>1. in.route \in {"login", "user", "admin", "late"}
    BY HttpAssumption, Routes
  <2>2. 1 \in DOMAIN Chains[in.route]
    BY <2>1 DEF Chains
  <2>. QED BY <1>2, <1>3, <2>2 DEF OnItsWay
<1>7. Answer(d)
  <2>1. d.bodies = 0 /\ d.refusal = "none" /\ d.st \in {"run", "done"} /\ (d.st = "done" => d.status = 204)
    BY <1>2, <1>3
  <2>. QED BY <2>1 DEF Answer
<1>8. Headers(d)
  BY <1>2, <1>3, <1>5 DEF Headers, Limiters
<1>9. Counted(d)
  BY <1>2, <1>3, <1>5 DEF Counted
<1>10. Entered(d, live, kind)
  BY <1>2, <1>3 DEF Entered
<1>11. Corrected(d)
  BY <1>2, <1>3, <1>4, ZenonT(30) DEF Corrected
<1>12. bucket' \in [BucketKeys -> 0 .. Burst] /\ UNCHANGED <<kind, session, live>>
  BY <1>1 DEF env, HttpInv, EnvInv
<1>. QED BY <1>1, <1>6, <1>7, <1>8, <1>9, <1>10, <1>11, <1>12, OneMoves DEF Good

-----------------------------------------------------------------------------
(* Sessions, injections and Redis                                          *)

\* A request stays good when sessions end, and when one begins whose token is not
\* the request's.
LEMMA OthersGood ==
    ASSUME NEW c, NEW alive, NEW now, NEW cache, Good(c, alive, cache), c.in.token \notin now \ alive
    PROVE  Good(c, now, cache)
  BY DEF Good, Entered

\* A login with the request's own token.
LEMMA LoggedInGood ==
    ASSUME NEW c, NEW alive, NEW now, NEW cache, Good(c, alive, cache)
    PROVE  Good([c EXCEPT !.ended = FALSE], now, cache)
<1> DEFINE d == [c EXCEPT !.ended = FALSE]
<1>1. /\ d.in = c.in /\ d.i = c.i /\ d.st = c.st /\ d.handled = c.handled /\ d.uid = c.uid
      /\ d.bodies = c.bodies /\ d.refusal = c.refusal /\ d.retry = c.retry /\ d.open = c.open
      /\ d.paid = c.paid /\ d.parser = c.parser /\ d.status = c.status /\ d.scope = c.scope
      /\ d.acao = c.acao /\ d.acac = c.acac /\ d.vary = c.vary /\ d.ended = FALSE
  OBVIOUS
<1> HIDE DEF d
<1>2. Passed(d) = Passed(c) /\ Layer(d) = Layer(c)
  BY <1>1 DEF Passed, Layer
<1>3. OnItsWay(d)
  BY <1>1, <1>2 DEF Good, OnItsWay
<1>4. Answer(d)
  BY <1>1, <1>2 DEF Good, Answer
<1>5. Headers(d)
  BY <1>1, <1>2 DEF Good, Headers
<1>6. Counted(d)
  <2>1. \A l : (Counts(d, l) <=> Counts(c, l)) /\ Owner(d, l) = Owner(c, l)
    BY <1>1 DEF Counts, Owner
  <2>. QED BY <1>1, <1>2, <2>1 DEF Good, Counted
<1>7. Entered(d, now, cache)
  BY <1>1 DEF Good, Entered
<1>8. Corrected(d)
  BY <1>1 DEF Good, Corrected, Offered
<1>. QED BY <1>3, <1>4, <1>5, <1>6, <1>7, <1>8 DEF Good, d

LEMMA SetAndExpireInv ==
    ASSUME HttpInv, NEW t \in Tokens, NEW e \in Entries, SetAndExpire(t, e) PROVE HttpInv'
<1>1. /\ session' = [session EXCEPT ![t] = e] /\ live' = live \cup {t} /\ kind' = kind /\ bucket' = bucket
      /\ q' = [r \in Requests |-> IF q[r].st # "idle" /\ q[r].in.token = t
                                  THEN [q[r] EXCEPT !.ended = FALSE] ELSE q[r]]
  BY DEF SetAndExpire
<1>2. EnvInv'
  BY <1>1 DEF HttpInv, EnvInv
<1>3. ASSUME NEW r \in Requests PROVE q'[r].st = "idle" \/ Good(q'[r], live', kind')
  <2>1. CASE q[r].st = "idle"
    BY <1>1, <2>1
  <2>2. CASE q[r].st # "idle" /\ q[r].in.token = t
    <3>1. q'[r] = [q[r] EXCEPT !.ended = FALSE] /\ Good(q[r], live, kind)
      BY <1>1, <2>2 DEF HttpInv
    <3>. QED BY <1>1, <3>1, LoggedInGood
  <2>3. CASE q[r].st # "idle" /\ q[r].in.token # t
    <3>1. q'[r] = q[r] /\ Good(q[r], live, kind) /\ q[r].in.token \notin live' \ live
      BY <1>1, <2>3 DEF HttpInv
    <3>. QED BY <1>1, <3>1, OthersGood
  <2>. QED BY <2>1, <2>2, <2>3
<1>4. q' = [r \in Requests |-> q'[r]]
  BY <1>1
<1>. QED BY <1>2, <1>3, <1>4 DEF HttpInv

\* Delete and Expire end a session and leave the requests alone.
LEMMA SessionEnds ==
    ASSUME HttpInv, NEW t \in Tokens, Delete(t) \/ Expire(t) PROVE HttpInv'
<1>1. /\ session' = [session EXCEPT ![t] = <<>>] \/ (kind # "redis" /\ session' = session)
      /\ live' = live \ {t} /\ UNCHANGED <<kind, bucket, q>>
  BY DEF Delete, Expire
<1>2. EnvInv'
  BY <1>1 DEF HttpInv, EnvInv
<1>3. \A r \in Requests : q[r].st = "idle" \/ Good(q[r], live', kind)
  BY <1>1, OthersGood DEF HttpInv
<1>. QED BY <1>1, <1>2, <1>3 DEF HttpInv

\* The other events change neither sessions nor requests.
LEMMA EventsInv ==
    ASSUME HttpInv, UNCHANGED <<kind, session, live, q>>,
           \/ UNCHANGED bucket
           \/ \E k \in BucketKeys : bucket[k] < Burst /\ bucket' = [bucket EXCEPT ![k] = @ + 1]
    PROVE  HttpInv'
<1>1. bucket' \in [BucketKeys -> 0 .. Burst]
  <2>1. bucket \in [BucketKeys -> 0 .. Burst] /\ Burst \in Nat
    BY HttpAssumption DEF HttpInv, EnvInv
  <2>. QED BY <2>1
<1>. QED BY <1>1 DEF HttpInv, EnvInv

LEMMA InitHttpInv == Init => HttpInv
<1> SUFFICES ASSUME Init PROVE HttpInv
  OBVIOUS
<1>1. EnvInv
  <2>1. session \in [Tokens -> {<<>>} \cup Entries] /\ live \subseteq Tokens
    BY DEF Init
  <2>2. \A t \in Tokens \ live : session[t] = <<>>
    BY DEF Init
  <2>3. bucket \in [BucketKeys -> 0 .. Burst]
    <3>1. Burst \in Nat
      BY HttpAssumption
    <3>2. Burst \in 0 .. Burst
      BY <3>1
    <3>. QED BY <3>2 DEF Init
  <2>. QED BY <2>1, <2>2, <2>3 DEF EnvInv
<1>2. q = [r \in Requests |-> q[r]] /\ \A r \in Requests : q[r].st = "idle"
  BY DEF Init, Idle
<1>. QED BY <1>1, <1>2 DEF HttpInv

LEMMA StepHttpInv == HttpInv /\ [Next]_vars => HttpInv'
<1> SUFFICES ASSUME HttpInv, [Next]_vars PROVE HttpInv'
  OBVIOUS
<1>1. CASE \E r \in Requests : Step(r)
  BY <1>1, LimitSkipsInv, LimitAllowsInv, LimitRefusesInv, LimitFailsOpenInv, AuthMiddlewareInv,
     ParseInv, ParseCustomInv, RenderErrorInv, TlsHandlerInv, HandleInv, HandlerPanicsInv DEF Step
<1>2. CASE \E r \in Requests : \E in \in Inputs : Arrive(r, in)
  BY <1>2, ArriveInv
<1>3. CASE \E t \in Tokens : Delete(t) \/ Expire(t) \/ \E e \in Entries : SetAndExpire(t, e)
  BY <1>3, SessionEnds, SetAndExpireInv
<1>4. CASE \/ \E p \in {"legacy", "custom"} : SetTokenParser(p)
           \/ \E p \in {"default", "custom"} : SetErrorRenderer(p)
           \/ \E u \in {"up", "down"} : RedisTurns(u)
  <2>1. UNCHANGED <<kind, session, live, q, bucket>>
    BY <1>4 DEF SetTokenParser, SetErrorRenderer, RedisTurns
  <2>. QED BY <2>1, EventsInv
<1>5. CASE \E k \in BucketKeys : Refill(k)
  <2>1. PICK k \in BucketKeys : Refill(k)
    BY <1>5
  <2>. QED BY <2>1, EventsInv DEF Refill
<1>6. CASE UNCHANGED vars
  BY <1>6, EventsInv DEF vars, env
<1>. QED BY <1>1, <1>2, <1>3, <1>4, <1>5, <1>6 DEF Next

\* The invariant of the layer: every request is good at the place it has reached,
\* and a session that is over is out of Redis.
THEOREM HttpInvariant == Spec => []HttpInv
  BY InitHttpInv, StepHttpInv, PTL DEF Spec

-----------------------------------------------------------------------------
(* What follows                                                            *)

\* Buckets stay within their capacity and the session cache holds what logins
\* wrote, whatever the interleaving of requests, logins, refills and failures.
THEOREM TypeIsCorrect == Spec => []TypeOK
<1>1. HttpInv => TypeOK
  BY DEF HttpInv, EnvInv, TypeOK, Good, OnItsWay
<1>. QED BY <1>1, HttpInvariant, PTL

\* Every request that ends and was not redirected was answered once; a GET that was
\* redirected keeps the 301, whatever its handler wrote behind it; and Retry-After and
\* the scope header name the limiter that answered.
THEOREM AnswersOnce == Spec => []OneAnswer
<1>1. ASSUME HttpInv PROVE OneAnswer
  <2>1. \A r \in Done : Good(q[r], live, kind) /\ q[r].st = "done"
    BY <1>1 DEF HttpInv, Done
  <2>2. AnsweredOnce
    BY <2>1 DEF AnsweredOnce, Good, Answer
  <2>3. ASSUME NEW r \in Done
        PROVE  /\ q[r].retry <=> q[r].refusal \in Limiters
               /\ q[r].retry => q[r].scope = q[r].refusal
               /\ q[r].handled /\ q[r].uid # "" => q[r].scope = "uid"
    <3> DEFINE c == q[r]
    <3>1. Good(c, live, kind) /\ OnItsWay(c) /\ Headers(c)
      BY <2>1, <2>3 DEF Good
    <3> HIDE DEF c
    <3>2. c.handled /\ c.uid # "" => "uid" \in Passed(c)
      BY <3>1, ChainFacts DEF OnItsWay
    <3>3. (c.retry <=> c.refusal \in Limiters) /\ (c.retry => c.scope = c.refusal)
      BY <3>1 DEF Headers
    <3>4. c.handled /\ c.uid # "" => c.scope = "uid"
      BY <3>1, <3>2 DEF Headers
    <3>. QED BY <3>3, <3>4 DEF c
  <2>4. HeadersTell
    BY <2>3, Zenon DEF HeadersTell
  <2>. QED BY <2>2, <2>4 DEF OneAnswer
<1>. QED BY <1>1, HttpInvariant, PTL

\* With the RedisCache, no request is served whose token had no session at any
\* time since it arrived.
THEOREM OnlySessionsEnter == Spec => []NoSessionNoEntry
<1>1. ASSUME HttpInv PROVE NoSessionNoEntry
  <2>1. SUFFICES ASSUME kind = "redis", NEW r \in Active, q[r].handled, q[r].parser = "legacy"
                 PROVE  ~q[r].ended
    BY Zenon DEF NoSessionNoEntry
  <2> DEFINE c == q[r]
  <2>2. OnItsWay(c) /\ Entered(c, live, kind)
    BY <1>1 DEF HttpInv, Good, Active
  <2>3. c.st = "done" /\ c.handled = TRUE
    BY <2>1, <2>2 DEF OnItsWay
  <2>4. c.ended = FALSE
    BY <2>1, <2>2, <2>3 DEF Entered
  <2>. QED BY <2>4
<1>. QED BY <1>1, HttpInvariant, PTL

\* What the override promises the browser, said of the labels of the host: the
\* origin is listed, or ends in a listed domain and has more labels.
LEMMA SuffixIsEnd ==
    ASSUME NEW s \in Seq(STRING), NEW t \in Seq(STRING), IsSuffix(s, t)
    PROVE  Len(s) <= Len(t) /\ SubSeq(t, Len(t) - Len(s) + 1, Len(t)) = s
<1> DEFINE rs == Reverse(s)
           rt == Reverse(t)
           n  == Len(t) - Len(s)
           u  == SubSeq(t, n + 1, Len(t))
<1>1. /\ Len(s) \in Nat /\ \A i \in 1 .. Len(s) : s[i] \in STRING
      /\ Len(t) \in Nat /\ \A i \in 1 .. Len(t) : t[i] \in STRING
  BY LenProperties, ElementOfSeq
<1>2. /\ rs \in Seq(STRING) /\ Len(rs) = Len(s) /\ \A i \in 1 .. Len(s) : rs[i] = s[(Len(s) - i) + 1]
      /\ rt \in Seq(STRING) /\ Len(rt) = Len(t) /\ \A i \in 1 .. Len(t) : rt[i] = t[(Len(t) - i) + 1]
  BY <1>1 DEF Reverse
<1> HIDE DEF rs, rt
<1>3. Len(s) <= Len(t) /\ SubSeq(rs, 1, Len(s)) = SubSeq(rt, 1, Len(s))
  BY <1>2 DEF IsSuffix, IsPrefix, rs, rt
<1>4. \A i \in 1 .. Len(s) : rs[i] \in STRING /\ rt[i] \in STRING
  BY <1>1, <1>2, <1>3
<1>5. \A i \in 1 .. Len(s) : SubSeq(rs, 1, Len(s))[i] = rs[i] /\ SubSeq(rt, 1, Len(s))[i] = rt[i]
  BY <1>1, <1>4, SubSeqProperties
<1>6. \A i \in 1 .. Len(s) : s[(Len(s) - i) + 1] = t[(Len(t) - i) + 1]
  BY <1>1, <1>2, <1>3, <1>5
<1>7. ASSUME NEW j \in 1 .. Len(s) PROVE s[j] = t[n + j]
  <2>1. (Len(s) - j) + 1 \in 1 .. Len(s)
    BY <1>1
  <2>2. s[(Len(s) - ((Len(s) - j) + 1)) + 1] = t[(Len(t) - ((Len(s) - j) + 1)) + 1]
    BY <1>6, <2>1
  <2>3. (Len(s) - ((Len(s) - j) + 1)) + 1 = j /\ (Len(t) - ((Len(s) - j) + 1)) + 1 = n + j
    BY <1>1
  <2>. QED BY <2>2, <2>3
<1>8. /\ u \in Seq(STRING) /\ Len(u) = IF n + 1 <= Len(t) THEN Len(t) - (n + 1) + 1 ELSE 0
      /\ \A i \in 1 .. Len(t) - (n + 1) + 1 : u[i] = t[n + 1 + i - 1]
  <2>1. n + 1 \in Int /\ Len(t) \in Int /\ \A i \in n + 1 .. Len(t) : t[i] \in STRING
    BY <1>1, <1>3
  <2>. QED BY <2>1, SubSeqProperties
<1>9. Len(u) = Len(s) /\ \A i \in 1 .. Len(s) : u[i] = s[i]
  <2>1. Len(t) - (n + 1) + 1 = Len(s) /\ \A i \in 1 .. Len(s) : n + 1 + i - 1 = n + i
    BY <1>1
  <2>2. Len(u) = Len(s)
    BY <1>1, <1>3, <1>8
  <2>3. \A i \in 1 .. Len(s) : u[i] = t[n + i]
    BY <1>8, <2>1
  <2>. QED BY <1>7, <2>2, <2>3
<1>10. u = s
  BY <1>8, <1>9, SeqEqual
<1>. QED BY <1>3, <1>10

\* A wildcard entry never matches the bare domain it names.
LEMMA AllowedIsListed ==
    ASSUME NEW o, o.host \in Seq(STRING), IsOriginAllowed(o)
    PROVE  \E e \in Whitelist :
              /\ e.scheme = o.scheme \/ (e.scheme = "" /\ e.wild)
              /\ \E n \in 0 .. Len(o.host) :
                    /\ SubSeq(o.host, n + 1, Len(o.host)) = e.host
                    /\ e.wild <=> n > 0
<1>1. PICK e \in Whitelist : \/ ~e.wild /\ e.scheme = o.scheme /\ e.host = o.host
                             \/ matchWildcardOrigin(e, o)
  BY DEF IsOriginAllowed
<1>2. e.host \in Seq(STRING) /\ Len(e.host) \in Nat /\ Len(o.host) \in Nat
  BY HttpAssumption, LenProperties
<1>3. CASE ~e.wild /\ e.scheme = o.scheme /\ e.host = o.host
  <2>1. SubSeq(o.host, 0 + 1, Len(o.host)) = e.host /\ 0 \in 0 .. Len(o.host)
    BY <1>2, <1>3, SubSeqFull
  <2>2. e.wild <=> 0 > 0
    BY <1>3
  <2>. QED BY <1>3, <2>1, <2>2, Zenon
<1>4. CASE matchWildcardOrigin(e, o)
  <2>1. e.scheme \in {"", o.scheme} /\ e.wild /\ Len(o.host) > Len(e.host) /\ IsSuffix(e.host, o.host)
    BY <1>4 DEF matchWildcardOrigin
  <2> DEFINE n == Len(o.host) - Len(e.host)
  <2>2. SubSeq(o.host, n + 1, Len(o.host)) = e.host
    BY <1>2, <2>1, SuffixIsEnd
  <2>3. n \in 0 .. Len(o.host) /\ n > 0
    <3>1. Len(o.host) > Len(e.host)
      BY <2>1, Zenon
    <3>2. \A a, b \in Nat : a > b => a - b \in 0 .. a /\ a - b > 0
      OBVIOUS
    <3>. QED BY <1>2, <3>1, <3>2, Zenon
  <2>4. e.scheme = o.scheme \/ (e.scheme = "" /\ e.wild)
    BY <2>1
  <2> HIDE DEF n
  <2>. QED BY <2>1, <2>2, <2>3, <2>4
<1>. QED BY <1>1, <1>3, <1>4

\* Credentials go to listed origins and their strict subdomains only.
THEOREM OriginsAreListed == Spec => []CrossOrigin
<1>1. ASSUME HttpInv PROVE CrossOrigin
  <2>1. ASSUME NEW r \in Done, q[r].status # 204 PROVE Offered(q[r]) /\ q[r].in \in Inputs
    BY <1>1, <2>1 DEF HttpInv, Done, Good, Corrected, OnItsWay
  <2>2. \A r \in Done : q[r].status # 204 => q[r].in.origin.host \in Seq(STRING)
    BY <2>1, HttpAssumption
  <2>3. ASSUME NEW r \in Done, q[r].status # 204, q[r].acac
        PROVE  /\ q[r].in.origin # NoOrigin
               /\ \E e \in Whitelist :
                     /\ e.scheme = q[r].in.origin.scheme \/ (e.scheme = "" /\ e.wild)
                     /\ \E n \in 0 .. Len(q[r].in.origin.host) :
                           /\ SubSeq(q[r].in.origin.host, n + 1, Len(q[r].in.origin.host)) = e.host
                           /\ e.wild <=> n > 0
    <3>1. q[r].in.origin # NoOrigin /\ IsOriginAllowed(q[r].in.origin)
      BY <2>1, <2>3, Zenon DEF Offered
    <3>. QED BY <2>2, <2>3, <3>1, AllowedIsListed
  <2>4. \A r \in Done : q[r].status # 204 =>
           (q[r].acac <=> q[r].acao = "own") /\ (q[r].vary <=> q[r].in.origin # NoOrigin)
    BY <2>1, Zenon DEF Offered
  <2>. QED BY <2>3, <2>4, Zenon DEF CrossOrigin
<1>. QED BY <1>1, HttpInvariant, PTL

\* The proxy in front appends the address it saw, and ClientIP reads that one.
ProxyTold == \A in \in Inputs : ClientIP(in) = in.src

\* Behind such a proxy, who is served has been counted in exactly its own buckets.
THEOREM CountedInOwnBuckets == ASSUME ProxyTold PROVE Spec => []OwnBuckets
<1>1. ASSUME HttpInv PROVE OwnBuckets
  <2>1. SUFFICES ASSUME NEW r \in Active, q[r].handled
        PROVE LET c == q[r]
                  counted(l) == CASE l = "ip" -> ~c.in.excluded
                                  [] l = "uid" -> c.uid # ""
                                  [] OTHER -> TRUE
                  owner(l) == IF l = "uid" THEN c.uid ELSE c.in.src
              IN c.paid = {<<l, owner(l)>> : l \in {k \in Range(Chains[c.in.route]) \cap Limiters :
                                                          counted(k) /\ k \notin c.open}}
    BY DEF OwnBuckets
  <2> DEFINE c == q[r]
             counted(l) == CASE l = "ip" -> ~c.in.excluded
                             [] l = "uid" -> c.uid # ""
                             [] OTHER -> TRUE
             owner(l) == IF l = "uid" THEN c.uid ELSE c.in.src
             L == {k \in Range(Chains[c.in.route]) \cap Limiters : counted(k) /\ k \notin c.open}
             P == {k \in Passed(c) \cap Limiters : Counts(c, k) /\ k \notin c.open}
  <2>2. OnItsWay(c) /\ Counted(c)
    BY <1>1 DEF HttpInv, Good, Active
  <2>3. Layer(c) = "handler" /\ ClientIP(c.in) = c.in.src
    BY <2>1, <2>2 DEF OnItsWay, ProxyTold
  <2>4. Passed(c) \cap Limiters = Range(Chains[c.in.route]) \cap Limiters
    BY <2>2, <2>3, ChainFacts
  <2>5. \A l \in Limiters : (counted(l) <=> Counts(c, l)) /\ owner(l) = Owner(c, l)
    BY <2>3 DEF Counts, Owner, Limiters
  <2>6. c.paid = {<<l, Owner(c, l)>> : l \in P}
    BY <2>2 DEF Counted
  <2> HIDE DEF c, counted, owner
  <2>7. L = P
    BY <2>4, <2>5
  <2>8. {<<l, Owner(c, l)>> : l \in P} = {<<l, owner(l)>> : l \in P}
    BY <2>5
  <2>. QED BY <2>6, <2>7, <2>8 DEF c, counted, owner
<1>. QED BY <1>1, HttpInvariant, PTL

\* RenderError leaves it to the caller to Abort, and every caller in the chain does:
\* no limiter and no parser lets a request through that it refused.  The exception
\* is TlsHandler, whose redirect of a plain request does not stop it.
THEOREM RefusedNeverHandled == Spec => []RefusedStops
<1>1. ASSUME HttpInv, NEW r \in Active, q[r].handled, q[r].refusal # "none"
      PROVE  q[r].refusal = "tls" /\ q[r].in.plain
  <2>1. Answer(q[r])
    BY <1>1 DEF HttpInv, Active, Good
  <2>. QED BY <1>1, <2>1 DEF Answer
<1>2. HttpInv => RefusedStops
  BY <1>1, Zenon DEF RefusedStops
<1>. QED BY <1>2, HttpInvariant, PTL
=============================================================================
