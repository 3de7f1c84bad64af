---------------------------- MODULE HttpPipeline ----------------------------
(***************************************************************************)
(* pkg/wkhttp: the way of a request through the middlewares - CORS, its    *)
(* whitelist override, the limiters, authentication, the HTTPS redirect of *)
(* server.go - to the handler, with the session cache of common/cache.go.  *)
(* A step of a request ends where it reads or writes what others share:    *)
(* Redis, the cache, the injected parser and renderer.  Other requests,    *)
(* logins, logouts, expiries and a failing Redis come in between.          *)
(***************************************************************************)
EXTENDS Integers, Sequences, SequencesExt, FiniteSets

CONSTANTS Requests,   \* goroutines that serve a request
          Inputs,     \* the requests that can arrive, see HttpAssumption
          Whitelist,  \* parsed DM_CORS_ALLOWED_ORIGINS: [scheme, wild, host]
          Tokens,     \* values of the header token
          Entries,    \* what a login caches: "uid@name[@role]" split at "@"
          Burst,      \* capacity of every bucket
          MaxEvents   \* bound of the model: events from outside the requests

VARIABLES kind,      \* "redis" or "memory": the cache.Cache the service uses
          session,   \* token -> cached entry, <<>> when there is none
          live,      \* tokens logged in, not logged out and not out of time
          up,        \* "up" or "down": Redis
          parser,    \* "legacy" or "custom": the injected TokenParser
          renderer,  \* "default" or "custom": the injected ErrorRenderer
          bucket,    \* tokens left per bucket key
          events,
          q          \* the state of each request

env  == <<kind, session, live, up, parser, renderer, bucket, events>>
vars == <<env, q>>

Unknown  == "unknown"     \* unknownIPKey
NoOrigin == [scheme |-> "", host |-> <<>>]
Limiters == {"ip", "strict", "uid"}

\* Where the middlewares are mounted: CORS, its override and the IP limiter on
\* the engine, the strict limiter on a login route, authentication and the uid
\* limiter - in this order - on a group; TlsHandler guards the routes registered
\* after it.
Chains == [login  |-> <<"ip", "strict", "handler">>,
           user   |-> <<"ip", "auth", "uid", "handler">>,
           admin  |-> <<"ip", "auth", "uid", "handler">>,
           late   |-> <<"ip", "tls", "handler">>]

\* What the constants must be.  A request names its route, method, token, origin,
\* address headers and peer; src is the address that the proxy in front saw.
ASSUME HttpAssumption ==
    /\ \A in \in Inputs : /\ in.route \in DOMAIN Chains /\ in.token \in Tokens \cup {""}
                          /\ in.origin.host \in Seq(STRING)
    /\ \A e \in Whitelist : e.host \in Seq(STRING)
    /\ Entries \subseteq Seq(STRING)
    /\ Burst \in Nat

\* ParseAddr and Unmap; an address with a zone counts as unreadable.
Canonical(a) == IF a.form \in {"plain", "mapped"} THEN a.ip ELSE Unknown

\* Fault: the leftmost entry, which the client writes.
ClientIP_First(in) ==
    IF in.xff # <<>> THEN Canonical(Head(Head(in.xff))) ELSE Canonical(in.remote)

\* X-Forwarded-For decides when it is there: the last entry of its last line.
\* X-Real-Ip is next, and must come once; an empty one counts as absent.
ClientIP(in) ==
    IF in.xff # <<>> THEN Canonical(Last(Last(in.xff)))
    ELSE IF Len(in.real) > 1 THEN Unknown
    ELSE IF \E a \in Range(in.real) : a.form # "empty" THEN Canonical(in.real[1])
    ELSE Canonical(in.remote)

\* Fault: a suffix of the characters, so that the bare host matches too.
matchWildcardOrigin_BareHost(e, o) == e.wild /\ e.scheme \in {"", o.scheme} /\ IsSuffix(e.host, o.host)

matchWildcardOrigin(e, o) ==
    /\ e.scheme \in {"", o.scheme}
    /\ e.wild
    /\ Len(o.host) > Len(e.host) /\ IsSuffix(e.host, o.host)

IsOriginAllowed(o) ==
    \E e \in Whitelist : \/ ~e.wild /\ e.scheme = o.scheme /\ e.host = o.host
                         \/ matchWildcardOrigin(e, o)

-----------------------------------------------------------------------------
Idle == [st |-> "idle"]

\* A request as gin.Context holds it; `ended`: its token had no session at any
\* time since it arrived.
Fresh(in) ==
    [st |-> "run", in |-> in, i |-> 1, parser |-> "none", uid |-> "", role |-> "",
     acao |-> "none", acac |-> FALSE, vary |-> FALSE, scope |-> "none", retry |-> FALSE,
     status |-> 0, bodies |-> 0, paid |-> {}, open |-> {}, refusal |-> "none",
     handled |-> FALSE, ended |-> in.token \notin live]

Layer(c)   == Chains[c.in.route][c.i]
Advance(c) == [c EXCEPT !.i = @ + 1, !.st = "run"]

CORSMiddleware(c) ==
    [c EXCEPT !.acao = "*", !.acac = TRUE,
              !.status = IF c.in.method = "OPTIONS" THEN 204 ELSE @,
              !.st = IF c.in.method = "OPTIONS" THEN "done" ELSE @]

SecureCORSOverrideMiddleware(c) ==
    CASE c.in.origin = NoOrigin -> [c EXCEPT !.acao = "none", !.acac = FALSE]
      [] c.in.origin # NoOrigin /\ IsOriginAllowed(c.in.origin) ->
            [c EXCEPT !.vary = TRUE, !.acao = "own", !.acac = TRUE]
      [] OTHER -> [c EXCEPT !.vary = TRUE, !.acao = "none", !.acac = FALSE]

\* gin runs the engine's middlewares; an aborted preflight goes no further.
Arrive(r, in) ==
    /\ q[r].st = "idle"
    /\ LET c == CORSMiddleware(Fresh(in))
       IN q' = [q EXCEPT ![r] = IF c.st = "done" THEN c ELSE SecureCORSOverrideMiddleware(c)]
    /\ UNCHANGED env

\* RateLimitMiddleware, StrictIPRateLimitMiddleware and UIDRateLimitMiddleware:
\* who is not counted, the key, and the three results of keyedLimiter.allow.
Skips(c) ==
    \/ Layer(c) = "ip" /\ c.in.excluded
    \/ Layer(c) = "uid" /\ c.uid = ""
Key(c) == <<Layer(c), IF Layer(c) = "uid" THEN c.uid ELSE ClientIP(c.in)>>
AtLimiter(r) == q[r].st = "run" /\ Layer(q[r]) \in Limiters

LimitSkips(r) ==
    /\ AtLimiter(r) /\ Skips(q[r])
    /\ q' = [q EXCEPT ![r] = Advance(@)]
    /\ UNCHANGED env

setRateLimitHeaders(c, retry) == [c EXCEPT !.scope = Layer(c), !.retry = retry]

\* Fault: the script takes a token without asking whether there is one.
LimitAllows_Unchecked(r) ==
    LET c == q[r] IN
    /\ AtLimiter(r) /\ ~Skips(c) /\ up = "up"
    /\ bucket' = [bucket EXCEPT ![Key(c)] = @ - 1]
    /\ q' = [q EXCEPT ![r] = Advance(setRateLimitHeaders([c EXCEPT !.paid = @ \cup {Key(c)}], FALSE))]
    /\ UNCHANGED <<kind, session, live, up, parser, renderer, events>>

LimitAllows(r) ==
    LET c == q[r] IN
    /\ AtLimiter(r) /\ ~Skips(c) /\ up = "up"
    /\ bucket[Key(c)] > 0
    /\ bucket' = [bucket EXCEPT ![Key(c)] = @ - 1]
    /\ q' = [q EXCEPT ![r] = Advance(setRateLimitHeaders([c EXCEPT !.paid = @ \cup {Key(c)}], FALSE))]
    /\ UNCHANGED <<kind, session, live, up, parser, renderer, events>>

\* Fault: the middleware does not abort.
LimitRefuses_NoAbort(r) ==
    LET c == q[r] IN
    /\ AtLimiter(r) /\ ~Skips(c) /\ up = "up"
    /\ bucket[Key(c)] = 0
    /\ q' = [q EXCEPT ![r] = Advance([setRateLimitHeaders(c, TRUE)
                                        EXCEPT !.refusal = Layer(c), !.status = 429, !.bodies = @ + 1])]
    /\ UNCHANGED env

LimitRefuses(r) ==
    LET c == q[r] IN
    /\ AtLimiter(r) /\ ~Skips(c) /\ up = "up"
    /\ bucket[Key(c)] = 0
    /\ q' = [q EXCEPT ![r] = [setRateLimitHeaders(c, TRUE)
                                EXCEPT !.st = "refuse", !.refusal = Layer(c), !.status = 429]]
    /\ UNCHANGED env

\* Fault: the call is repeated until Redis is back.
LimitFailsOpen_Waits(r) == AtLimiter(r) /\ ~Skips(q[r]) /\ up = "down" /\ UNCHANGED vars

\* Redis does not answer: the request passes, uncounted.
LimitFailsOpen(r) ==
    LET c == q[r] IN
    /\ AtLimiter(r) /\ ~Skips(c) /\ up = "down"
    /\ q' = [q EXCEPT ![r] = Advance(setRateLimitHeaders([c EXCEPT !.open = @ \cup {Layer(c)}], FALSE))]
    /\ UNCHANGED env

\* AuthMiddleware up to the call of Parse: the parser is loaded once.
Unauthorized(c) == [c EXCEPT !.st = "refuse", !.refusal = "auth", !.status = 401]
AuthMiddleware(r) ==
    LET c == q[r] IN
    /\ c.st = "run" /\ Layer(c) = "auth"
    /\ q' = [q EXCEPT ![r] = IF c.in.token = "" THEN Unauthorized(c)
                             ELSE [c EXCEPT !.st = "parse", !.parser = parser]]
    /\ UNCHANGED env

\* cache.Get: a RedisCache cannot answer when Redis is down, a MemoryCache can.
Cached(t) == IF kind = "redis" /\ up = "down" THEN <<>> ELSE session[t]

\* legacyTokenParser.Parse: nothing cached, or no "@" in it, is a 401.
Parse(r) ==
    LET c == q[r]
        e == Cached(c.in.token)
    IN /\ c.st = "parse" /\ c.parser = "legacy"
       /\ q' = [q EXCEPT ![r] = IF Len(e) < 2 THEN Unauthorized(c)
                                ELSE Advance([c EXCEPT !.uid = e[1],
                                                       !.role = IF Len(e) > 2 THEN e[3] ELSE ""])]
       /\ UNCHANGED env

\* An injected parser answers as it likes; any error it returns is a 401.
ParseCustom(r) ==
    LET c == q[r] IN
    /\ c.st = "parse" /\ c.parser = "custom"
    /\ \/ q' = [q EXCEPT ![r] = Unauthorized(c)]
       \/ q' = [q EXCEPT ![r] = Advance([c EXCEPT !.uid = "u2"])]
    /\ UNCHANGED env

\* Fault: the refusal is rendered by whoever comes next.
RenderError_Silent(r) ==
    /\ q[r].st = "refuse"
    /\ q' = [q EXCEPT ![r].st = "done"]
    /\ UNCHANGED env

\* RenderError and Abort.  The default renderer writes the status it is given;
\* an injected one may send another, 200 for instance.
RenderError(r) ==
    /\ q[r].st = "refuse"
    /\ \E s \in IF renderer = "default" THEN {q[r].status} ELSE {q[r].status, 200} :
          q' = [q EXCEPT ![r].st = "done", ![r].bodies = @ + 1, ![r].status = s]
    /\ UNCHANGED env

\* http.Redirect as secure.Process calls it: the status, and for a GET a body too,
\* which sends the status off.
Redirect(c) ==
    [c EXCEPT !.status = 301, !.refusal = "tls", !.bodies = IF c.in.method = "GET" THEN @ + 1 ELSE @]

\* A request that did not come over TLS is answered with a redirect - and the
\* middleware returns without Abort, so that gin calls the next handler.
TlsHandler(r) ==
    LET c == q[r] IN
    /\ c.st = "run" /\ Layer(c) = "tls"
    /\ q' = [q EXCEPT ![r] = Advance(IF c.in.plain THEN Redirect(c) ELSE c)]
    /\ UNCHANGED env

\* gin's writer: a status that was sent off with a body stays.
WriteStatus(c, status) == IF c.bodies > 0 THEN c.status ELSE status

CheckLoginRole(c) == c.role \in {"admin", "superAdmin"}

\* The handler answers; an admin route begins with CheckLoginRole.
Handle(r) ==
    LET c == q[r] IN
    /\ c.st = "run" /\ Layer(c) = "handler"
    /\ q' = [q EXCEPT ![r].st = "done", ![r].handled = TRUE, ![r].bodies = @ + 1,
                      ![r].status = WriteStatus(c, IF c.in.route = "admin" /\ ~CheckLoginRole(c)
                                                   THEN 400 ELSE 200)]
    /\ UNCHANGED env

\* The handler panics: gin.Recovery answers 500 with no body.
HandlerPanics(r) ==
    /\ q[r].st = "run" /\ Layer(q[r]) = "handler"
    /\ q' = [q EXCEPT ![r].st = "done", ![r].handled = TRUE, ![r].status = WriteStatus(q[r], 500)]
    /\ UNCHANGED env

-----------------------------------------------------------------------------
(* Cache, injections and Redis                                             *)

Event == events < MaxEvents /\ events' = events + 1
Reachable == kind = "memory" \/ up = "up"

\* A login calls SetAndExpire.
SetAndExpire(t, e) ==
    /\ Event /\ Reachable
    /\ session' = [session EXCEPT ![t] = e]
    /\ live' = live \cup {t}
    /\ q' = [r \in Requests |-> IF q[r].st # "idle" /\ q[r].in.token = t
                                THEN [q[r] EXCEPT !.ended = FALSE] ELSE q[r]]
    /\ UNCHANGED <<kind, up, parser, renderer, bucket>>

\* Fault: the key is deleted without its prefix.
Delete_OtherKey(t) ==
    /\ Event /\ Reachable /\ t \in live
    /\ live' = live \ {t}
    /\ UNCHANGED <<kind, session, up, parser, renderer, bucket, q>>

\* A logout.
Delete(t) ==
    /\ Event /\ Reachable /\ t \in live
    /\ session' = [session EXCEPT ![t] = <<>>]
    /\ live' = live \ {t}
    /\ UNCHANGED <<kind, up, parser, renderer, bucket, q>>

\* The time of a session is up.  Redis drops the key; a MemoryCache was given
\* the expiry and ignored it.
Expire(t) ==
    /\ Event /\ t \in live
    /\ session' = IF kind = "redis" THEN [session EXCEPT ![t] = <<>>] ELSE session
    /\ live' = live \ {t}
    /\ UNCHANGED <<kind, up, parser, renderer, bucket, q>>

\* SetTokenParser and SetErrorRenderer, also back to nil.
SetTokenParser(p) ==
    /\ Event /\ parser # p /\ parser' = p
    /\ UNCHANGED <<kind, session, live, up, renderer, bucket, q>>
SetErrorRenderer(p) ==
    /\ Event /\ renderer # p /\ renderer' = p
    /\ UNCHANGED <<kind, session, live, up, parser, bucket, q>>

RedisTurns(u) ==
    /\ Event /\ up # u /\ up' = u
    /\ UNCHANGED <<kind, session, live, parser, renderer, bucket, q>>

Refill(k) ==
    /\ Event /\ bucket[k] < Burst
    /\ bucket' = [bucket EXCEPT ![k] = @ + 1]
    /\ UNCHANGED <<kind, session, live, up, parser, renderer, q>>

-----------------------------------------------------------------------------
Ips  == {ClientIP(in) : in \in Inputs} \cup {Unknown} \cup {in.src : in \in Inputs}
Uids == {"u2"} \cup {e[1] : e \in Entries}
BucketKeys == ({"ip", "strict"} \X Ips) \cup ({"uid"} \X Uids)

Init ==
    /\ kind \in {"redis", "memory"}
    /\ session \in [Tokens -> {<<>>} \cup Entries]
    /\ live = {t \in Tokens : session[t] # <<>>}
    /\ up = "up" /\ parser = "legacy" /\ renderer = "default"
    /\ bucket = [k \in BucketKeys |-> Burst]
    /\ events = 0
    /\ q = [r \in Requests |-> Idle]

Step(r) ==
    \/ LimitSkips(r) \/ LimitAllows(r) \/ LimitRefuses(r) \/ LimitFailsOpen(r)
    \/ AuthMiddleware(r) \/ Parse(r) \/ ParseCustom(r) \/ RenderError(r)
    \/ TlsHandler(r) \/ Handle(r) \/ HandlerPanics(r)

Next ==
    \/ \E r \in Requests : Step(r) \/ \E in \in Inputs : Arrive(r, in)
    \/ \E t \in Tokens : Delete(t) \/ Expire(t) \/ \E e \in Entries : SetAndExpire(t, e)
    \/ \E p \in {"legacy", "custom"} : SetTokenParser(p)
    \/ \E p \in {"default", "custom"} : SetErrorRenderer(p)
    \/ \E u \in {"up", "down"} : RedisTurns(u)
    \/ \E k \in BucketKeys : Refill(k)

\* The runtime goes on with every request; Redis calls end or time out.
Spec == Init /\ [][Next]_vars /\ \A r \in Requests : WF_vars(Step(r))

-----------------------------------------------------------------------------
(* Properties                                                              *)

\* Buckets stay within their capacity, entries are what logins wrote.
TypeOK ==
    /\ session \in [Tokens -> {<<>>} \cup Entries] /\ live \subseteq Tokens
    /\ bucket \in [BucketKeys -> 0 .. Burst]
    /\ \A r \in Requests : q[r].st \in {"idle", "run", "parse", "refuse", "done"}

Active == {r \in Requests : q[r].st # "idle"}
Done   == {r \in Requests : q[r].st = "done"}

\* RenderError leaves it to the caller to Abort: a request that a limiter or the
\* authentication refused never reaches its handler.  A request that was answered
\* and handled all the same is one TlsHandler redirected.
RefusedStops ==
    \A r \in Active : q[r].handled => \/ q[r].refusal = "none"
                                      \/ q[r].refusal = "tls" /\ q[r].in.plain

\* TlsHandler means to stop what it has redirected ("If there was an error, do not
\* continue"): the handler does not run for the plain request.
RedirectStops == \A r \in Active : q[r].refusal = "tls" => ~q[r].handled

\* A client gets one answer: one body, none only for a preflight and a panic.  A
\* GET that TlsHandler redirected gets its 301 with whatever the handler, which
\* runs all the same, writes behind it.
AnsweredOnce ==
    \A r \in Done :
        LET c == q[r] IN
        /\ c.refusal # "tls" => c.bodies = IF c.status \in {204, 500} THEN 0 ELSE 1
        /\ c.refusal = "tls" /\ c.in.method = "GET" => c.status = 301

\* A request that came after its session had ended (logout, expiry, or there
\* was none) is not served, whatever happens to other sessions meanwhile; so for
\* a RedisCache, a MemoryCache forgets the expiry.
NoSessionNoEntry ==
    kind = "redis" => \A r \in Active :
        q[r].handled /\ q[r].parser = "legacy" => ~q[r].ended

\* Who is served has been counted, in every bucket of its route and in no other:
\* its own address as the proxy saw it, its own uid.  The exceptions are the
\* excluded paths, an empty uid and the layers passed while Redis was down.
OwnBuckets ==
    \A r \in Active : q[r].handled =>
        LET c == q[r]
            counted(l) == CASE l = "ip" -> ~c.in.excluded
                            [] l = "uid" -> c.uid # ""
                            [] OTHER -> TRUE
            owner(l) == IF l = "uid" THEN c.uid ELSE c.in.src
        IN c.paid = {<<l, owner(l)>> : l \in {k \in Range(Chains[c.in.route]) \cap Limiters :
                                                    counted(k) /\ k \notin c.open}}

\* The headers explain the answer: Retry-After exactly when a limiter refused,
\* with the scope of that limiter; otherwise the scope is the last one asked.
HeadersTell ==
    \A r \in Done :
        LET c == q[r] IN
        /\ c.retry <=> c.refusal \in Limiters
        /\ c.retry => c.scope = c.refusal
        /\ c.handled /\ c.uid # "" => c.scope = "uid"

\* Each client gets one answer, and its headers say why it is this one.
OneAnswer == AnsweredOnce /\ HeadersTell

\* Credentials are offered to the page's own origin only, and only when the list
\* has it or a domain it is a strict subdomain of; so for every answer except
\* the preflight's, which CORSMiddleware ends first.
CrossOrigin ==
    \A r \in Done : q[r].status # 204 =>
        LET o == q[r].in.origin IN
        /\ q[r].acac <=> q[r].acao = "own"
        /\ q[r].vary <=> o # NoOrigin
        /\ q[r].acac => /\ o # NoOrigin
                        /\ \E e \in Whitelist :
                              /\ e.scheme = o.scheme \/ (e.scheme = "" /\ e.wild)
                              /\ \E n \in 0 .. Len(o.host) :
                                    /\ SubSeq(o.host, n + 1, Len(o.host)) = e.host
                                    /\ e.wild <=> n > 0

\* Every request is answered, also when Redis fails on the way.
Answered == \A r \in Requests : q[r].st = "run" ~> q[r].st = "done"
=============================================================================
