---------------------------- MODULE ContextShared ----------------------------
(***************************************************************************)
(* config/context.go and pkg/wkhttp/http.go: what the goroutines of a      *)
(* process share - the connections that a sync.Once opens on first use,    *)
(* the lists of listeners, and the pool the Contexts of the handlers come  *)
(* from.                                                                   *)
(***************************************************************************)
EXTENDS Integers, Sequences, SequencesExt, FiniteSets

CONSTANTS Routines,   \* goroutines
          Listeners,  \* functions that can be added
          Contexts,   \* bound of the model: the Contexts there are
          Depth       \* handlers a request goes through, nested by Next

VARIABLES tlsOK,      \* BuildTLSConfig succeeds with this configuration
          once,       \* redisOnce: "new", "running" or "done"
          redisCache, \* the connection: 0 for nil
          opened,     \* connections made
          opener,     \* per goroutine: "idle", "in", "has" or "panicked"
          cacheOf,    \* per goroutine: the connection it was given
          listeners,  \* messagesListeners
          copied,     \* per goroutine in Notify: the copy, or <<>>
          called,     \* per goroutine: the listeners called so far
          notifying,  \* goroutines in NotifyMessagesListeners
          free,       \* the pool
          serves,     \* Context -> the request it was given to last, or "none"
          held        \* per goroutine, serving a request: its Contexts, outermost first

onceVars   == <<tlsOK, once, redisCache, opened, opener, cacheOf>>
listenVars == <<listeners, copied, called, notifying>>
poolVars   == <<free, serves, held>>
ctxVars    == <<onceVars, listenVars, poolVars>>

Init ==
    /\ tlsOK \in BOOLEAN /\ once = "new" /\ redisCache = 0 /\ opened = 0
    /\ opener = [r \in Routines |-> "idle"] /\ cacheOf = [r \in Routines |-> 0]
    /\ listeners = <<>> /\ notifying = {}
    /\ copied = [r \in Routines |-> <<>>] /\ called = [r \in Routines |-> <<>>]
    /\ free = Contexts /\ serves = [c \in Contexts |-> "none"]
    /\ held = [r \in Routines |-> <<>>]

-----------------------------------------------------------------------------

\* NewRedisCache (NewMySQL, NewMemoryCache and GetModules likewise): the first
\* caller runs the function, the others wait for it, later ones go on.
NewRedisCache(r) ==
    /\ opener[r] = "idle"
    /\ \/ /\ once = "new" /\ once' = "running"
          /\ opener' = [opener EXCEPT ![r] = "in"]
          /\ UNCHANGED cacheOf
       \/ /\ once = "done"
          /\ opener' = [opener EXCEPT ![r] = "has"]
          /\ cacheOf' = [cacheOf EXCEPT ![r] = redisCache]
          /\ UNCHANGED once
    /\ UNCHANGED <<tlsOK, redisCache, opened, listenVars, poolVars>>

OnceRuns(r) ==
    /\ opener[r] = "in" /\ tlsOK
    /\ opened' = opened + 1
    /\ redisCache' = opened + 1
    /\ once' = "done"
    /\ opener' = [opener EXCEPT ![r] = "has"]
    /\ cacheOf' = [cacheOf EXCEPT ![r] = opened + 1]
    /\ UNCHANGED <<tlsOK, listenVars, poolVars>>

\* The function panics on a bad TLS configuration; the Once is done all the same.
OncePanics(r) ==
    /\ opener[r] = "in" /\ ~tlsOK
    /\ once' = "done"
    /\ opener' = [opener EXCEPT ![r] = "panicked"]
    /\ UNCHANGED <<tlsOK, redisCache, opened, cacheOf, listenVars, poolVars>>

-----------------------------------------------------------------------------
\* AddMessagesListener, AddOnlineStatusListener and AddEventListener.
AddMessagesListener(l) ==
    /\ l \notin Range(listeners)
    /\ listeners' = Append(listeners, l)
    /\ UNCHANGED <<copied, called, notifying, onceVars, poolVars>>

\* The list is copied under the lock ...
NotifyMessagesListeners(r) ==
    /\ r \notin notifying
    /\ notifying' = notifying \cup {r}
    /\ copied' = [copied EXCEPT ![r] = listeners]
    /\ called' = [called EXCEPT ![r] = <<>>]
    /\ UNCHANGED <<listeners, onceVars, poolVars>>

\* ... and walked without it; a listener may add listeners.
CallListener(r) ==
    /\ r \in notifying /\ Len(called[r]) < Len(copied[r])
    /\ called' = [called EXCEPT ![r] = Append(@, copied[r][Len(@) + 1])]
    /\ UNCHANGED <<listeners, copied, notifying, onceVars, poolVars>>

NotifyReturns(r) ==
    /\ r \in notifying /\ Len(called[r]) >= Len(copied[r])
    /\ notifying' = notifying \ {r}
    /\ UNCHANGED <<listeners, copied, called, onceVars, poolVars>>

-----------------------------------------------------------------------------
\* Fault: the Context goes back before the handler has run.
WKHttpHandler_PutsEarly(r) ==
    /\ Len(held[r]) < Depth
    /\ \E c \in free : /\ serves' = [serves EXCEPT ![c] = r]
                       /\ held' = [held EXCEPT ![r] = Append(@, c)]
    /\ UNCHANGED <<free, onceVars, listenVars>>

\* WKHttpHandler takes a Context, resets it and points it to the request.
WKHttpHandler(r) ==
    /\ Len(held[r]) < Depth
    /\ \E c \in free : /\ free' = free \ {c}
                       /\ serves' = [serves EXCEPT ![c] = r]
                       /\ held' = [held EXCEPT ![r] = Append(@, c)]
    /\ UNCHANGED <<onceVars, listenVars>>

\* The deferred Put, also after a panic.  The Context keeps pointing to the
\* request until it is taken again.
HandlerReturns(r) ==
    /\ held[r] # <<>>
    /\ free' = free \cup {Last(held[r])}
    /\ held' = [held EXCEPT ![r] = Front(@)]
    /\ UNCHANGED <<serves, onceVars, listenVars>>

OnceNext == \E r \in Routines : NewRedisCache(r) \/ OnceRuns(r) \/ OncePanics(r)
ListenNext ==
    \/ \E l \in Listeners : AddMessagesListener(l)
    \/ \E r \in Routines : NotifyMessagesListeners(r) \/ CallListener(r) \/ NotifyReturns(r)
PoolNext == \E r \in Routines : WKHttpHandler(r) \/ HandlerReturns(r)

Next == OnceNext \/ ListenNext \/ PoolNext

Spec == Init /\ [][Next]_ctxVars

-----------------------------------------------------------------------------
(* Properties                                                              *)

\* Everybody gets the one connection there is; nobody gets nil unless opening it
\* panicked in somebody's hands before.
OneConnection ==
    /\ opened <= 1
    /\ \A r \in Routines : opener[r] = "has" =>
          \/ cacheOf[r] = redisCache /\ redisCache # 0
          \/ ~tlsOK /\ \E p \in Routines : opener[p] = "panicked"

\* A notification reaches the listeners there were when it began, in order and
\* once each, and no others.
NotifiedOnce ==
    \A r \in Routines : /\ IsPrefix(called[r], copied[r])
                        /\ r \notin notifying => called[r] = copied[r]

\* While a handler runs its Context is its own: it points to the request it
\* serves, nested handlers have different ones, and none is in the pool.
OwnContext ==
    \A r \in Routines : \A i \in DOMAIN held[r] :
        /\ serves[held[r][i]] = r
        /\ held[r][i] \notin free
        /\ \A s \in Routines : \A j \in DOMAIN held[s] : held[s][j] = held[r][i] => s = r /\ j = i
=============================================================================
