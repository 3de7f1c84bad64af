------------------------------ MODULE Observers ------------------------------
(***************************************************************************)
(* pkg/redis/instrument.go and pkg/db/instrument.go: the hooks that report *)
(* every Redis command and every MySQL statement to an injected observer.  *)
(* Goroutines instrument one bare client at the same time and use it as    *)
(* soon as Instrument has returned.                                        *)
(***************************************************************************)
EXTENDS Integers, Sequences, SequencesExt

CONSTANTS Users,       \* goroutines that share a bare rd.Client
          MaxReports   \* bound of the model: calls that are made

ObserversAssumption == "free" \notin Users

VARIABLES mutex,       \* instrumentedMu: its holder, or "free"
          registered,  \* the client is in the table instrumented
          hooks,       \* layers of wrapClient around the client
          user,        \* per goroutine: "new", "wrap" or "ready"
          observer,    \* "nil", "set" or "broken", one that panics
          made,        \* calls made while an observer was set
          samples,     \* samples the observer got
          status       \* the last sample: whether the call failed, and what it says

obsVars == <<mutex, registered, hooks, user, observer, made, samples, status>>

Init ==
    /\ mutex = "free" /\ registered = FALSE /\ hooks = 0
    /\ user = [u \in Users |-> "new"]
    /\ observer = "nil"
    /\ made = 0 /\ samples = 0
    /\ status = [failed |-> FALSE, said |-> FALSE]

\* Fault: the lock is given back before the hook is in place.
Instrument_ShortLock(u) ==
    /\ user[u] = "new" /\ mutex = "free"
    /\ registered' = TRUE
    /\ user' = [user EXCEPT ![u] = IF registered THEN "ready" ELSE "wrap"]
    /\ UNCHANGED <<mutex, hooks, observer, made, samples, status>>

\* Instrument takes the lock; a client that is in the table is done with.
Instrument(u) ==
    /\ user[u] = "new" /\ mutex = "free"
    /\ registered' = TRUE
    /\ IF registered THEN user' = [user EXCEPT ![u] = "ready"] /\ UNCHANGED mutex
                     ELSE user' = [user EXCEPT ![u] = "wrap"] /\ mutex' = u
    /\ UNCHANGED <<hooks, observer, made, samples, status>>

wrapClient(u) ==
    /\ user[u] = "wrap"
    /\ hooks' = hooks + 1
    /\ user' = [user EXCEPT ![u] = "ready"]
    /\ mutex' = "free"
    /\ UNCHANGED <<registered, observer, made, samples, status>>

\* reportRedis and reportDB: nothing without an observer, and a panic of the
\* observer costs the sample only.
Report(times, failed, said) ==
    /\ made < MaxReports
    /\ IF observer = "set"
       THEN /\ made' = made + 1
            /\ samples' = samples + times
            /\ status' = [failed |-> failed, said |-> said]
       ELSE UNCHANGED <<made, samples, status>>
    /\ UNCHANGED <<mutex, registered, hooks, user, observer>>

\* rd.Nil is a miss, not a failure.
normalizeRedisErr(err) == IF err = "Nil" THEN "ok" ELSE err

Command(u, err) ==
    /\ user[u] = "ready"
    /\ Report(hooks, err = "fail", normalizeRedisErr(err) # "ok")

\* go-redis gives a pipeline the error of its first command that has one.
TopError(errs) ==
    LET bad == SelectInSeq(errs, LAMBDA e : e # "ok") IN IF bad = 0 THEN "ok" ELSE errs[bad]

\* The first error of a command that is not Nil.
pipelineErr(errs) ==
    LET real == SelectInSeq(errs, LAMBDA e : e \notin {"ok", "Nil"})
    IN IF real # 0 THEN errs[real] ELSE normalizeRedisErr(TopError(errs))

Pipeline(u, errs) ==
    /\ user[u] = "ready"
    /\ Report(hooks, "fail" \in Range(errs), pipelineErr(errs) # "ok")

\* instrumentedConnector.Connect and instrumentedConn.ExecContext, QueryContext:
\* one sample each.  ErrSkip sends database/sql to the prepared statement and is
\* no execution.
Statement(err) == IF err = "skip" THEN UNCHANGED obsVars ELSE Report(1, err = "fail", err # "ok")

SetObserver(o) ==
    /\ observer # o
    /\ observer' = o
    /\ UNCHANGED <<mutex, registered, hooks, user, made, samples, status>>

Errors == {"ok", "Nil", "fail"}

Next ==
    \/ \E u \in Users : \/ Instrument(u) \/ wrapClient(u)
                        \/ \E e \in Errors : Command(u, e)
                        \/ \E errs \in Errors \X Errors : Pipeline(u, errs)
    \/ \E e \in {"ok", "fail", "skip"} : Statement(e)
    \/ \E o \in {"nil", "set", "broken"} : SetObserver(o)

Spec == Init /\ [][Next]_obsVars

-----------------------------------------------------------------------------
(* Properties                                                              *)

\* While the observer is set every call is counted exactly once: no hook is
\* layered twice, and nobody uses the client before its hook is in place.
CountedOnce == samples = made

\* A sample says "failed" exactly when the call, or one command of a pipeline,
\* did fail.
StatusTrue == status.said = status.failed
=============================================================================
