------------------------------- MODULE Process -------------------------------
(***************************************************************************)
(* What runs inside a server process: the blocking queue, the dispatchers, *)
(* the registry of waiting goroutines, the values the goroutines share,    *)
(* and the life of the process itself.  These parts have no state in       *)
(* common; a behaviour is one of one part, its scene, while the others     *)
(* stay as they are at the start.                                          *)
(***************************************************************************)
EXTENDS Integers, Sequences, FiniteSets

CONSTANTS Consumers, MaxPush,                              \* PoolQueue
          Pools, Size, Feeds, Jobs, NoJob,                 \* Dispatcher
          Waiters, Triggers, Ids, Chans, NoChan, NoValue,  \* Wait
          Routines, Listeners, Contexts, Depth,            \* ContextShared
          Servers, Modules, Files, MaxKills                \* Boot

VARIABLES scene,
          buffer, queueClosed, sleepers, popper, woken, pushed, taken,
          state, pool, sender, work, inHand,
          m, buf, chanClosed, waiter, id, ch, got, at, tid, tch,
          tlsOK, once, redisCache, opened, opener, cacheOf,
          listeners, copied, called, notifying, free, serves, held,
          stage, plan, routes, next, started, stopped, listening, executed, recorded, served, kills

Q == INSTANCE PoolQueue WITH closed <- queueClosed, pc <- popper
D == INSTANCE Dispatcher
W == INSTANCE Wait WITH closed <- chanClosed, pc <- waiter
C == INSTANCE ContextShared
B == INSTANCE Boot

queueVars    == <<buffer, queueClosed, sleepers, popper, woken, pushed, taken>>
dispatchVars == <<state, pool, sender, work, inHand>>
waitVars     == <<m, buf, chanClosed, waiter, id, ch, got, at, tid, tch>>
ctxVars      == <<tlsOK, once, redisCache, opened, opener, cacheOf, listeners, copied, called, notifying, free, serves, held>>
bootVars     == <<stage, plan, routes, next, started, stopped, listening, executed, recorded, served, kills>>

ASSUME ProcessAssumption ==
    Q!PoolQueueAssumption /\ D!DispatcherAssumption /\ W!WaitAssumption /\ B!BootAssumption

Scenes == {"queue", "dispatch", "wait", "once", "listen", "contexts", "boot"}

AllInit ==
    /\ scene \in Scenes
    /\ Q!Init /\ D!Init /\ W!Init /\ B!Init
    /\ C!Init
    /\ scene # "once" => tlsOK
    /\ scene # "dispatch" => pool = CHOOSE p \in [Jobs -> Pools] : TRUE

AllNext ==
    /\ UNCHANGED scene
    /\ \/ scene = "queue" /\ Q!Next /\ UNCHANGED <<dispatchVars, waitVars, ctxVars, bootVars>>
       \/ scene = "dispatch" /\ D!Next /\ UNCHANGED <<queueVars, waitVars, ctxVars, bootVars>>
       \/ scene = "wait" /\ W!Next /\ UNCHANGED <<queueVars, dispatchVars, ctxVars, bootVars>>
       \/ scene = "once" /\ C!OnceNext /\ UNCHANGED <<queueVars, dispatchVars, waitVars, bootVars>>
       \/ scene = "listen" /\ C!ListenNext /\ UNCHANGED <<queueVars, dispatchVars, waitVars, bootVars>>
       \/ scene = "contexts" /\ C!PoolNext /\ UNCHANGED <<queueVars, dispatchVars, waitVars, bootVars>>
       \/ scene = "boot" /\ B!Next /\ UNCHANGED <<queueVars, dispatchVars, waitVars, ctxVars>>

AllVars == <<scene, queueVars, dispatchVars, waitVars, ctxVars, bootVars>>

\* The fairness each part states; in a server that runs nobody need stop it.
AllSpec ==
    /\ AllInit /\ [][AllNext]_AllVars
    /\ Q!Fairness /\ D!Fairness /\ W!Fairness
    /\ \A s \in Servers : WF_bootVars(scene = "boot" /\ B!Step(s))

-----------------------------------------------------------------------------
(* Properties: what each part promises, from the properties it states.     *)

\* Queue: first in, first out, nothing lost or delivered twice; and while
\* somebody sleeps in Pop there are as many released goroutines as items.
QueueSound == Q!TypeOK /\ Q!Conserved /\ Q!NoLostWakeup
\* Queue: an item does not stay queued while a Pop is under way, and after Close
\* every Pop returns.
PopsReturn == Q!PopDelivers /\ Q!PopReturnsOnClose

\* Dispatcher: a job is in exactly one place, a pool runs no more than its size,
\* and a job blocked in a send waits for a collector that is to take it.
JobsSound == D!TypeOK /\ D!OnePlace /\ D!BlockedForReason
\* Dispatcher: every job that is sent is executed to its end.
JobsFinish == D!JobsFinish

\* Wait: a Trigger past the lock neither blocks nor panics, a waiter receives the
\* value triggered for its id, and its channel is in the map, with a Trigger, or
\* holds the answer.
AnswersSound == W!TypeOK /\ W!SendReady /\ W!RightAnswer /\ W!NoLostWaiter
\* Wait: a Trigger that found a waiter's channel lets it go on.
TriggerWakes == W!TriggerWakes

\* Context: everybody gets the one Redis connection, and nobody nil unless opening
\* it panicked; a notification reaches the listeners there were when it began,
\* once each; while a handler runs, its pooled Context is its own.
ContextSound == C!OneConnection /\ C!NotifiedOnce /\ C!OwnContext

\* Server: no module serves before its schema is there, migrations are recorded in
\* the order of their ids, and Stop succeeds only when all modules were stopped.
BootSound == B!SchemaFirst /\ B!MigrationsInOrder /\ B!CleanStop
\* Server: Setup and Start end, the server runs or has failed and says so.
BootEnds == B!BootEnds
=============================================================================
