----------------------------- MODULE PoolQueue ------------------------------
(***************************************************************************)
(* pkg/pool/queue.go: an unbounded FIFO with a blocking Pop.  Every        *)
(* operation runs under the queue's mutex and is one step; the exception   *)
(* is Pop, which gives the mutex up inside popable.Wait and tests its loop *)
(* condition again when it has it back.                                    *)
(***************************************************************************)
EXTENDS Integers, Sequences, FiniteSets

CONSTANTS Consumers,  \* goroutines that call Pop, TryPop and Wait
          MaxPush     \* bound of the model: items accepted by Push

\* What the constants must be.
PoolQueueAssumption == IsFiniteSet(Consumers) /\ MaxPush \in Nat

VARIABLES
    buffer,  \* the items queued; items are numbered in the order of Push
    closed,  \* the field closed
    sleepers,  \* notify list of popable, oldest first
    pc,      \* pc[c]: "idle", "pop" (about to test the loop condition, on entry
             \* or after a wake-up), "asleep" or "wait" (spinning in Wait)
    woken,   \* goroutines a Signal or Broadcast released that have not run yet
    pushed,  \* number of items accepted
    taken    \* items returned by Pop and TryPop, oldest first

vars == <<buffer, closed, sleepers, pc, woken, pushed, taken>>

\* The types of the variables; Pop and TryPop take only what was pushed.
TypeOK ==
    /\ buffer \in Seq(1 .. MaxPush) /\ taken \in Seq(1 .. MaxPush)
    /\ closed \in BOOLEAN
    /\ sleepers \in Seq(Consumers)
    /\ pc \in [Consumers -> {"idle", "pop", "asleep", "wait"}]
    /\ woken \subseteq Consumers
    /\ pushed \in 0 .. MaxPush

\* NewQueue.
Init ==
    /\ buffer = <<>> /\ taken = <<>>
    /\ closed = FALSE
    /\ sleepers = <<>>
    /\ pc = [c \in Consumers |-> "idle"]
    /\ woken = {}
    /\ pushed = 0

\* sync.Cond: Signal releases the longest sleeper, Broadcast all of them.
Signal ==
    IF sleepers = <<>>
       THEN UNCHANGED <<sleepers, pc, woken>>
       ELSE /\ sleepers' = Tail(sleepers)
            /\ woken' = woken \cup {Head(sleepers)}
            /\ pc' = [pc EXCEPT ![Head(sleepers)] = "pop"]

Broadcast ==
    /\ sleepers' = <<>>
    /\ woken' = woken \cup {c \in Consumers : pc[c] = "asleep"}
    /\ pc' = [c \in Consumers |-> IF pc[c] = "asleep" THEN "pop" ELSE pc[c]]

-----------------------------------------------------------------------------
\* Fault: Push does not signal.
Push_NoSignal ==
    /\ ~closed
    /\ pushed < MaxPush
    /\ pushed' = pushed + 1
    /\ buffer' = Append(buffer, pushed + 1)
    /\ UNCHANGED <<closed, taken, sleepers, pc, woken>>

Push ==
    /\ ~closed
    /\ pushed < MaxPush
    /\ pushed' = pushed + 1
    /\ buffer' = Append(buffer, pushed + 1)
    /\ Signal
    /\ UNCHANGED <<closed, taken>>

\* On a closed queue the item is dropped.
PushClosed == closed /\ UNCHANGED vars

\* Fault: Close wakes one sleeper only.
Close_Signals ==
    /\ ~closed
    /\ closed' = TRUE
    /\ Signal
    /\ UNCHANGED <<buffer, pushed, taken>>

Close ==
    /\ ~closed
    /\ closed' = TRUE
    /\ Broadcast
    /\ UNCHANGED <<buffer, pushed, taken>>

\* Peek and Remove.
TakeHead ==
    /\ buffer' = Tail(buffer)
    /\ taken' = Append(taken, Head(buffer))

Pop(c) ==
    /\ pc[c] = "idle"
    /\ pc' = [pc EXCEPT ![c] = "pop"]
    /\ UNCHANGED <<buffer, closed, sleepers, woken, pushed, taken>>

\* The loop condition holds: join the notify list and release the mutex.
PopSleeps(c) ==
    /\ pc[c] = "pop"
    /\ buffer = <<>> /\ ~closed
    /\ sleepers' = Append(sleepers, c)
    /\ pc' = [pc EXCEPT ![c] = "asleep"]
    /\ woken' = woken \ {c}
    /\ UNCHANGED <<buffer, closed, pushed, taken>>

\* Closed: returns nil, and leaves what is queued where it is.
PopClosed(c) ==
    /\ pc[c] = "pop"
    /\ closed
    /\ pc' = [pc EXCEPT ![c] = "idle"]
    /\ woken' = woken \ {c}
    /\ UNCHANGED <<buffer, closed, sleepers, pushed, taken>>

PopTakes(c) ==
    /\ pc[c] = "pop"
    /\ buffer # <<>> /\ ~closed
    /\ TakeHead
    /\ pc' = [pc EXCEPT ![c] = "idle"]
    /\ woken' = woken \ {c}
    /\ UNCHANGED <<closed, sleepers, pushed>>

\* TryPop takes an item even from a closed queue; it changes nothing when
\* there is none.
TryPop(c) ==
    /\ pc[c] = "idle"
    /\ buffer # <<>>
    /\ TakeHead
    /\ UNCHANGED <<closed, sleepers, pc, woken, pushed>>

\* Wait spins, testing under the mutex, until the queue is empty or closed.
Wait(c) ==
    /\ pc[c] = "idle"
    /\ pc' = [pc EXCEPT ![c] = "wait"]
    /\ UNCHANGED <<buffer, closed, sleepers, woken, pushed, taken>>

WaitDone(c) ==
    /\ pc[c] = "wait"
    /\ closed \/ buffer = <<>>
    /\ pc' = [pc EXCEPT ![c] = "idle"]
    /\ UNCHANGED <<buffer, closed, sleepers, woken, pushed, taken>>

PopStep(c) == PopSleeps(c) \/ PopClosed(c) \/ PopTakes(c)

Next ==
    \/ Push \/ PushClosed \/ Close
    \/ \E c \in Consumers :
          \/ Pop(c) \/ PopSleeps(c) \/ PopClosed(c) \/ PopTakes(c)
          \/ TryPop(c) \/ Wait(c) \/ WaitDone(c)

Spec == Init /\ [][Next]_vars

\* A goroutine that has the mutex to itself between two operations of others
\* runs on; nobody is obliged to push, close or call anything.
Fairness == \A c \in Consumers : WF_vars(PopStep(c)) /\ WF_vars(WaitDone(c))

-----------------------------------------------------------------------------
(* Properties                                                              *)

\* FIFO, nothing lost and nothing delivered twice: what was returned followed
\* by what is queued is what was accepted, in order.
Conserved == taken \o buffer = [n \in 1 .. pushed |-> n]

\* No lost wake-up: while somebody sleeps in an open queue there are at least
\* as many released goroutines on their way as there are items.
NoLostWakeup == sleepers # <<>> => ~closed /\ Len(buffer) <= Cardinality(woken)

\* An item does not stay queued while a Pop is under way.
PopDelivers ==
    \A n \in 0 .. MaxPush - 1 :
        (/\ Len(taken) = n /\ buffer # <<>>
         /\ \E c \in Consumers : pc[c] \in {"pop", "asleep"})
        ~> (Len(taken) > n \/ closed)

\* After Close nobody blocks: a Pop under way returns.
PopReturnsOnClose == \A c \in Consumers : (closed /\ pc[c] \in {"pop", "asleep"}) ~> pc[c] = "idle"
=============================================================================
