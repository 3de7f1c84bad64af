-------------------------------- MODULE Wait --------------------------------
(***************************************************************************)
(* pkg/wait/wait.go: a goroutine registers for an id and receives from the *)
(* channel it gets; another one triggers the id with a value.  Trigger     *)
(* takes the channel out of the map under the lock, but sends and closes   *)
(* after it has given the lock up.                                         *)
(*                                                                         *)
(* Channels are heap objects with a buffer of one; make returns one nobody *)
(* refers to.  The 64 shards of the map are left out: an id always falls   *)
(* into the same one.  The value of Trigger(id, x) is represented by id.   *)
(***************************************************************************)
EXTENDS Integers

CONSTANTS Waiters, Triggers, Ids, Chans,
          NoChan,   \* nil, an id that is not registered
          NoValue   \* an empty buffer, the zero value of a closed channel

\* What the constants must be.
WaitAssumption == NoChan \notin Chans /\ NoValue \notin Ids

VARIABLES
    m,       \* m[id]: the registered channel
    buf,     \* buf[c]: what is in the buffer of channel c
    closed,  \* the closed channels
    pc,      \* pc[w]: "idle", "waiting", "done" or "panicked"
    id, ch,  \* id[w], ch[w]: what w registered for and got
    got,     \* got[w]: what w received
    at,      \* at[t]: "idle", "send" or "close"
    tid, tch \* tid[t], tch[t]: the argument and the channel of a Trigger

waiterVars  == <<pc, id, ch, got>>
triggerVars == <<at, tid, tch>>
vars == <<m, buf, closed, waiterVars, triggerVars>>

\* Types; and a Trigger past the lock has a channel (ch != nil) and an id.
TypeOK ==
    /\ m \in [Ids -> Chans \cup {NoChan}]
    /\ buf \in [Chans -> Ids \cup {NoValue}]
    /\ closed \subseteq Chans
    /\ pc \in [Waiters -> {"idle", "waiting", "done", "panicked"}]
    /\ id \in [Waiters -> Ids \cup {NoValue}] /\ got \in [Waiters -> Ids \cup {NoValue}]
    /\ ch \in [Waiters -> Chans \cup {NoChan}]
    /\ at \in [Triggers -> {"idle", "send", "close"}]
    /\ tid \in [Triggers -> Ids \cup {NoValue}]
    /\ tch \in [Triggers -> Chans \cup {NoChan}]
    /\ \A t \in Triggers : at[t] # "idle" => tch[t] \in Chans /\ tid[t] \in Ids

\* New.
Init ==
    /\ m = [i \in Ids |-> NoChan]
    /\ buf = [c \in Chans |-> NoValue]
    /\ closed = {}
    /\ pc = [w \in Waiters |-> "idle"]
    /\ id = [w \in Waiters |-> NoValue] /\ got = [w \in Waiters |-> NoValue]
    /\ ch = [w \in Waiters |-> NoChan]
    /\ at = [t \in Triggers |-> "idle"]
    /\ tid = [t \in Triggers |-> NoValue]
    /\ tch = [t \in Triggers |-> NoChan]

-----------------------------------------------------------------------------
\* make(chan interface{}, 1): referred to by no map entry and no goroutine.
Fresh(c) == /\ \A i \in Ids : m[i] # c
            /\ \A w \in Waiters : ch[w] # c
            /\ \A t \in Triggers : tch[t] # c

Register(w, i) ==
    /\ pc[w] = "idle"
    /\ m[i] = NoChan
    /\ \E c \in Chans :
          /\ Fresh(c)
          /\ m' = [m EXCEPT ![i] = c]
          /\ buf' = [buf EXCEPT ![c] = NoValue]
          /\ closed' = closed \ {c}
          /\ ch' = [ch EXCEPT ![w] = c]
    /\ id' = [id EXCEPT ![w] = i]
    /\ pc' = [pc EXCEPT ![w] = "waiting"]
    /\ UNCHANGED <<got, triggerVars>>

\* A registered id: log.Panicf, with the lock released by the deferred Unlock.
RegisterPanics(w, i) ==
    /\ pc[w] = "idle"
    /\ m[i] # NoChan
    /\ pc' = [pc EXCEPT ![w] = "panicked"]
    /\ UNCHANGED <<m, buf, closed, id, ch, got, triggerVars>>

\* Fault: the entry stays in the map until the value is sent.
TriggerTakes_KeepsEntry(t, i) ==
    /\ at[t] = "idle"
    /\ m[i] # NoChan
    /\ tid' = [tid EXCEPT ![t] = i]
    /\ tch' = [tch EXCEPT ![t] = m[i]]
    /\ at' = [at EXCEPT ![t] = "send"]
    /\ UNCHANGED <<m, buf, closed, waiterVars>>

\* The section of Trigger under the lock.  On an id that is not registered it
\* changes nothing and returns.
TriggerTakes(t, i) ==
    /\ at[t] = "idle"
    /\ m[i] # NoChan
    /\ tid' = [tid EXCEPT ![t] = i]
    /\ tch' = [tch EXCEPT ![t] = m[i]]
    /\ m' = [m EXCEPT ![i] = NoChan]
    /\ at' = [at EXCEPT ![t] = "send"]
    /\ UNCHANGED <<buf, closed, waiterVars>>

\* Fault: a non-blocking send on an unbuffered channel drops the value.
TriggerSend_Drops(t) ==
    /\ at[t] = "send"
    /\ at' = [at EXCEPT ![t] = "idle"]
    /\ tid' = [tid EXCEPT ![t] = NoValue]
    /\ tch' = [tch EXCEPT ![t] = NoChan]
    /\ UNCHANGED <<m, buf, closed, waiterVars>>

\* ch <- x: blocks while the buffer is full.
TriggerSend(t) ==
    /\ at[t] = "send"
    /\ buf[tch[t]] = NoValue
    /\ buf' = [buf EXCEPT ![tch[t]] = tid[t]]
    /\ at' = [at EXCEPT ![t] = "close"]
    /\ UNCHANGED <<m, closed, waiterVars, tid, tch>>

\* close(ch)
TriggerClose(t) ==
    /\ at[t] = "close"
    /\ closed' = closed \cup {tch[t]}
    /\ at' = [at EXCEPT ![t] = "idle"]
    /\ tid' = [tid EXCEPT ![t] = NoValue]
    /\ tch' = [tch EXCEPT ![t] = NoChan]
    /\ UNCHANGED <<m, buf, waiterVars>>

\* A receive on the channel: the value if there is one, the zero value of a
\* closed channel otherwise.
Receive(w) ==
    /\ pc[w] = "waiting"
    /\ buf[ch[w]] # NoValue \/ ch[w] \in closed
    /\ got' = [got EXCEPT ![w] = buf[ch[w]]]
    /\ buf' = [buf EXCEPT ![ch[w]] = NoValue]
    /\ pc' = [pc EXCEPT ![w] = "done"]
    /\ UNCHANGED <<m, closed, id, ch, triggerVars>>

\* The goroutine goes on, after its answer, after a panic, or because it waits
\* no longer (a timeout): there is no way to take the registration back.
GoOn(w) ==
    /\ pc[w] # "idle"
    /\ pc' = [pc EXCEPT ![w] = "idle"]
    /\ id' = [id EXCEPT ![w] = NoValue]
    /\ ch' = [ch EXCEPT ![w] = NoChan]
    /\ got' = [got EXCEPT ![w] = NoValue]
    /\ UNCHANGED <<m, buf, closed, triggerVars>>

Next ==
    \/ \E w \in Waiters : \/ \E i \in Ids : Register(w, i) \/ RegisterPanics(w, i)
                          \/ Receive(w) \/ GoOn(w)
    \/ \E t \in Triggers : \/ \E i \in Ids : TriggerTakes(t, i)
                           \/ TriggerSend(t) \/ TriggerClose(t)

Spec == Init /\ [][Next]_vars

\* Goroutines that can run do; nobody is obliged to register or to trigger.
Fairness ==
    /\ \A w \in Waiters : WF_vars(Receive(w))
    /\ \A t \in Triggers : WF_vars(TriggerSend(t)) /\ WF_vars(TriggerClose(t))

-----------------------------------------------------------------------------
(* Properties                                                              *)

\* A Trigger past the lock neither blocks on a full buffer, nor sends on or
\* closes a closed channel (both panic): no two triggers have one channel.
SendReady ==
    \A t \in Triggers :
        /\ at[t] = "send" => buf[tch[t]] = NoValue
        /\ at[t] # "idle" => /\ tch[t] \notin closed
                             /\ \A s \in Triggers \ {t} : tch[s] # tch[t]

\* A waiter receives the value triggered for the id it registered - never the
\* zero value of the closing, never the answer to another registration.
RightAnswer == \A w \in Waiters : pc[w] = "done" => got[w] = id[w]

\* A waiter is never forgotten: its channel is in the map, in the hands of a
\* Trigger that will send, or holds the answer.
NoLostWaiter ==
    \A w \in Waiters : pc[w] = "waiting" =>
        \/ m[id[w]] = ch[w]
        \/ \E t \in Triggers : at[t] = "send" /\ tch[t] = ch[w] /\ tid[t] = id[w]
        \/ buf[ch[w]] = id[w]

\* A Trigger that found a waiter's channel lets it go on, whoever else runs.
TriggerWakes ==
    \A w \in Waiters, t \in Triggers :
        (pc[w] = "waiting" /\ at[t] = "send" /\ tch[t] = ch[w]) ~> pc[w] # "waiting"
=============================================================================
