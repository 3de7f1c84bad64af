----------------------------- MODULE Dispatcher ------------------------------
(***************************************************************************)
(* pkg/pool/dispatcher.go: collectors, each with an unbuffered channel     *)
(* Work, a goroutine loopPop and a pool of workers, as config/context.go   *)
(* starts them for events, pushes and robot events.                        *)
(*                                                                         *)
(* Sending to Work blocks until loopPop takes the job; Submit blocks while *)
(* all workers are busy.  A running job may itself send to the collectors  *)
(* its pool feeds, and occupies its worker meanwhile.                      *)
(***************************************************************************)
EXTENDS Integers, Sequences, FiniteSets

CONSTANTS Pools,
          Size,    \* Size[p]: workerCount
          Feeds,   \* <<p, q>>: jobs of p may send jobs to q
          Jobs,    \* bound of the model: the jobs there are
          NoJob    \* loopPop has no job in hand; a job sent from outside

\* What the constants must be.
DispatcherAssumption ==
    /\ Size \in [Pools -> Nat \ {0}]
    /\ Feeds \subseteq Pools \X Pools
    /\ IsFiniteSet(Jobs) /\ NoJob \notin Jobs

VARIABLES
    state,   \* state[j]: "new", "sending", "taken", "running", "blocked", "done"
    pool,    \* pool[j]: where it was sent
    sender,  \* sender[j]: the job that sent it, or NoJob
    work,    \* work[p]: the blocked senders of channel Work, in order
    inHand   \* inHand[p]: the job loopPop has taken and not yet submitted

vars == <<state, pool, sender, work, inHand>>

Busy(p) == {j \in Jobs : state[j] \in {"running", "blocked"} /\ pool[j] = p}

\* Types; and ants never runs more jobs at a time than StartDispatcher asked for.
TypeOK ==
    /\ state \in [Jobs -> {"new", "sending", "taken", "running", "blocked", "done"}]
    /\ pool \in [Jobs -> Pools]
    /\ sender \in [Jobs -> Jobs \cup {NoJob}]
    /\ work \in [Pools -> Seq(Jobs)]
    /\ inHand \in [Pools -> Jobs \cup {NoJob}]
    /\ \A p \in Pools : Cardinality(Busy(p)) <= Size[p]

\* StartDispatcher.
Init ==
    /\ state = [j \in Jobs |-> "new"]
    /\ pool \in [Jobs -> Pools]
    /\ sender = [j \in Jobs |-> NoJob]
    /\ work = [p \in Pools |-> <<>>]
    /\ inHand = [p \in Pools |-> NoJob]

\* Work <- job, by a goroutine outside the pools.
Send(j) ==
    /\ state[j] = "new"
    /\ state' = [state EXCEPT ![j] = "sending"]
    /\ work' = [work EXCEPT ![pool[j]] = Append(@, j)]
    /\ UNCHANGED <<pool, sender, inHand>>

\* Work <- job, by a running job.
SendFrom(k, j) ==
    /\ state[k] = "running"
    /\ state[j] = "new"
    /\ <<pool[k], pool[j]>> \in Feeds
    /\ state' = [state EXCEPT ![j] = "sending", ![k] = "blocked"]
    /\ sender' = [sender EXCEPT ![j] = k]
    /\ work' = [work EXCEPT ![pool[j]] = Append(@, j)]
    /\ UNCHANGED <<pool, inHand>>

\* Fault: the range over Work takes the next job while one is in hand.
Take_Overwrites(p) ==
    /\ work[p] # <<>>
    /\ LET j == Head(work[p])
       IN  /\ inHand' = [inHand EXCEPT ![p] = j]
           /\ state' = [i \in Jobs |-> IF i = j THEN "taken"
                                       ELSE IF i = sender[j] THEN "running" ELSE state[i]]
    /\ work' = [work EXCEPT ![p] = Tail(@)]
    /\ UNCHANGED <<pool, sender>>

\* for job := range c.Work: the send completes and its sender goes on.
Take(p) ==
    /\ inHand[p] = NoJob
    /\ work[p] # <<>>
    /\ LET j == Head(work[p])
       IN  /\ inHand' = [inHand EXCEPT ![p] = j]
           /\ state' = [i \in Jobs |-> IF i = j THEN "taken"
                                       ELSE IF i = sender[j] THEN "running" ELSE state[i]]
    /\ work' = [work EXCEPT ![p] = Tail(@)]
    /\ UNCHANGED <<pool, sender>>

\* Fault: a job that finds no free worker is dropped (a non-blocking pool).
Submit_Drops(p) ==
    /\ inHand[p] # NoJob
    /\ state' = IF Cardinality(Busy(p)) < Size[p]
                   THEN [state EXCEPT ![inHand[p]] = "running"] ELSE state
    /\ inHand' = [inHand EXCEPT ![p] = NoJob]
    /\ UNCHANGED <<pool, sender, work>>

\* c.pool.Submit: ants blocks the caller until a worker is free.
Submit(p) ==
    /\ inHand[p] # NoJob
    /\ Cardinality(Busy(p)) < Size[p]
    /\ state' = [state EXCEPT ![inHand[p]] = "running"]
    /\ inHand' = [inHand EXCEPT ![p] = NoJob]
    /\ UNCHANGED <<pool, sender, work>>

\* JobFunc returns or panics (ants recovers); the worker is free again.
Finish(j) ==
    /\ state[j] = "running"
    /\ state' = [state EXCEPT ![j] = "done"]
    /\ UNCHANGED <<pool, sender, work, inHand>>

Next ==
    \/ \E j \in Jobs : Send(j) \/ Finish(j) \/ \E k \in Jobs : SendFrom(k, j)
    \/ \E p \in Pools : Take(p) \/ Submit(p)

Spec == Init /\ [][Next]_vars

\* loopPop and the workers run; a job function ends unless it blocks in a send.
Fairness ==
    /\ \A p \in Pools : WF_vars(Take(p)) /\ WF_vars(Submit(p))
    /\ \A j \in Jobs : WF_vars(Finish(j))

-----------------------------------------------------------------------------
(* Properties                                                              *)

\* A job that was sent is in exactly one place: queued at Work, in the hand of
\* its loopPop, with a worker, or done - none is lost or submitted twice.
OnePlace ==
    \A j \in Jobs :
        /\ state[j] = "taken" <=> \E p \in Pools : inHand[p] = j
        /\ state[j] = "sending" <=> \E p \in Pools : \E n \in DOMAIN work[p] : work[p][n] = j
        /\ \A p \in Pools : \A n, k \in DOMAIN work[p] : work[p][n] = work[p][k] => n = k

\* A job whose send blocks waits for a collector that is still to take it.
BlockedForReason ==
    \A k \in Jobs : state[k] = "blocked" => \E j \in Jobs : sender[j] = k /\ state[j] = "sending"

\* Every job that is sent is executed to its end.
JobsFinish == \A j \in Jobs : state[j] = "sending" ~> state[j] = "done"
=============================================================================
