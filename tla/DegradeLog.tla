----------------------------- MODULE DegradeLog -----------------------------
(***************************************************************************)
(* pkg/wkhttp/ratelimit.go: logDegrade throttles the warning that a        *)
(* limiter runs without Redis.  Every failing request calls it, on its own *)
(* goroutine, and the three steps - read the clock, load the time of the   *)
(* last warning, swap it - interleave with those of the others.            *)
(***************************************************************************)
EXTENDS Integers

CONSTANTS Procs,     \* goroutines whose requests fail
          Interval,  \* degradeWarnInterval
          Start,     \* clock at start, past Interval like any Unix time
          MaxTime    \* bound of the model: the clock stops here

ASSUME DegradeAssumption ==
    /\ Interval \in Nat \ {0}
    /\ Start \in Nat /\ Start >= Interval
    /\ MaxTime \in Nat /\ MaxTime >= Start

VARIABLES clock,      \* wall clock, in Unix seconds
          last,       \* lastDegradeWarn, 0 before the first warning
          pc, now, prev,  \* per goroutine: position and local variables
          stamps,     \* the `now` of every warning printed
          printedAt   \* when the latest warning was printed, 0 before

vars == <<clock, last, pc, now, prev, stamps, printedAt>>

\* The types of logDegrade's variables; lastDegradeWarn never runs ahead of the
\* clock's range.
TypeOK ==
    /\ clock \in Start .. MaxTime
    /\ last \in 0 .. MaxTime
    /\ pc \in [Procs -> {"idle", "load", "check", "swap", "silent"}]
    /\ now \in [Procs -> Nat] /\ prev \in [Procs -> Nat]
    /\ stamps \subseteq Nat
    /\ printedAt \in Nat

Init ==
    /\ clock = Start
    /\ last = 0
    /\ pc = [p \in Procs |-> "idle"]
    /\ now = [p \in Procs |-> 0]
    /\ prev = [p \in Procs |-> 0]
    /\ stamps = {}
    /\ printedAt = 0

\* The call returns; its local variables are gone.
Return(p) ==
    /\ pc' = [pc EXCEPT ![p] = "idle"]
    /\ now' = [now EXCEPT ![p] = 0]
    /\ prev' = [prev EXCEPT ![p] = 0]

\* now := time.Now().Unix()
ReadClock(p) ==
    /\ pc[p] = "idle"
    /\ now' = [now EXCEPT ![p] = clock]
    /\ pc' = [pc EXCEPT ![p] = "load"]
    /\ UNCHANGED <<clock, last, prev, stamps, printedAt>>

\* prev := k.lastDegradeWarn.Load()
Load(p) ==
    /\ pc[p] = "load"
    /\ prev' = [prev EXCEPT ![p] = last]
    /\ pc' = [pc EXCEPT ![p] = "check"]
    /\ UNCHANGED <<clock, last, now, stamps, printedAt>>

\* Fault: `<=` for `<`.
Check_OffByOne(p) ==
    /\ pc[p] = "check"
    /\ pc' = [pc EXCEPT ![p] = IF now[p] - prev[p] <= Interval THEN "silent" ELSE "swap"]
    /\ UNCHANGED <<clock, last, now, prev, stamps, printedAt>>

\* if now-prev < degradeWarnInterval { return }
Check(p) ==
    /\ pc[p] = "check"
    /\ pc' = [pc EXCEPT ![p] = IF now[p] - prev[p] < Interval THEN "silent" ELSE "swap"]
    /\ UNCHANGED <<clock, last, now, prev, stamps, printedAt>>

\* Fault: Store instead of CompareAndSwap.
SwapWins_Stores(p) ==
    /\ pc[p] = "swap"
    /\ last' = now[p]
    /\ stamps' = stamps \cup {now[p]}
    /\ printedAt' = clock
    /\ Return(p)
    /\ UNCHANGED clock

\* CompareAndSwap(prev, now) and the warning of the goroutine that wins.
SwapWins(p) ==
    /\ pc[p] = "swap"
    /\ last = prev[p]
    /\ last' = now[p]
    /\ stamps' = stamps \cup {now[p]}
    /\ printedAt' = clock
    /\ Return(p)
    /\ UNCHANGED clock

\* Another goroutine swapped in between and prints.
SwapLoses(p) ==
    /\ pc[p] = "swap"
    /\ last # prev[p]
    /\ pc' = [pc EXCEPT ![p] = "silent"]
    /\ UNCHANGED <<clock, last, now, prev, stamps, printedAt>>

\* The call returns without a warning.
ReturnSilent(p) ==
    /\ pc[p] = "silent"
    /\ Return(p)
    /\ UNCHANGED <<clock, last, stamps, printedAt>>

Tick ==
    /\ clock < MaxTime
    /\ clock' = clock + 1
    /\ UNCHANGED <<last, pc, now, prev, stamps, printedAt>>

Next ==
    \/ \E p \in Procs : \/ ReadClock(p) \/ Load(p) \/ Check(p)
                        \/ SwapWins(p) \/ SwapLoses(p) \/ ReturnSilent(p)
    \/ Tick

Spec == Init /\ [][Next]_vars

-----------------------------------------------------------------------------
(* Properties                                                              *)

\* "at most one per 30 seconds": the `now` two warnings were given is an Interval
\* apart, and two goroutines never print for the same `now`.  The instants of printing
\* can be closer, since a goroutine may be held up between reading the clock and
\* the swap.
WarnsSpaced ==
    [][\A p \in Procs : SwapWins(p) => \A s \in stamps : now[p] - s >= Interval]_vars

\* "never silent for good": a call that prints nothing began less than an
\* Interval after the latest warning, or that warning was printed during it.
NotSilenced == \A p \in Procs : pc[p] = "silent" => printedAt > now[p] - Interval
=============================================================================
