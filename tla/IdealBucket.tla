---------------------------- MODULE IdealBucket -----------------------------
(***************************************************************************)
(* The token bucket that pkg/wkhttp/ratelimit.go distributes, as one       *)
(* would define it on paper: it never expires, and every request first     *)
(* advances it to the time of the request, whatever the answer.            *)
(*                                                                         *)
(* Amounts are in units: a token is Cost units, the bucket holds Cap of    *)
(* them and gains Rate in a unit of time.                                  *)
(***************************************************************************)
EXTENDS Integers, FiniteSetsExt

CONSTANTS Cost, Cap, Rate, MaxTime

VARIABLES time,      \* time of the last request
          level,     \* units in the bucket at that time
          admitted,  \* requests let through
          denied     \* requests turned away

vars == <<time, level, admitted, denied>>

\* The level d time units later.
Filled(l, d) == Min({Cap, l + d * Rate})

Init == time = 0 /\ level = Cap /\ admitted = 0 /\ denied = 0

Admit(t) ==
    /\ Filled(level, t - time) >= Cost
    /\ level' = Filled(level, t - time) - Cost
    /\ time' = t
    /\ admitted' = admitted + 1
    /\ UNCHANGED denied

Deny(t) ==
    /\ Filled(level, t - time) < Cost
    /\ level' = Filled(level, t - time)
    /\ time' = t
    /\ denied' = denied + 1
    /\ UNCHANGED admitted

Next == \E t \in time .. MaxTime : Admit(t) \/ Deny(t)

Spec == Init /\ [][Next]_vars
=============================================================================
