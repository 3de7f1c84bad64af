------------------------------ MODULE KeyMutex ------------------------------
(***************************************************************************)
(* What pkg/keylock promises its callers, free of how it keeps the locks:  *)
(* each caller is outside, waiting for one key, or inside for one key, and *)
(* at most one caller is inside for any key.  KeyLock is shown to          *)
(* implement this specification.                                           *)
(***************************************************************************)
CONSTANTS Procs, Keys, NoKey

VARIABLES phase,   \* phase[p]: "out", "want" or "in"
          want     \* want[p]: the key p waits for or is inside for, else NoKey

vars == <<phase, want>>

\* The phases of the goroutines.
TypeOK == /\ phase \in [Procs -> {"out", "want", "in"}]
          /\ want \in [Procs -> Keys \cup {NoKey}]

Init == /\ phase = [p \in Procs |-> "out"]
        /\ want = [p \in Procs |-> NoKey]

\* A caller of Lock(key) has not been let in yet.
Request(p, k) == /\ phase[p] = "out"
                 /\ phase' = [phase EXCEPT ![p] = "want"]
                 /\ want' = [want EXCEPT ![p] = k]

\* Lock(key) returns: nobody else is inside for that key.
Enter(p) == /\ phase[p] = "want"
            /\ \A q \in Procs : phase[q] = "in" => want[q] # want[p]
            /\ phase' = [phase EXCEPT ![p] = "in"]
            /\ UNCHANGED want

\* Unlock(key) takes effect.
Leave(p) == /\ phase[p] = "in"
            /\ phase' = [phase EXCEPT ![p] = "out"]
            /\ want' = [want EXCEPT ![p] = NoKey]

Next == \E p \in Procs : \/ \E k \in Keys : Request(p, k)
                         \/ Enter(p)
                         \/ Leave(p)

Spec == Init /\ [][Next]_vars
=============================================================================
