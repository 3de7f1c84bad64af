------------------------------ MODULE KeyLock -------------------------------
(***************************************************************************)
(* pkg/keylock/keylock.go: per-key mutual exclusion over a map of          *)
(* reference-counted inner mutexes, with a background loop that removes    *)
(* idle entries.                                                           *)
(*                                                                         *)
(* A goroutine p calls Lock(k), runs its critical section and calls        *)
(* Unlock(k).  Inner locks are heap objects: newInnerLock returns an       *)
(* object nobody references, which is how garbage collection lets the      *)
(* finite set Inner stand for an unbounded heap.  The sections of Lock and *)
(* Unlock under l.mutex touch the map and one atomic counter only, and are *)
(* one step each; Clean keeps l.mutex over several steps because counters  *)
(* of entries it has not reached yet can still drop under it.              *)
(***************************************************************************)
EXTENDS Integers, FiniteSets

CONSTANTS Procs,     \* goroutines that call Lock and Unlock
          Keys,      \* the keys they use
          Inner,     \* inner lock objects of the heap
          Cleaners,  \* goroutines started by StartCleanLoop
          NoLock,    \* nil: a key that is absent from the map, no pointer
          NoKey,     \* a goroutine that is in no call
          Free       \* l.mutex is not held

ASSUME KeyLockAssumption ==
    /\ IsFiniteSet(Procs)
    /\ NoLock \notin Inner
    /\ NoKey \notin Keys
    /\ Free \notin Cleaners

VARIABLES
    pc,       \* pc[p]: where goroutine p is
    key,      \* key[p]: the argument of its call
    ref,      \* ref[p]: its local variable keyLock
    locks,    \* locks[k]: the map l.locks
    count,    \* count[i]: innerLock.count
    locked,   \* the inner locks whose embedded sync.Mutex is locked
    mutex,    \* holder of l.mutex over several steps (a cleaner) or Free
    loop,     \* loop[c]: where clean goroutine c is
    todo,     \* entries the running Clean has not visited yet
    stopChan  \* "open" or "closed"

procVars  == <<pc, key, ref>>
heapVars  == <<locks, count, locked>>
cleanVars == <<mutex, loop, todo, stopChan>>
vars      == <<procVars, heapVars, cleanVars>>

PCs == {"idle", "lockMutex", "acquire", "cs", "unlockMutex", "done", "release"}

\* Between add() and done(): these goroutines are counted in their entry.
Counted == {"acquire", "cs", "unlockMutex", "done"}

\* keyLock.Lock() has returned and keyLock.Unlock() has not run.
Holding == {"cs", "unlockMutex", "done", "release"}

Users(i) == {p \in Procs : pc[p] \in Counted /\ ref[p] = i}

\* The types of the variables: a goroutine past the lookup refers to a lock
\* object, never to nil.
TypeOK ==
    /\ pc \in [Procs -> PCs]
    /\ key \in [Procs -> Keys \cup {NoKey}]
    /\ ref \in [Procs -> Inner \cup {NoLock}]
    /\ locks \in [Keys -> Inner \cup {NoLock}]
    /\ count \in [Inner -> Int]
    /\ locked \subseteq Inner
    /\ mutex \in Cleaners \cup {Free}
    /\ loop \in [Cleaners -> {"none", "select", "clean", "scan", "exited"}]
    /\ todo \subseteq Keys
    /\ stopChan \in {"open", "closed"}

\* NewKeyLock.
Init ==
    /\ pc = [p \in Procs |-> "idle"]
    /\ key = [p \in Procs |-> NoKey]
    /\ ref = [p \in Procs |-> NoLock]
    /\ locks = [k \in Keys |-> NoLock]
    /\ count = [i \in Inner |-> 0]
    /\ locked = {}
    /\ mutex = Free
    /\ loop = [c \in Cleaners |-> "none"]
    /\ todo = {}
    /\ stopChan = "open"

-----------------------------------------------------------------------------
(* Lock(key)                                                               *)

LockCall(p, k) ==
    /\ pc[p] = "idle"
    /\ pc' = [pc EXCEPT ![p] = "lockMutex"]
    /\ key' = [key EXCEPT ![p] = k]
    /\ UNCHANGED <<ref, heapVars, cleanVars>>

\* newInnerLock: an object no variable and no map entry points to.
Fresh(i) == /\ \A k \in Keys : locks[k] # i
            /\ \A p \in Procs : ref[p] # i

\* innerLock.add and innerLock.done.
Add(i)  == count' = [count EXCEPT ![i] = @ + 1]
Drop(i) == count' = [count EXCEPT ![i] = @ - 1]

\* The section under l.mutex when the entry exists.
LookupFound(p) ==
    /\ pc[p] = "lockMutex"
    /\ mutex = Free
    /\ locks[key[p]] # NoLock
    /\ ref' = [ref EXCEPT ![p] = locks[key[p]]]
    /\ Add(locks[key[p]])
    /\ pc' = [pc EXCEPT ![p] = "acquire"]
    /\ UNCHANGED <<key, locks, locked, cleanVars>>

\* Fault: the creator of an entry is not counted.
LookupMissing_NoAdd(p) ==
    /\ pc[p] = "lockMutex"
    /\ mutex = Free
    /\ locks[key[p]] = NoLock
    /\ \E i \in Inner :
          /\ Fresh(i)
          /\ locks' = [locks EXCEPT ![key[p]] = i]
          /\ ref' = [ref EXCEPT ![p] = i]
          /\ count' = [count EXCEPT ![i] = 0]
          /\ locked' = locked \ {i}
    /\ pc' = [pc EXCEPT ![p] = "acquire"]
    /\ UNCHANGED <<key, cleanVars>>

\* The section under l.mutex when it does not: create, publish, count.
LookupMissing(p) ==
    /\ pc[p] = "lockMutex"
    /\ mutex = Free
    /\ locks[key[p]] = NoLock
    /\ \E i \in Inner :
          /\ Fresh(i)
          /\ locks' = [locks EXCEPT ![key[p]] = i]
          /\ ref' = [ref EXCEPT ![p] = i]
          /\ count' = [count EXCEPT ![i] = 1]
          /\ locked' = locked \ {i}
    /\ pc' = [pc EXCEPT ![p] = "acquire"]
    /\ UNCHANGED <<key, cleanVars>>

\* keyLock.Lock(), outside l.mutex: blocks while the inner mutex is locked.
Acquire(p) ==
    /\ pc[p] = "acquire"
    /\ ref[p] \notin locked
    /\ locked' = locked \cup {ref[p]}
    /\ pc' = [pc EXCEPT ![p] = "cs"]
    /\ UNCHANGED <<key, ref, locks, count, cleanVars>>

-----------------------------------------------------------------------------
(* Unlock(key)                                                             *)

UnlockCall(p) ==
    /\ pc[p] = "cs"
    /\ pc' = [pc EXCEPT ![p] = "unlockMutex"]
    /\ UNCHANGED <<key, ref, heapVars, cleanVars>>

\* Looks the entry up again under l.mutex; returns silently if it is gone.
UnlockLookup(p) ==
    /\ pc[p] = "unlockMutex"
    /\ mutex = Free
    /\ ref' = [ref EXCEPT ![p] = locks[key[p]]]
    /\ IF locks[key[p]] # NoLock
          THEN pc' = [pc EXCEPT ![p] = "done"] /\ UNCHANGED key
          ELSE /\ pc' = [pc EXCEPT ![p] = "idle"]
               /\ key' = [key EXCEPT ![p] = NoKey]
    /\ UNCHANGED <<heapVars, cleanVars>>

\* Fault: done() is forgotten.
Done_NoDrop(p) ==
    /\ pc[p] = "done"
    /\ pc' = [pc EXCEPT ![p] = "release"]
    /\ UNCHANGED <<key, ref, heapVars, cleanVars>>

\* keyLock.done(), before the inner mutex is unlocked.
Done(p) ==
    /\ pc[p] = "done"
    /\ Drop(ref[p])
    /\ pc' = [pc EXCEPT ![p] = "release"]
    /\ UNCHANGED <<key, ref, locks, locked, cleanVars>>

\* keyLock.Unlock().
Release(p) ==
    /\ pc[p] = "release"
    /\ locked' = locked \ {ref[p]}
    /\ pc' = [pc EXCEPT ![p] = "idle"]
    /\ key' = [key EXCEPT ![p] = NoKey]
    /\ ref' = [ref EXCEPT ![p] = NoLock]
    /\ UNCHANGED <<locks, count, cleanVars>>

-----------------------------------------------------------------------------
(* Clean and its background loop                                           *)

StartCleanLoop(c) ==
    /\ loop[c] = "none"
    /\ loop' = [loop EXCEPT ![c] = "select"]
    /\ UNCHANGED <<procVars, heapVars, mutex, todo, stopChan>>

\* close(stopChan); a second call would panic, callers stop once.
StopCleanLoop ==
    /\ stopChan = "open"
    /\ stopChan' = "closed"
    /\ UNCHANGED <<procVars, heapVars, mutex, loop, todo>>

\* case <-ticker.C, which calls Clean.
Tick(c) ==
    /\ loop[c] = "select"
    /\ loop' = [loop EXCEPT ![c] = "clean"]
    /\ UNCHANGED <<procVars, heapVars, mutex, todo, stopChan>>

\* Fault: `break` leaves the select and not the loop around it.
LoopExit_BreaksSelect(c) ==
    /\ loop[c] = "select"
    /\ stopChan = "closed"
    /\ UNCHANGED vars

\* case <-l.stopChan.
LoopExit(c) ==
    /\ loop[c] = "select"
    /\ stopChan = "closed"
    /\ loop' = [loop EXCEPT ![c] = "exited"]
    /\ UNCHANGED <<procVars, heapVars, mutex, todo, stopChan>>

CleanLock(c) ==
    /\ loop[c] = "clean"
    /\ mutex = Free
    /\ mutex' = c
    /\ todo' = {k \in Keys : locks[k] # NoLock}
    /\ loop' = [loop EXCEPT ![c] = "scan"]
    /\ UNCHANGED <<procVars, heapVars, stopChan>>

\* Fault: the counter is not consulted.
CleanEntry_IgnoresCount(c, k) ==
    /\ loop[c] = "scan"
    /\ k \in todo
    /\ todo' = todo \ {k}
    /\ locks' = [locks EXCEPT ![k] = NoLock]
    /\ UNCHANGED <<procVars, count, locked, mutex, loop, stopChan>>

\* One round of the loop over l.locks, in any order (Go map iteration).
CleanEntry(c, k) ==
    /\ loop[c] = "scan"
    /\ k \in todo
    /\ todo' = todo \ {k}
    /\ locks' = IF count[locks[k]] = 0 THEN [locks EXCEPT ![k] = NoLock] ELSE locks
    /\ UNCHANGED <<procVars, count, locked, mutex, loop, stopChan>>

CleanUnlock(c) ==
    /\ loop[c] = "scan"
    /\ todo = {}
    /\ mutex' = Free
    /\ loop' = [loop EXCEPT ![c] = "select"]
    /\ UNCHANGED <<procVars, heapVars, todo, stopChan>>

Lookup(p) == LookupFound(p) \/ LookupMissing(p)

Next ==
    \/ \E p \in Procs :
          \/ \E k \in Keys : LockCall(p, k)
          \/ LookupFound(p) \/ LookupMissing(p)
          \/ Acquire(p)
          \/ UnlockCall(p) \/ UnlockLookup(p) \/ Done(p) \/ Release(p)
    \/ \E c \in Cleaners :
          \/ StartCleanLoop(c) \/ Tick(c) \/ LoopExit(c)
          \/ CleanLock(c) \/ CleanUnlock(c)
          \/ \E k \in Keys : CleanEntry(c, k)
    \/ StopCleanLoop

Spec == Init /\ [][Next]_vars

(***************************************************************************)
(* Scheduling.  Goroutines keep running and critical sections end (weak    *)
(* fairness); a blocked sync.Mutex waiter gets its turn although others    *)
(* keep taking the mutex, which Go's starvation mode guarantees, and       *)
(* select picks each ready case again and again (strong fairness).         *)
(***************************************************************************)
FairSpec ==
    /\ Spec
    /\ \A p \in Procs :
          /\ SF_vars(Lookup(p)) /\ SF_vars(Acquire(p)) /\ SF_vars(UnlockLookup(p))
          /\ WF_vars(UnlockCall(p)) /\ WF_vars(Done(p)) /\ WF_vars(Release(p))
    /\ \A c \in Cleaners :
          /\ SF_vars(CleanLock(c)) /\ SF_vars(LoopExit(c)) /\ WF_vars(Tick(c))
          /\ WF_vars(CleanUnlock(c)) /\ WF_vars(\E k \in Keys : CleanEntry(c, k))

-----------------------------------------------------------------------------
(* Properties                                                              *)

\* Inside for its key, as its caller sees it: Lock has returned, and the call
\* of Unlock has not yet dropped its count.
Inside(p) == pc[p] \in {"cs", "unlockMutex", "done"}

\* Lock: "per-key mutual exclusion" - two goroutines are never inside for
\* the same key, although entries are removed and re-created meanwhile.
MutualExclusion ==
    \A p, q \in Procs : Inside(p) /\ Inside(q) /\ key[p] = key[q] => p = q

\* Clean never removes or replaces an entry some goroutine waits on or holds,
\* so that the lookup of Unlock finds the inner lock that its Lock acquired.
EntryPinned ==
    \A p \in Procs : pc[p] \in Counted => locks[key[p]] = ref[p]

\* keyLock.Unlock never unlocks an unlocked mutex (a fatal error in Go), and
\* no two goroutines believe they hold the same inner lock.
InnerHeldOnce ==
    \A p \in Procs : pc[p] \in Holding =>
        /\ ref[p] \in locked
        /\ \A q \in Procs \ {p} : pc[q] \in Holding => ref[q] # ref[p]

\* innerLock.count of a published entry is the number of goroutines between
\* add and done: never negative, and zero exactly when the entry is idle.
CountExact ==
    \A k \in Keys : locks[k] # NoLock => count[locks[k]] = Cardinality(Users(locks[k]))

\* No inner mutex stays locked after its last holder left: a lost Unlock
\* (the silent return of Unlock) would leave the key locked for good.
NoLeakedLock ==
    \A k \in Keys : locks[k] # NoLock /\ locks[k] \in locked =>
        \E p \in Procs : pc[p] \in Holding /\ ref[p] = locks[k]

\* A goroutine past its lookup points to an inner lock, and one in a call has a
\* key.
RefsValid ==
    \A p \in Procs : /\ pc[p] \in Counted \cup Holding => ref[p] \in Inner
                     /\ pc[p] # "idle" => key[p] \in Keys

\* What Lock, Unlock and Clean rely on between their critical sections: entries
\* in use stay, counters are exact, an inner mutex has one holder and is not
\* left locked.  It is inductive, and mutual exclusion follows from it.
IInv == TypeOK /\ RefsValid /\ EntryPinned /\ InnerHeldOnce /\ CountExact /\ NoLeakedLock

\* Every call of Lock returns.
LockReturns == \A p \in Procs : pc[p] = "lockMutex" ~> pc[p] = "cs"

\* Every call of Unlock returns.
UnlockReturns == \A p \in Procs : pc[p] = "unlockMutex" ~> pc[p] = "idle"

\* StopCleanLoop ends every started clean goroutine.
CleanLoopStops ==
    \A c \in Cleaners : (stopChan = "closed" /\ loop[c] # "none") ~> loop[c] = "exited"

\* No call of Lock, Unlock or StopCleanLoop hangs or is without effect, however
\* the goroutines and the clean loop compete for the map mutex.
CallsReturn == LockReturns /\ UnlockReturns /\ CleanLoopStops

\* A key that is no longer used does not stay in the map while a clean loop
\* runs: Clean is what bounds the map.
IdleReclaimed ==
    \A k \in Keys :
        (/\ <>[](\E c \in Cleaners : loop[c] \in {"select", "clean", "scan"})
         /\ <>[](\A p \in Procs : key[p] # k))
        => <>[](locks[k] = NoLock)

\* KeyLock implements KeyMutex: the map, the counters and the cleaning are
\* invisible to callers.
PhaseOf(l) == CASE l \in {"idle", "release"} -> "out"
                [] l \in {"lockMutex", "acquire"} -> "want"
                [] OTHER -> "in"

Abs == INSTANCE KeyMutex
       WITH phase <- [p \in Procs |-> PhaseOf(pc[p])],
            want  <- [p \in Procs |-> IF pc[p] = "release" THEN NoKey ELSE key[p]]

Implements == Abs!Spec
=============================================================================
