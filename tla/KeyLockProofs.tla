--------------------------- MODULE KeyLockProofs ----------------------------
(***************************************************************************)
(* KeyLock keeps per-key mutual exclusion for any set of goroutines, keys  *)
(* and clean loops, and implements KeyMutex.                               *)
(*                                                                         *)
(* MutualExclusion is not inductive: that two goroutines of one key hold   *)
(* the same inner lock needs EntryPinned, which Clean preserves because    *)
(* the counter it reads is exact (CountExact), which in turn is a fact     *)
(* about the cardinality of the set of counted goroutines.                 *)
(***************************************************************************)
EXTENDS KeyLock, FiniteSetTheorems, TLAPS

\* The goroutines counted in a lock are finitely many, so they can be counted.
LEMMA UsersFinite == ASSUME NEW i PROVE IsFiniteSet(Users(i))
  BY KeyLockAssumption, FS_Subset DEF Users

\* Adding a goroutine that was not counted raises the cardinality by one.
LEMMA CardAdd ==
    ASSUME NEW S, NEW T, NEW p, IsFiniteSet(S), p \notin S, T = S \cup {p}
    PROVE  Cardinality(T) = Cardinality(S) + 1
  BY FS_AddElement

\* Removing one that was counted lowers it by one.
LEMMA CardRemove ==
    ASSUME NEW S, NEW T, NEW p, IsFiniteSet(S), p \in S, T = S \ {p}
    PROVE  Cardinality(T) = Cardinality(S) - 1
  BY FS_RemoveElement

-----------------------------------------------------------------------------
\* NewKeyLock establishes the invariant.
LEMMA InitIInv == Init => IInv
<1> SUFFICES ASSUME Init PROVE IInv
  OBVIOUS
<1>1. TypeOK
  BY DEF Init, TypeOK, PCs
<1>2. \A p \in Procs : pc[p] \notin Counted \cup Holding
  BY DEF Init, Counted, Holding
<1>3. \A p \in Procs : pc[p] = "idle"
  BY DEF Init
<1>4. \A k \in Keys : locks[k] = NoLock
  BY DEF Init
<1>. QED
  BY <1>1, <1>2, <1>3, <1>4
     DEF IInv, RefsValid, EntryPinned, InnerHeldOnce, CountExact, NoLeakedLock

\* Every step keeps the variables in their types.
LEMMA NextTypeOK == TypeOK /\ RefsValid /\ [Next]_vars => TypeOK'
<1> SUFFICES ASSUME TypeOK, RefsValid, [Next]_vars PROVE TypeOK'
  OBVIOUS
<1> USE DEF TypeOK, PCs
<1>1. ASSUME NEW p \in Procs, NEW k \in Keys, LockCall(p, k) PROVE TypeOK'
  BY <1>1 DEF LockCall, heapVars, cleanVars
<1>2. ASSUME NEW p \in Procs, LookupFound(p) PROVE TypeOK'
  <2>1. key[p] \in Keys /\ locks[key[p]] \in Inner
    BY <1>2 DEF LookupFound, RefsValid
  <2>. QED BY <1>2, <2>1 DEF LookupFound, Add, cleanVars
<1>3. ASSUME NEW p \in Procs, LookupMissing(p) PROVE TypeOK'
  <2>1. key[p] \in Keys
    BY <1>3 DEF LookupMissing, RefsValid
  <2>. QED BY <1>3, <2>1 DEF LookupMissing, cleanVars
<1>4. ASSUME NEW p \in Procs, Acquire(p) PROVE TypeOK'
  BY <1>4 DEF Acquire, cleanVars, RefsValid, Counted
<1>5. ASSUME NEW p \in Procs, UnlockCall(p) PROVE TypeOK'
  BY <1>5 DEF UnlockCall, heapVars, cleanVars
<1>6. ASSUME NEW p \in Procs, UnlockLookup(p) PROVE TypeOK'
  <2>1. key[p] \in Keys
    BY <1>6 DEF UnlockLookup, RefsValid
  <2>. QED BY <1>6, <2>1 DEF UnlockLookup, heapVars, cleanVars
<1>7. ASSUME NEW p \in Procs, Done(p) PROVE TypeOK'
  <2>1. ref[p] \in Inner
    BY <1>7 DEF Done, RefsValid, Counted
  <2>. QED BY <1>7, <2>1 DEF Done, Drop, cleanVars
<1>8. ASSUME NEW p \in Procs, Release(p) PROVE TypeOK'
  BY <1>8 DEF Release, cleanVars
<1>9. ASSUME NEW c \in Cleaners,
             \/ StartCleanLoop(c) \/ Tick(c) \/ LoopExit(c) \/ CleanLock(c) \/ CleanUnlock(c)
      PROVE  TypeOK'
  BY <1>9 DEF StartCleanLoop, Tick, LoopExit, CleanLock, CleanUnlock, procVars, heapVars
<1>10. ASSUME NEW c \in Cleaners, NEW k \in Keys, CleanEntry(c, k) PROVE TypeOK'
  BY <1>10 DEF CleanEntry, procVars
<1>11. CASE StopCleanLoop
  BY <1>11 DEF StopCleanLoop, procVars, heapVars
<1>12. CASE UNCHANGED vars
  BY <1>12 DEF vars, procVars, heapVars, cleanVars
<1>. QED
  BY <1>1, <1>2, <1>3, <1>4, <1>5, <1>6, <1>7, <1>8, <1>9, <1>10, <1>11, <1>12 DEF Next

-----------------------------------------------------------------------------
\* Steps of the clean loop other than the removal of an entry, and stuttering,
\* leave everything the invariant is about alone.
LEMMA QuietStep ==
    ASSUME IInv, UNCHANGED <<procVars, heapVars>>
    PROVE  /\ RefsValid' /\ EntryPinned' /\ InnerHeldOnce' /\ CountExact' /\ NoLeakedLock'
  BY DEF IInv, RefsValid, EntryPinned, InnerHeldOnce, CountExact, NoLeakedLock, Users,
         procVars, heapVars

\* Pointers and keys stay valid.
LEMMA NextRefsValid == IInv /\ [Next]_vars => RefsValid'
<1> SUFFICES ASSUME IInv, [Next]_vars PROVE RefsValid'
  OBVIOUS
<1> USE DEF IInv, TypeOK, PCs, Counted, Holding, RefsValid
<1>1. ASSUME NEW p \in Procs, NEW k \in Keys, LockCall(p, k) PROVE RefsValid'
  BY <1>1 DEF LockCall
<1>2. ASSUME NEW p \in Procs, LookupFound(p) PROVE RefsValid'
  BY <1>2 DEF LookupFound
<1>3. ASSUME NEW p \in Procs, LookupMissing(p) PROVE RefsValid'
  BY <1>3 DEF LookupMissing
<1>4. ASSUME NEW p \in Procs, Acquire(p) PROVE RefsValid'
  BY <1>4 DEF Acquire
<1>5. ASSUME NEW p \in Procs, UnlockCall(p) PROVE RefsValid'
  BY <1>5 DEF UnlockCall
<1>6. ASSUME NEW p \in Procs, UnlockLookup(p) PROVE RefsValid'
  BY <1>6 DEF UnlockLookup
<1>7. ASSUME NEW p \in Procs, Done(p) PROVE RefsValid'
  BY <1>7 DEF Done
<1>8. ASSUME NEW p \in Procs, Release(p) PROVE RefsValid'
  BY <1>8 DEF Release
<1>9. ASSUME UNCHANGED procVars PROVE RefsValid'
  BY <1>9 DEF procVars
<1>10. ASSUME NEW c \in Cleaners,
              \/ StartCleanLoop(c) \/ Tick(c) \/ LoopExit(c) \/ CleanLock(c) \/ CleanUnlock(c)
              \/ \E k \in Keys : CleanEntry(c, k)
       PROVE  UNCHANGED procVars
  BY <1>10 DEF StartCleanLoop, Tick, LoopExit, CleanLock, CleanUnlock, CleanEntry
<1>11. StopCleanLoop \/ UNCHANGED vars => UNCHANGED procVars
  BY DEF StopCleanLoop, vars
<1>. QED
  BY <1>1, <1>2, <1>3, <1>4, <1>5, <1>6, <1>7, <1>8, <1>9, <1>10, <1>11 DEF Next

\* Clean removes an entry only if no goroutine is counted in it.
LEMMA CleanedIsUnused ==
    ASSUME IInv, NEW k \in Keys, locks[k] # NoLock, count[locks[k]] = 0
    PROVE  \A p \in Procs : ~(pc[p] \in Counted /\ ref[p] = locks[k])
<1>1. Cardinality(Users(locks[k])) = 0
  BY DEF IInv, CountExact
<1>2. Users(locks[k]) = {}
  BY <1>1, UsersFinite, FS_EmptySet
<1>. QED
  BY <1>2 DEF Users

\* The entry of a key stays the lock its waiters and its holder point to.
LEMMA NextEntryPinned == IInv /\ [Next]_vars => EntryPinned'
<1> SUFFICES ASSUME IInv, [Next]_vars PROVE EntryPinned'
  OBVIOUS
<1> USE DEF IInv, TypeOK, PCs, Counted, RefsValid, EntryPinned
<1>1. ASSUME NEW p \in Procs, NEW k \in Keys, LockCall(p, k) PROVE EntryPinned'
  BY <1>1 DEF LockCall, heapVars
<1>2. ASSUME NEW p \in Procs, LookupFound(p) PROVE EntryPinned'
  BY <1>2 DEF LookupFound
<1>3. ASSUME NEW p \in Procs, LookupMissing(p) PROVE EntryPinned'
  <2>1. \A q \in Procs : pc[q] \in Counted => key[q] # key[p]
    BY <1>3, KeyLockAssumption DEF LookupMissing
  <2>. QED BY <1>3, <2>1 DEF LookupMissing
<1>4. ASSUME NEW p \in Procs, Acquire(p) \/ UnlockCall(p) PROVE EntryPinned'
  BY <1>4 DEF Acquire, UnlockCall, heapVars
<1>5. ASSUME NEW p \in Procs, UnlockLookup(p) PROVE EntryPinned'
  BY <1>5 DEF UnlockLookup, heapVars
<1>6. ASSUME NEW p \in Procs, Done(p) \/ Release(p) PROVE EntryPinned'
  BY <1>6 DEF Done, Release
<1>7. ASSUME NEW c \in Cleaners, NEW k \in Keys, CleanEntry(c, k) PROVE EntryPinned'
  <2>1. CASE locks' = locks
    BY <1>7, <2>1 DEF CleanEntry, procVars
  <2>2. CASE locks[k] # NoLock /\ count[locks[k]] = 0
    <3>1. \A q \in Procs : pc[q] \in Counted => key[q] # k
      BY <2>2, CleanedIsUnused
    <3>. QED BY <1>7, <2>2, <3>1 DEF CleanEntry, procVars
  <2>3. CASE locks[k] = NoLock
    <3>1. [locks EXCEPT ![k] = NoLock] = locks
      BY <2>3
    <3>. QED BY <1>7, <2>1, <3>1 DEF CleanEntry
  <2>. QED BY <1>7, <2>1, <2>2, <2>3 DEF CleanEntry
<1>8. ASSUME NEW c \in Cleaners,
             \/ StartCleanLoop(c) \/ Tick(c) \/ LoopExit(c) \/ CleanLock(c) \/ CleanUnlock(c)
      PROVE  UNCHANGED <<procVars, heapVars>>
  BY <1>8 DEF StartCleanLoop, Tick, LoopExit, CleanLock, CleanUnlock, procVars, heapVars
<1>9. StopCleanLoop \/ UNCHANGED vars => UNCHANGED <<procVars, heapVars>>
  BY DEF StopCleanLoop, vars
<1>. QED
  BY <1>1, <1>2, <1>3, <1>4, <1>5, <1>6, <1>7, <1>8, <1>9, QuietStep DEF Next

\* An inner lock is locked while somebody holds it, and by one goroutine.
LEMMA NextInnerHeldOnce == IInv /\ [Next]_vars => InnerHeldOnce'
<1> SUFFICES ASSUME IInv, [Next]_vars PROVE InnerHeldOnce'
  OBVIOUS
<1> USE DEF IInv, TypeOK, PCs, Counted, Holding, RefsValid, InnerHeldOnce
<1>1. ASSUME NEW p \in Procs, NEW k \in Keys, LockCall(p, k) PROVE InnerHeldOnce'
  BY <1>1 DEF LockCall, heapVars
<1>2. ASSUME NEW p \in Procs, LookupFound(p) PROVE InnerHeldOnce'
  BY <1>2 DEF LookupFound
<1>3. ASSUME NEW p \in Procs, LookupMissing(p) PROVE InnerHeldOnce'
  BY <1>3 DEF LookupMissing, Fresh
<1>4. ASSUME NEW p \in Procs, Acquire(p) PROVE InnerHeldOnce'
  BY <1>4 DEF Acquire
<1>5. ASSUME NEW p \in Procs, UnlockCall(p) PROVE InnerHeldOnce'
  BY <1>5 DEF UnlockCall, heapVars
<1>6. ASSUME NEW p \in Procs, UnlockLookup(p) PROVE InnerHeldOnce'
  <2>1. locks[key[p]] = ref[p] /\ ref[p] \in Inner
    BY <1>6 DEF UnlockLookup, EntryPinned
  <2>2. ref' = ref
    BY <1>6, <2>1 DEF UnlockLookup
  <2>. QED BY <1>6, <2>1, <2>2, KeyLockAssumption DEF UnlockLookup, heapVars
<1>7. ASSUME NEW p \in Procs, Done(p) PROVE InnerHeldOnce'
  BY <1>7 DEF Done
<1>8. ASSUME NEW p \in Procs, Release(p) PROVE InnerHeldOnce'
  BY <1>8 DEF Release
<1>9. ASSUME UNCHANGED <<procVars, locked>> PROVE InnerHeldOnce'
  BY <1>9 DEF procVars
<1>10. ASSUME NEW c \in Cleaners,
              \/ StartCleanLoop(c) \/ Tick(c) \/ LoopExit(c) \/ CleanLock(c) \/ CleanUnlock(c)
              \/ \E k \in Keys : CleanEntry(c, k)
       PROVE  UNCHANGED <<procVars, locked>>
  BY <1>10 DEF StartCleanLoop, Tick, LoopExit, CleanLock, CleanUnlock, CleanEntry, heapVars
<1>11. StopCleanLoop \/ UNCHANGED vars => UNCHANGED <<procVars, locked>>
  BY DEF StopCleanLoop, vars, heapVars
<1>. QED
  BY <1>1, <1>2, <1>3, <1>4, <1>5, <1>6, <1>7, <1>8, <1>9, <1>10, <1>11 DEF Next

\* Every counter of the map stays exact.
LEMMA NextCountExact == IInv /\ [Next]_vars => CountExact'
<1> SUFFICES ASSUME IInv, [Next]_vars PROVE CountExact'
  OBVIOUS
<1> USE DEF IInv, TypeOK, PCs, Counted, RefsValid
<1>1. ASSUME UNCHANGED <<heapVars>>, \A i : Users(i)' = Users(i) PROVE CountExact'
  BY <1>1 DEF CountExact, heapVars
<1>2. ASSUME NEW p \in Procs, NEW k \in Keys, LockCall(p, k) PROVE CountExact'
  <2>1. \A i : Users(i)' = Users(i)
    BY <1>2 DEF LockCall, Users
  <2>. QED BY <1>1, <1>2, <2>1 DEF LockCall
<1>3. ASSUME NEW p \in Procs, LookupFound(p) PROVE CountExact'
  <2> DEFINE i == locks[key[p]]
  <2>1. i \in Inner
    BY <1>3 DEF LookupFound
  <2>2. Users(i)' = Users(i) \cup {p} /\ p \notin Users(i)
    BY <1>3 DEF LookupFound, Users
  <2>3. \A j : j # i => Users(j)' = Users(j)
    BY <1>3 DEF LookupFound, Users
  <2>4. Cardinality(Users(i)') = Cardinality(Users(i)) + 1
    BY <2>2, UsersFinite, CardAdd
  <2>5. count'[i] = Cardinality(Users(i)')
    BY <1>3, <2>1, <2>4 DEF LookupFound, Add, CountExact
  <2>6. \A j \in Inner : j # i => count'[j] = count[j]
    BY <1>3 DEF LookupFound, Add
  <2>. QED BY <1>3, <2>3, <2>5, <2>6 DEF LookupFound, CountExact
<1>4. ASSUME NEW p \in Procs, LookupMissing(p) PROVE CountExact'
  <2>1. PICK i \in Inner : /\ Fresh(i)
                           /\ locks' = [locks EXCEPT ![key[p]] = i]
                           /\ ref' = [ref EXCEPT ![p] = i]
                           /\ count' = [count EXCEPT ![i] = 1]
    BY <1>4 DEF LookupMissing
  <2>2. Users(i)' = {p}
    BY <1>4, <2>1 DEF LookupMissing, Fresh, Users
  <2>3. Cardinality(Users(i)') = 1
    BY <2>2, FS_Singleton
  <2>4. \A j : j # i => Users(j)' = Users(j)
    BY <1>4, <2>1 DEF LookupMissing, Users
  <2>5. count'[i] = Cardinality(Users(i)')
    BY <2>1, <2>3
  <2>6. \A j \in Inner : j # i => count'[j] = count[j]
    BY <2>1
  <2>7. \A k \in Keys : locks'[k] # i => locks'[k] = locks[k]
    BY <1>4, <2>1 DEF LookupMissing
  <2>8. \A k \in Keys : locks'[k] = i \/ locks'[k] \in Inner \cup {NoLock}
    BY <2>7
  <2>. QED BY <2>4, <2>5, <2>6, <2>7, <2>8 DEF CountExact
<1>5. ASSUME NEW p \in Procs, Acquire(p) \/ UnlockCall(p) PROVE CountExact'
  <2>1. \A i : Users(i)' = Users(i)
    BY <1>5 DEF Acquire, UnlockCall, Users
  <2>. QED BY <1>5, <2>1 DEF Acquire, UnlockCall, CountExact, heapVars
<1>6. ASSUME NEW p \in Procs, UnlockLookup(p) PROVE CountExact'
  <2>1. locks[key[p]] = ref[p] /\ ref[p] \in Inner
    BY <1>6 DEF UnlockLookup, EntryPinned
  <2>2. \A i : Users(i)' = Users(i)
    BY <1>6, <2>1, KeyLockAssumption DEF UnlockLookup, Users
  <2>. QED BY <1>1, <1>6, <2>2 DEF UnlockLookup
<1>7. ASSUME NEW p \in Procs, Done(p) PROVE CountExact'
  <2> DEFINE i == ref[p]
  <2>1. i \in Inner
    BY <1>7 DEF Done
  <2>2. Users(i)' = Users(i) \ {p} /\ p \in Users(i)
    BY <1>7 DEF Done, Users
  <2>3. \A j : j # i => Users(j)' = Users(j)
    BY <1>7 DEF Done, Users
  <2>4. Cardinality(Users(i)') = Cardinality(Users(i)) - 1
    BY <2>2, UsersFinite, CardRemove
  <2>5. \A j \in Inner : count'[j] = IF j = i THEN count[j] - 1 ELSE count[j]
    BY <1>7, <2>1 DEF Done, Drop
  <2>. QED BY <1>7, <2>3, <2>4, <2>5 DEF Done, CountExact
<1>8. ASSUME NEW p \in Procs, Release(p) PROVE CountExact'
  <2>1. \A i : i # NoLock => Users(i)' = Users(i)
    BY <1>8 DEF Release, Users
  <2>. QED BY <1>8, <2>1 DEF Release, CountExact
<1>9. ASSUME NEW c \in Cleaners, NEW k \in Keys, CleanEntry(c, k) PROVE CountExact'
  <2>1. \A i : Users(i)' = Users(i)
    BY <1>9 DEF CleanEntry, procVars, Users
  <2>. QED BY <1>9, <2>1 DEF CleanEntry, CountExact
<1>10. ASSUME NEW c \in Cleaners,
              \/ StartCleanLoop(c) \/ Tick(c) \/ LoopExit(c) \/ CleanLock(c) \/ CleanUnlock(c)
       PROVE  UNCHANGED <<procVars, heapVars>>
  BY <1>10 DEF StartCleanLoop, Tick, LoopExit, CleanLock, CleanUnlock, procVars, heapVars
<1>11. StopCleanLoop \/ UNCHANGED vars => UNCHANGED <<procVars, heapVars>>
  BY DEF StopCleanLoop, vars
<1>. QED
  BY <1>2, <1>3, <1>4, <1>5, <1>6, <1>7, <1>8, <1>9, <1>10, <1>11, QuietStep DEF Next

\* A locked inner lock of the map has a holder.
LEMMA NextNoLeakedLock == IInv /\ [Next]_vars => NoLeakedLock'
<1> SUFFICES ASSUME IInv, [Next]_vars PROVE NoLeakedLock'
  OBVIOUS
<1> USE DEF IInv, TypeOK, PCs, Counted, Holding, RefsValid, NoLeakedLock
<1>1. ASSUME NEW p \in Procs, NEW k \in Keys, LockCall(p, k) PROVE NoLeakedLock'
  BY <1>1 DEF LockCall, heapVars
<1>2. ASSUME NEW p \in Procs, LookupFound(p) PROVE NoLeakedLock'
  BY <1>2 DEF LookupFound
<1>3. ASSUME NEW p \in Procs, LookupMissing(p) PROVE NoLeakedLock'
  BY <1>3 DEF LookupMissing, Fresh
<1>4. ASSUME NEW p \in Procs, Acquire(p) PROVE NoLeakedLock'
  BY <1>4 DEF Acquire
<1>5. ASSUME NEW p \in Procs, UnlockCall(p) PROVE NoLeakedLock'
  BY <1>5 DEF UnlockCall, heapVars
<1>6. ASSUME NEW p \in Procs, UnlockLookup(p) PROVE NoLeakedLock'
  <2>1. locks[key[p]] = ref[p] /\ ref[p] \in Inner
    BY <1>6 DEF UnlockLookup, EntryPinned
  <2>2. ref' = ref
    BY <1>6, <2>1 DEF UnlockLookup
  <2>. QED BY <1>6, <2>1, <2>2, KeyLockAssumption DEF UnlockLookup, heapVars
<1>7. ASSUME NEW p \in Procs, Done(p) PROVE NoLeakedLock'
  BY <1>7 DEF Done
<1>8. ASSUME NEW p \in Procs, Release(p) PROVE NoLeakedLock'
  BY <1>8 DEF Release
<1>9. ASSUME NEW c \in Cleaners, NEW k \in Keys, CleanEntry(c, k) PROVE NoLeakedLock'
  BY <1>9 DEF CleanEntry, procVars
<1>10. ASSUME NEW c \in Cleaners,
              \/ StartCleanLoop(c) \/ Tick(c) \/ LoopExit(c) \/ CleanLock(c) \/ CleanUnlock(c)
       PROVE  UNCHANGED <<procVars, heapVars>>
  BY <1>10 DEF StartCleanLoop, Tick, LoopExit, CleanLock, CleanUnlock, procVars, heapVars
<1>11. StopCleanLoop \/ UNCHANGED vars => UNCHANGED <<procVars, heapVars>>
  BY DEF StopCleanLoop, vars
<1>. QED
  BY <1>1, <1>2, <1>3, <1>4, <1>5, <1>6, <1>7, <1>8, <1>9, <1>10, <1>11, QuietStep DEF Next

-----------------------------------------------------------------------------
\* The inductive invariant holds in every reachable state.
THEOREM Invariance == Spec => []IInv
<1>1. IInv /\ [Next]_vars => IInv'
  BY NextTypeOK, NextRefsValid, NextEntryPinned, NextInnerHeldOnce, NextCountExact,
     NextNoLeakedLock DEF IInv
<1>. QED
  BY InitIInv, <1>1, PTL DEF Spec

\* The variables of KeyLock keep their types.
THEOREM TypeCorrect == Spec => []TypeOK
  BY Invariance, PTL DEF IInv

\* Lock and Unlock give mutual exclusion per key, however many goroutines,
\* keys and clean loops run.
THEOREM Exclusion == Spec => []MutualExclusion
<1>1. IInv => MutualExclusion
  BY DEF IInv, EntryPinned, InnerHeldOnce, MutualExclusion, Inside, Counted, Holding
<1>. QED
  BY Invariance, <1>1, PTL

\* Clean never takes an entry away from a goroutine that waits on it or holds
\* it, so Unlock always finds the lock that Lock acquired.
THEOREM Pinned == Spec => []EntryPinned
  BY Invariance, PTL DEF IInv

\* Unlock never unlocks an unlocked or somebody else's inner mutex, and no
\* inner mutex of the map stays locked without a holder.
THEOREM UnlockSafe == Spec => [](InnerHeldOnce /\ NoLeakedLock)
  BY Invariance, PTL DEF IInv

\* The counter Clean relies on counts exactly the goroutines between add and
\* done.
THEOREM Counting == Spec => []CountExact
  BY Invariance, PTL DEF IInv

-----------------------------------------------------------------------------
\* What a step does to the caller-visible phase and key of each goroutine.
LEMMA RefinementStep == IInv /\ [Next]_vars => [Abs!Next]_(Abs!vars)
<1> SUFFICES ASSUME IInv, [Next]_vars PROVE [Abs!Next]_(Abs!vars)
  OBVIOUS
<1> USE DEF IInv, TypeOK, PCs, RefsValid
<1> DEFINE ph == [p \in Procs |-> PhaseOf(pc[p])]
           wt == [p \in Procs |-> IF pc[p] = "release" THEN NoKey ELSE key[p]]
<1>0. (Abs!vars = <<ph, wt>>) /\ (Abs!vars' = <<ph', wt'>>)
  BY DEF Abs!vars
<1>1. ASSUME NEW p \in Procs, NEW k \in Keys, LockCall(p, k) PROVE Abs!Request(p, k)
  BY <1>1 DEF LockCall, Abs!Request, PhaseOf
<1>2. ASSUME NEW p \in Procs, LookupFound(p) \/ LookupMissing(p) PROVE ph' = ph /\ wt' = wt
  BY <1>2 DEF LookupFound, LookupMissing, PhaseOf
<1>3. ASSUME NEW p \in Procs, Acquire(p) PROVE Abs!Enter(p)
  <2>1. \A q \in Procs : Inside(q) => key[q] # key[p]
    BY <1>3 DEF Acquire, Inside, EntryPinned, InnerHeldOnce, Counted, Holding
  <2>2. \A q \in Procs : ph[q] = "in" => wt[q] # wt[p]
    BY <1>3, <2>1 DEF Acquire, PhaseOf, Inside
  <2>3. ph[p] = "want" /\ ph' = [ph EXCEPT ![p] = "in"] /\ wt' = wt
    BY <1>3 DEF Acquire, PhaseOf
  <2>. QED BY <2>2, <2>3 DEF Abs!Enter
<1>4. ASSUME NEW p \in Procs, UnlockCall(p) PROVE ph' = ph /\ wt' = wt
  BY <1>4 DEF UnlockCall, PhaseOf
<1>5. ASSUME NEW p \in Procs, UnlockLookup(p) PROVE ph' = ph /\ wt' = wt
  <2>1. locks[key[p]] # NoLock
    BY <1>5, KeyLockAssumption DEF UnlockLookup, EntryPinned, Counted
  <2>. QED BY <1>5, <2>1 DEF UnlockLookup, PhaseOf
<1>6. ASSUME NEW p \in Procs, Done(p) PROVE Abs!Leave(p)
  BY <1>6 DEF Done, Abs!Leave, PhaseOf
<1>7. ASSUME NEW p \in Procs, Release(p) PROVE ph' = ph /\ wt' = wt
  BY <1>7 DEF Release, PhaseOf
<1>8. ASSUME UNCHANGED procVars PROVE ph' = ph /\ wt' = wt
  BY <1>8 DEF procVars
<1>9. ASSUME NEW c \in Cleaners,
             \/ StartCleanLoop(c) \/ Tick(c) \/ LoopExit(c) \/ CleanLock(c) \/ CleanUnlock(c)
             \/ \E k \in Keys : CleanEntry(c, k)
      PROVE  UNCHANGED procVars
  BY <1>9 DEF StartCleanLoop, Tick, LoopExit, CleanLock, CleanUnlock, CleanEntry
<1>10. StopCleanLoop \/ UNCHANGED vars => UNCHANGED procVars
  BY DEF StopCleanLoop, vars
<1>. QED
  BY <1>0, <1>1, <1>2, <1>3, <1>4, <1>5, <1>6, <1>7, <1>8, <1>9, <1>10 DEF Next, Abs!Next

\* KeyLock implements the abstract per-key mutex.
THEOREM Refinement == Spec => Implements
<1>1. Init => Abs!Init
  BY DEF Init, Abs!Init, PhaseOf
<1>. QED
  BY <1>1, RefinementStep, Invariance, PTL DEF Spec, Implements, Abs!Spec
=============================================================================
