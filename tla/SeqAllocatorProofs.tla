------------------------- MODULE SeqAllocatorProofs -------------------------
(***************************************************************************)
(* If no two processes use the same flag, GenSeq hands out strictly        *)
(* increasing numbers for every flag, for every step, start value, number  *)
(* of processes and pattern of failures and crashes.                       *)
(*                                                                         *)
(* The invariant says, per flag, that the row bounds everything handed out *)
(* (Reserved) and that a cached window of its one user lies between what   *)
(* was handed out and the row (WindowOwned); AtValid ties the statement a  *)
(* call is at to what it may assume.                                       *)
(***************************************************************************)
EXTENDS SeqAllocator, TLAPS

\* No two processes ask for numbers of the same flag.
NoSharing == \A i, j \in Instances : i # j => Uses[i] \cap Uses[j] = {}

-----------------------------------------------------------------------------
\* An empty table and empty maps satisfy the invariant.
LEMMA InitSInv == Init => SInv
  BY SeqAssumption
     DEF Init, SInv, TypeOK, AtValid, WindowOwned, Reserved, Increasing

\* Storing a Seq keeps the types of seqMap.
LEMMA StoreTypeOK ==
    ASSUME TypeOK, NEW i \in Instances, flag[i] \in Flags, NEW c \in Int, NEW m \in Int,
           Store(i, c, m)
    PROVE  /\ cached' \in [Instances -> SUBSET Flags]
           /\ cur' \in [Instances -> [Flags -> Int]]
           /\ max' \in [Instances -> [Flags -> Int]]
<1>1. cached' \in [Instances -> SUBSET Flags]
  BY DEF TypeOK, Store
<1>2. cur' \in [Instances -> [Flags -> Int]]
  BY DEF TypeOK, Store
<1>3. max' \in [Instances -> [Flags -> Int]]
  BY DEF TypeOK, Store
<1>. QED
  BY <1>1, <1>2, <1>3

\* Types are kept by every step.
LEMMA NextTypeOK == TypeOK /\ AtValid /\ [Next]_vars => TypeOK'
<1> SUFFICES ASSUME TypeOK, AtValid, [Next]_vars PROVE TypeOK'
  OBVIOUS
<1> USE SeqAssumption DEF TypeOK
<1>1. ASSUME NEW i \in Instances, NEW f \in Flags, GenSeq(i, f) PROVE TypeOK'
  BY <1>1 DEF GenSeq
<1>2. ASSUME NEW i \in Instances, QueryFails(i) \/ QueryNoRow(i) \/ Window(i) \/ Crash(i)
      PROVE  TypeOK'
  BY <1>2 DEF QueryFails, QueryNoRow, Window, Crash, Return, Goto
<1>3. ASSUME NEW i \in Instances, QueryRow(i) PROVE TypeOK'
  <2>1. flag[i] \in Flags /\ row[flag[i]] \in Int
    BY <1>3 DEF QueryRow, AtValid
  <2>2. Store(i, row[flag[i]], row[flag[i]])
    BY <1>3 DEF QueryRow
  <2>. QED BY <1>3, <2>1, <2>2, StoreTypeOK DEF QueryRow, Goto
<1>4. ASSUME NEW i \in Instances, InitRow(i) \/ InitFails(i) PROVE TypeOK'
  <2>1. flag[i] \in Flags
    BY <1>4 DEF InitRow, InitFails, AtValid
  <2>2. CASE InitRow(i)
    <3>1. Store(i, FirstSeq, FirstSeq + SeqStep)
      BY <2>2 DEF InitRow
    <3>. QED BY <2>1, <2>2, <3>1, StoreTypeOK DEF InitRow, Upsert, Goto
  <2>3. CASE InitFails(i)
    BY <2>1, <2>3 DEF InitFails, Upsert, Return
  <2>. QED BY <1>4, <2>2, <2>3
<1>5. ASSUME NEW i \in Instances, Extend(i) \/ ExtendFails(i) PROVE TypeOK'
  <2>1. flag[i] \in Flags
    BY <1>5 DEF Extend, ExtendFails, AtValid
  <2>2. cur[i][flag[i]] + SeqStep \in Int
    BY <2>1
  <2>3. row' \in [Flags -> Int \cup {NoRow}]
    BY <1>5, <2>1, <2>2 DEF Extend, ExtendFails, Upsert
  <2>4. max' \in [Instances -> [Flags -> Int]]
    <3>1. max[i][flag[i]] + SeqStep \in Int
      BY <2>1
    <3>2. CASE Extend(i)
      BY <2>1, <3>1, <3>2 DEF Extend
    <3>3. CASE ExtendFails(i)
      BY <3>3 DEF ExtendFails
    <3>. QED BY <1>5, <3>2, <3>3
  <2>. QED BY <1>5, <2>3, <2>4 DEF Extend, ExtendFails, Goto, Return
<1>6. ASSUME NEW i \in Instances, Take(i) PROVE TypeOK'
  <2>1. flag[i] \in Flags
    BY <1>6 DEF Take, AtValid
  <2>. QED BY <1>6, <2>1 DEF Take, Return
<1>7. CASE UNCHANGED vars
  BY <1>7 DEF vars
<1>. QED
  BY <1>1, <1>2, <1>3, <1>4, <1>5, <1>6, <1>7 DEF Next

-----------------------------------------------------------------------------
\* The flag of a call is used by its process alone.
LEMMA FlagOwned ==
    ASSUME NoSharing, SInv, NEW i \in Instances, at[i] # "idle",
           NEW j \in Instances, flag[i] \in cached[j]
    PROVE  j = i
  BY DEF NoSharing, SInv, AtValid

\* So is the flag of a call, among calls.
LEMMA CallsApart ==
    ASSUME NoSharing, SInv, NEW i \in Instances, at[i] # "idle",
           NEW j \in Instances, at[j] # "idle", flag[i] = flag[j]
    PROVE  j = i
  BY DEF NoSharing, SInv, AtValid

\* Calls stay at statements they may be at.
LEMMA NextAtValid == NoSharing /\ SInv /\ [Next]_vars => AtValid'
<1> SUFFICES ASSUME NoSharing, SInv, [Next]_vars PROVE AtValid'
  OBVIOUS
<1> USE SeqAssumption DEF SInv, TypeOK, AtValid
<1>1. ASSUME NEW i \in Instances, NEW f \in Flags, GenSeq(i, f) PROVE AtValid'
  BY <1>1 DEF GenSeq
<1>2. ASSUME NEW i \in Instances, QueryFails(i) \/ QueryNoRow(i) \/ Crash(i) PROVE AtValid'
  BY <1>2 DEF QueryFails, QueryNoRow, Crash, Return, Goto
<1>3. ASSUME NEW i \in Instances, QueryRow(i) PROVE AtValid'
  BY <1>3 DEF QueryRow, Store, Goto
<1>4. ASSUME NEW i \in Instances, InitRow(i) PROVE AtValid'
  <2>1. \A j \in Instances : j # i => at[j] = "idle" \/ flag[j] # flag[i]
    BY <1>4, CallsApart DEF InitRow
  <2>. QED BY <1>4, <2>1 DEF InitRow, Store, Goto, Upsert
<1>5. ASSUME NEW i \in Instances, InitFails(i) PROVE AtValid'
  <2>1. \A j \in Instances : j # i => at[j] = "idle" \/ flag[j] # flag[i]
    BY <1>5, CallsApart DEF InitFails
  <2>. QED BY <1>5, <2>1 DEF InitFails, Return, Upsert
<1>6. ASSUME NEW i \in Instances, Window(i) PROVE AtValid'
  <2>1. cur[i][flag[i]] <= max[i][flag[i]] /\ flag[i] \in Flags
    BY <1>6 DEF Window, WindowOwned
  <2>. QED BY <1>6, <2>1 DEF Window, Goto, Exhausted
<1>7. ASSUME NEW i \in Instances, Extend(i) PROVE AtValid'
  <2>1. \A j \in Instances : j # i => at[j] = "idle" \/ flag[j] # flag[i]
    BY <1>7, CallsApart DEF Extend
  <2>. QED BY <1>7, <2>1 DEF Extend, Goto, Upsert
<1>8. ASSUME NEW i \in Instances, ExtendFails(i) PROVE AtValid'
  <2>1. \A j \in Instances : j # i => at[j] = "idle" \/ flag[j] # flag[i]
    BY <1>8, CallsApart DEF ExtendFails
  <2>. QED BY <1>8, <2>1 DEF ExtendFails, Return, Upsert
<1>9. ASSUME NEW i \in Instances, Take(i) PROVE AtValid'
  BY <1>9 DEF Take, Return
<1>10. CASE UNCHANGED vars
  BY <1>10 DEF vars
<1>. QED
  BY <1>1, <1>2, <1>3, <1>4, <1>5, <1>6, <1>7, <1>8, <1>9, <1>10 DEF Next

\* Handing out a number appends it to the history of its flag.
LEMMA TakeAppends ==
    ASSUME TypeOK, NEW i \in Instances, flag[i] \in Flags, Take(i)
    PROVE  /\ DOMAIN issued'[flag[i]] = 1 .. Len(issued[flag[i]]) + 1
           /\ \A n \in DOMAIN issued[flag[i]] : issued'[flag[i]][n] = issued[flag[i]][n]
           /\ issued'[flag[i]][Len(issued[flag[i]]) + 1] = cur[i][flag[i]] + 1
           /\ \A f \in Flags : f # flag[i] => issued'[f] = issued[f]
<1> DEFINE s == issued[flag[i]]
           v == cur[i][flag[i]] + 1
<1>1. s \in Seq(Int) /\ v \in Int
  BY DEF TypeOK
<1>2. issued'[flag[i]] = Append(s, v)
  BY DEF TypeOK, Take
<1>3. /\ DOMAIN Append(s, v) = 1 .. Len(s) + 1
      /\ \A n \in DOMAIN s : Append(s, v)[n] = s[n]
      /\ Append(s, v)[Len(s) + 1] = v
  BY <1>1
<1>4. \A f \in Flags : f # flag[i] => issued'[f] = issued[f]
  BY DEF TypeOK, Take
<1>. QED
  BY <1>2, <1>3, <1>4

\* The positions of a history that was appended to.
LEMMA UpTo == \A l \in Nat : \A n \in 1 .. l + 1 : n # l + 1 => n \in 1 .. l
  OBVIOUS

\* So a history whose numbers are at most v stays so if the new one is.
LEMMA TakeAll ==
    ASSUME TypeOK, NEW i \in Instances, flag[i] \in Flags, Take(i),
           NEW v, cur[i][flag[i]] + 1 <= v,
           \A n \in DOMAIN issued[flag[i]] : issued[flag[i]][n] <= v
    PROVE  \A n \in DOMAIN issued'[flag[i]] : issued'[flag[i]][n] <= v
<1> DEFINE f == flag[i]
<1>1. DOMAIN issued[f] = 1 .. Len(issued[f]) /\ Len(issued[f]) \in Nat
  BY DEF TypeOK
<1>2. \A n \in 1 .. Len(issued[f]) + 1 : n \in DOMAIN issued[f] \/ n = Len(issued[f]) + 1
  BY <1>1, UpTo
<1>. QED
  BY <1>2, TakeAppends

\* Every number handed out stays covered by the row.
LEMMA NextReserved == NoSharing /\ SInv /\ [Next]_vars => Reserved'
<1> SUFFICES ASSUME NoSharing, SInv, [Next]_vars PROVE Reserved'
  OBVIOUS
<1> USE SeqAssumption DEF SInv, TypeOK, AtValid
<1>1. ASSUME UNCHANGED <<row, issued>> PROVE Reserved'
  BY <1>1 DEF Reserved
<1>2. ASSUME NEW i \in Instances,
             \/ \E f \in Flags : GenSeq(i, f)
             \/ QueryFails(i) \/ QueryNoRow(i) \/ QueryRow(i) \/ Window(i) \/ Crash(i)
      PROVE  UNCHANGED <<row, issued>>
  BY <1>2 DEF GenSeq, QueryFails, QueryNoRow, QueryRow, Window, Crash
<1>3. ASSUME NEW i \in Instances, InitRow(i) \/ InitFails(i) PROVE Reserved'
  <2>1. flag[i] \in Flags /\ row[flag[i]] = NoRow
    BY <1>3 DEF InitRow, InitFails
  <2>2. DOMAIN issued[flag[i]] = {}
    BY <2>1 DEF Reserved
  <2>. QED BY <1>3, <2>1, <2>2, SMTT(30) DEF InitRow, InitFails, Upsert, Reserved
<1>4. ASSUME NEW i \in Instances, Extend(i) \/ ExtendFails(i) PROVE Reserved'
  <2>1. flag[i] \in Flags /\ flag[i] \in cached[i]
    BY <1>4 DEF Extend, ExtendFails
  <2>2. \A n \in DOMAIN issued[flag[i]] : issued[flag[i]][n] <= cur[i][flag[i]]
    BY <2>1 DEF WindowOwned
  <2>3. \A n \in DOMAIN issued[flag[i]] : issued[flag[i]][n] \in Int
    BY <2>1
  <2>4. \A n \in DOMAIN issued[flag[i]] : issued[flag[i]][n] <= cur[i][flag[i]] + SeqStep
    BY <2>1, <2>2, <2>3
  <2>5. cur[i][flag[i]] + SeqStep \in Int /\ cur[i][flag[i]] + SeqStep # NoRow
    BY <2>1
  <2>6. issued' = issued
    BY <1>4 DEF Extend, ExtendFails
  <2>7. CASE row' = [row EXCEPT ![flag[i]] = cur[i][flag[i]] + SeqStep]
    BY <2>1, <2>4, <2>5, <2>6, <2>7 DEF Reserved
  <2>8. CASE row' = row
    BY <1>1, <2>6, <2>8
  <2>. QED BY <1>4, <2>7, <2>8 DEF Extend, ExtendFails, Upsert
<1>5. ASSUME NEW i \in Instances, Take(i) PROVE Reserved'
  <2> DEFINE f == flag[i]
  <2>1. f \in Flags /\ f \in cached[i] /\ cur[i][f] < max[i][f]
    BY <1>5 DEF Take
  <2>2. row[f] # NoRow /\ cur[i][f] + 1 <= row[f]
    BY <2>1 DEF WindowOwned
  <2>3. row' = row
    BY <1>5 DEF Take
  <2>4. \A n \in DOMAIN issued'[f] : row'[f] # NoRow /\ issued'[f][n] <= row'[f]
    BY <1>5, <2>1, <2>2, <2>3, TakeAll DEF Reserved
  <2>5. \A g \in Flags : g # f => issued'[g] = issued[g]
    BY <1>5, <2>1, TakeAppends
  <2>. QED BY <2>3, <2>4, <2>5 DEF Reserved
<1>6. CASE UNCHANGED vars
  BY <1>1, <1>6 DEF vars
<1>. QED
  BY <1>1, <1>2, <1>3, <1>4, <1>5, <1>6 DEF Next

\* Cached windows stay between what was handed out and the row.
LEMMA NextWindowOwned == NoSharing /\ SInv /\ [Next]_vars => WindowOwned'
<1> SUFFICES ASSUME NoSharing, SInv, [Next]_vars PROVE WindowOwned'
  OBVIOUS
<1> USE SeqAssumption DEF SInv, TypeOK, AtValid
<1>1. ASSUME UNCHANGED <<row, cached, cur, max, issued>> PROVE WindowOwned'
  BY <1>1 DEF WindowOwned
<1>2. ASSUME NEW i \in Instances,
             \/ \E f \in Flags : GenSeq(i, f)
             \/ QueryFails(i) \/ QueryNoRow(i) \/ Window(i)
      PROVE  UNCHANGED <<row, cached, cur, max, issued>>
  BY <1>2 DEF GenSeq, QueryFails, QueryNoRow, Window
<1>3. ASSUME NEW i \in Instances, Crash(i) PROVE WindowOwned'
  BY <1>3 DEF Crash, WindowOwned
<1>4. ASSUME NEW i \in Instances, QueryRow(i) PROVE WindowOwned'
  <2>1. flag[i] \in Flags /\ row[flag[i]] \in Int
    BY <1>4 DEF QueryRow
  <2>2. \A n \in DOMAIN issued[flag[i]] : issued[flag[i]][n] <= row[flag[i]]
    BY <2>1 DEF Reserved
  <2>. QED BY <1>4, <2>1, <2>2 DEF QueryRow, Store, WindowOwned
<1>5. ASSUME NEW i \in Instances, InitRow(i) PROVE WindowOwned'
  <2>1. flag[i] \in Flags /\ row[flag[i]] = NoRow
    BY <1>5 DEF InitRow
  <2>2. DOMAIN issued[flag[i]] = {}
    BY <2>1 DEF Reserved
  <2>. QED BY <1>5, <2>1, <2>2 DEF InitRow, Upsert, Store, WindowOwned
<1>6. ASSUME NEW i \in Instances, InitFails(i) PROVE WindowOwned'
  <2>1. flag[i] \in Flags /\ row[flag[i]] = NoRow
    BY <1>6 DEF InitFails
  <2>2. \A j \in Instances : flag[i] \notin cached[j]
    BY <2>1 DEF WindowOwned
  <2>. QED BY <1>6, <2>1, <2>2, ZenonT(30) DEF InitFails, Upsert, WindowOwned
<1>7. ASSUME NEW i \in Instances, Extend(i) PROVE WindowOwned'
  <2>1. flag[i] \in Flags /\ flag[i] \in cached[i] /\ cur[i][flag[i]] = max[i][flag[i]]
    BY <1>7 DEF Extend
  <2>2. \A j \in Instances : flag[i] \in cached[j] => j = i
    BY <1>7, FlagOwned DEF Extend
  <2>. QED BY <1>7, <2>1, <2>2 DEF Extend, Upsert, WindowOwned
<1>8. ASSUME NEW i \in Instances, ExtendFails(i) PROVE WindowOwned'
  <2>1. flag[i] \in Flags /\ flag[i] \in cached[i] /\ cur[i][flag[i]] = max[i][flag[i]]
    BY <1>8 DEF ExtendFails
  <2>2. \A j \in Instances : flag[i] \in cached[j] => j = i
    BY <1>8, FlagOwned DEF ExtendFails
  <2>3. cur[i][flag[i]] + SeqStep \in Int /\ max[i][flag[i]] <= cur[i][flag[i]] + SeqStep
    BY <2>1
  <2>4. UNCHANGED <<cached, cur, max, issued>>
    BY <1>8 DEF ExtendFails
  <2>5. CASE row' = [row EXCEPT ![flag[i]] = cur[i][flag[i]] + SeqStep]
    BY <2>1, <2>2, <2>3, <2>4, <2>5 DEF WindowOwned
  <2>6. CASE row' = row
    BY <1>1, <2>4, <2>6
  <2>. QED BY <1>8, <2>5, <2>6 DEF ExtendFails, Upsert
<1>9. ASSUME NEW i \in Instances, Take(i) PROVE WindowOwned'
  <2> DEFINE f == flag[i]
  <2>1. f \in Flags /\ f \in cached[i] /\ cur[i][f] < max[i][f]
    BY <1>9 DEF Take
  <2>2. \A j \in Instances : f \in cached[j] => j = i
    BY <1>9, FlagOwned DEF Take
  <2>3. \A n \in DOMAIN issued'[f] : issued'[f][n] <= cur[i][f] + 1
    <3>1. \A n \in DOMAIN issued[f] : issued[f][n] <= cur[i][f] /\ issued[f][n] \in Int
      BY <2>1 DEF WindowOwned
    <3>2. \A n \in DOMAIN issued[f] : issued[f][n] <= cur[i][f] + 1
      BY <2>1, <3>1
    <3>3. cur[i][f] + 1 <= cur[i][f] + 1
      BY <2>1
    <3>. QED BY <1>9, <2>1, <3>2, <3>3, TakeAll
  <2>4. \A g \in Flags : g # f => issued'[g] = issued[g]
    BY <1>9, <2>1, TakeAppends
  <2>5. /\ row' = row /\ max' = max /\ cached' = cached
        /\ cur'[i][f] = cur[i][f] + 1
        /\ \A j \in Instances, g \in Flags : <<j, g>> # <<i, f>> => cur'[j][g] = cur[j][g]
    BY <1>9, <2>1 DEF Take
  <2>6. ASSUME NEW j \in Instances, NEW g \in cached[j]
        PROVE  /\ row[g] # NoRow
               /\ cur'[j][g] <= max[j][g] /\ max[j][g] <= row[g]
               /\ \A n \in DOMAIN issued'[g] : issued'[g][n] <= cur'[j][g]
    <3>1. CASE g = f
      BY <2>1, <2>2, <2>3, <2>5, <2>6, <3>1 DEF WindowOwned
    <3>2. CASE g # f
      BY <2>4, <2>5, <2>6, <3>2 DEF WindowOwned
    <3>. QED BY <3>1, <3>2
  <2>. QED BY <2>5, <2>6 DEF WindowOwned
<1>10. CASE UNCHANGED vars
  BY <1>1, <1>10 DEF vars
<1>. QED
  BY <1>1, <1>2, <1>3, <1>4, <1>5, <1>6, <1>7, <1>8, <1>9, <1>10 DEF Next

\* The history of every flag stays strictly increasing.
LEMMA NextIncreasing == NoSharing /\ SInv /\ [Next]_vars => Increasing'
<1> SUFFICES ASSUME NoSharing, SInv, [Next]_vars PROVE Increasing'
  OBVIOUS
<1> USE SeqAssumption DEF SInv, TypeOK, AtValid
<1>1. ASSUME UNCHANGED issued PROVE Increasing'
  BY <1>1 DEF Increasing
<1>2. ASSUME NEW i \in Instances, Take(i) PROVE Increasing'
  <2> DEFINE f == flag[i]
  <2>1. f \in Flags /\ f \in cached[i]
    BY <1>2 DEF Take
  <2>2. \A n \in DOMAIN issued[f] : issued[f][n] <= cur[i][f] /\ issued[f][n] \in Int
    BY <2>1 DEF WindowOwned
  <2>3. DOMAIN issued[f] = 1 .. Len(issued[f]) /\ Len(issued[f]) \in Nat
    BY <2>1
  <2>4. \A m, n \in DOMAIN issued'[f] : m < n => issued'[f][m] < issued'[f][n]
    <3> SUFFICES ASSUME NEW m \in 1 .. Len(issued[f]) + 1, NEW n \in 1 .. Len(issued[f]) + 1,
                        m < n
                 PROVE  issued'[f][m] < issued'[f][n]
      BY <1>2, <2>1, TakeAppends
    <3>1. m \in DOMAIN issued[f] /\ issued'[f][m] = issued[f][m]
      BY <1>2, <2>1, <2>3, TakeAppends
    <3>2. CASE n = Len(issued[f]) + 1
      <4>1. issued'[f][n] = cur[i][f] + 1 /\ cur[i][f] \in Int
        BY <1>2, <2>1, <3>2, TakeAppends
      <4>. QED BY <2>2, <3>1, <4>1
    <3>3. CASE n # Len(issued[f]) + 1
      <4>1. n \in DOMAIN issued[f] /\ issued'[f][n] = issued[f][n]
        <5>1. n \in DOMAIN issued[f]
          BY <2>3, <3>3, UpTo
        <5>. QED BY <1>2, <2>1, <5>1, TakeAppends
      <4>. QED BY <2>1, <3>1, <4>1 DEF Increasing
    <3>. QED BY <3>2, <3>3
  <2>5. \A g \in Flags : g # f => issued'[g] = issued[g]
    BY <1>2, <2>1, TakeAppends
  <2>. QED BY <2>4, <2>5 DEF Increasing
<1>3. ASSUME NEW i \in Instances,
             \/ \E f \in Flags : GenSeq(i, f)
             \/ QueryFails(i) \/ QueryNoRow(i) \/ QueryRow(i) \/ InitRow(i) \/ InitFails(i)
             \/ Window(i) \/ Extend(i) \/ ExtendFails(i) \/ Crash(i)
      PROVE  UNCHANGED issued
  BY <1>3 DEF GenSeq, QueryFails, QueryNoRow, QueryRow, InitRow, InitFails, Window, Extend,
              ExtendFails, Crash
<1>. QED
  BY <1>1, <1>2, <1>3 DEF Next, vars

-----------------------------------------------------------------------------
\* The invariant of GenSeq holds when no two processes share a flag.
THEOREM Invariance == ASSUME NoSharing PROVE Spec => []SInv
<1>1. SInv /\ [Next]_vars => SInv'
  BY NextTypeOK, NextAtValid, NextWindowOwned, NextReserved, NextIncreasing DEF SInv
<1>. QED
  BY InitSInv, <1>1, PTL DEF Spec

\* GenSeq hands out strictly increasing numbers per flag, across crashes and
\* failed or ambiguous database writes, when no two processes share a flag.
THEOREM MonotoneNumbers == ASSUME NoSharing PROVE Spec => []Increasing
  BY Invariance, PTL DEF SInv

\* What was handed out is covered by the durable row, so a restart never
\* repeats it.
THEOREM DurableReservation == ASSUME NoSharing PROVE Spec => [](Reserved /\ WindowOwned)
  BY Invariance, PTL DEF SInv
=============================================================================
