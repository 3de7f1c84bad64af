---------------------------- MODULE SeqAllocator -----------------------------
(***************************************************************************)
(* config/seq.go: GenSeq hands out numbers per flag from a window that a   *)
(* process reserves in the database table `seq`.                           *)
(*                                                                         *)
(* An instance is a process: it owns one seqMap and one seqLock, so at     *)
(* most one of its calls is under way, and a crash loses its map.  The     *)
(* table is shared by all of them.  Every database statement may fail, and *)
(* a failed write may or may not have been applied.                        *)
(***************************************************************************)
EXTENDS Integers, Sequences

CONSTANTS Instances,  \* processes
          Flags,      \* arguments of GenSeq
          Uses,       \* Uses[i]: the flags instance i asks numbers for
          FirstSeq,   \* 1000000, where a flag without a row starts
          SeqStep,    \* seqStep, how many numbers one write reserves
          SeqLimit,   \* bound of the model: no call starts once the row is there
          NoRow,      \* the table has no row for the flag
          NoFlag      \* no call under way

ASSUME SeqAssumption ==
    /\ Uses \in [Instances -> SUBSET Flags]
    /\ FirstSeq \in Nat
    /\ SeqStep \in Nat \ {0}
    /\ SeqLimit \in Nat
    /\ NoRow \notin Int
    /\ NoFlag \notin Flags

VARIABLES
    row,     \* row[f]: min_seq in the table
    cached,  \* cached[i]: the flags with an entry in seqMap
    cur,     \* cur[i][f]: CurSeq of that entry
    max,     \* max[i][f]: MaxSeq of that entry
    at,      \* at[i]: the statement the call of instance i is at
    flag,    \* flag[i]: the flag of that call
    issued   \* issued[f]: the numbers returned for f, oldest first

vars == <<row, cached, cur, max, at, flag, issued>>

\* The types of the variables: the windows of the map and the rows hold numbers.
TypeOK ==
    /\ row \in [Flags -> Int \cup {NoRow}]
    /\ cached \in [Instances -> SUBSET Flags]
    /\ cur \in [Instances -> [Flags -> Int]]
    /\ max \in [Instances -> [Flags -> Int]]
    /\ at \in [Instances -> {"idle", "query", "init", "window", "extend", "next"}]
    /\ flag \in [Instances -> Flags \cup {NoFlag}]
    /\ issued \in [Flags -> Seq(Int)]

Init ==
    /\ row = [f \in Flags |-> NoRow]
    /\ cached = [i \in Instances |-> {}]
    /\ cur = [i \in Instances |-> [f \in Flags |-> 0]]
    /\ max = [i \in Instances |-> [f \in Flags |-> 0]]
    /\ at = [i \in Instances |-> "idle"]
    /\ flag = [i \in Instances |-> NoFlag]
    /\ issued = [f \in Flags |-> <<>>]

-----------------------------------------------------------------------------
Goto(i, l) == at' = [at EXCEPT ![i] = l] /\ UNCHANGED flag

\* The deferred seqLock.Unlock, whatever the call returns.
Return(i) == /\ at' = [at EXCEPT ![i] = "idle"]
             /\ flag' = [flag EXCEPT ![i] = NoFlag]

\* seqMap[flag] = &Seq{CurSeq: c, MaxSeq: m}
Store(i, c, m) ==
    /\ cached' = [cached EXCEPT ![i] = @ \cup {flag[i]}]
    /\ cur' = [cur EXCEPT ![i][flag[i]] = c]
    /\ max' = [max EXCEPT ![i][flag[i]] = m]

\* addOrUpdateSeq: insert the row or overwrite its min_seq, no comparison.
Upsert(f, n) == row' = [row EXCEPT ![f] = n]

\* GenSeq takes seqLock and looks into seqMap.
GenSeq(i, f) ==
    /\ at[i] = "idle"
    /\ f \in Uses[i]
    /\ row[f] # NoRow => row[f] < SeqLimit
    /\ at' = [at EXCEPT ![i] = IF f \in cached[i] THEN "window" ELSE "query"]
    /\ flag' = [flag EXCEPT ![i] = f]
    /\ UNCHANGED <<row, cached, cur, max, issued>>

\* querySeqWithKey fails: the call returns the error.
QueryFails(i) ==
    /\ at[i] = "query"
    /\ Return(i)
    /\ UNCHANGED <<row, cached, cur, max, issued>>

QueryNoRow(i) ==
    /\ at[i] = "query"
    /\ row[flag[i]] = NoRow
    /\ Goto(i, "init")
    /\ UNCHANGED <<row, cached, cur, max, issued>>

\* An existing row: the process starts with an empty window at its end.
QueryRow(i) ==
    /\ at[i] = "query"
    /\ row[flag[i]] # NoRow
    /\ Store(i, row[flag[i]], row[flag[i]])
    /\ Goto(i, "window")
    /\ UNCHANGED <<row, issued>>

\* First number of the flag: reserve the first window, then cache it.
InitRow(i) ==
    /\ at[i] = "init"
    /\ Upsert(flag[i], FirstSeq + SeqStep)
    /\ Store(i, FirstSeq, FirstSeq + SeqStep)
    /\ Goto(i, "window")
    /\ UNCHANGED issued

\* The write fails, applied or not: nothing is cached.
InitFails(i) ==
    /\ at[i] = "init"
    /\ Upsert(flag[i], FirstSeq + SeqStep) \/ UNCHANGED row
    /\ Return(i)
    /\ UNCHANGED <<cached, cur, max, issued>>

\* if seq.CurSeq >= seq.MaxSeq
Exhausted(i) == cur[i][flag[i]] >= max[i][flag[i]]

Window(i) ==
    /\ at[i] = "window"
    /\ Goto(i, IF Exhausted(i) THEN "extend" ELSE "next")
    /\ UNCHANGED <<row, cached, cur, max, issued>>

\* Fault: the next window is used without reserving it.
Extend_NoWrite(i) ==
    /\ at[i] = "extend"
    /\ max' = [max EXCEPT ![i][flag[i]] = @ + SeqStep]
    /\ Goto(i, "next")
    /\ UNCHANGED <<row, cached, cur, issued>>

\* Reserve the next window: the table first, then MaxSeq.
Extend(i) ==
    /\ at[i] = "extend"
    /\ Upsert(flag[i], cur[i][flag[i]] + SeqStep)
    /\ max' = [max EXCEPT ![i][flag[i]] = @ + SeqStep]
    /\ Goto(i, "next")
    /\ UNCHANGED <<cached, cur, issued>>

\* Fault: MaxSeq is raised before the write and kept when it fails.
ExtendFails_KeepsWindow(i) ==
    /\ at[i] = "extend"
    /\ max' = [max EXCEPT ![i][flag[i]] = @ + SeqStep]
    /\ Return(i)
    /\ UNCHANGED <<row, cached, cur, issued>>

\* The write fails, applied or not: the cached window stays exhausted.
ExtendFails(i) ==
    /\ at[i] = "extend"
    /\ Upsert(flag[i], cur[i][flag[i]] + SeqStep) \/ UNCHANGED row
    /\ Return(i)
    /\ UNCHANGED <<cached, cur, max, issued>>

\* seq.CurSeq++ and return it.
Take(i) ==
    /\ at[i] = "next"
    /\ cur' = [cur EXCEPT ![i][flag[i]] = @ + 1]
    /\ issued' = [issued EXCEPT ![flag[i]] = Append(@, cur[i][flag[i]] + 1)]
    /\ Return(i)
    /\ UNCHANGED <<row, cached, max>>

\* The process dies and starts again: seqMap is empty, the table is not.
Crash(i) ==
    /\ cached' = [cached EXCEPT ![i] = {}]
    /\ Return(i)
    /\ UNCHANGED <<row, cur, max, issued>>

Next ==
    \E i \in Instances :
        \/ \E f \in Flags : GenSeq(i, f)
        \/ QueryFails(i) \/ QueryNoRow(i) \/ QueryRow(i)
        \/ InitRow(i) \/ InitFails(i)
        \/ Window(i) \/ Extend(i) \/ ExtendFails(i)
        \/ Take(i)
        \/ Crash(i)

Spec == Init /\ [][Next]_vars

-----------------------------------------------------------------------------
(* Properties                                                              *)

\* GenSeq: "a monotonically increasing sequence number for the given flag" -
\* the numbers of a flag increase strictly in the order they are handed out,
\* across failed statements, crashes and restarts.
Increasing ==
    \A f \in Flags : \A m, n \in DOMAIN issued[f] : m < n => issued[f][m] < issued[f][n]

\* What is left of it for callers that only need distinct numbers: no number
\* of a flag is handed out twice.
Unique ==
    \A f \in Flags : \A m, n \in DOMAIN issued[f] : m # n => issued[f][m] # issued[f][n]

\* Every number handed out is covered by the durable row, which is what a
\* restarted process continues from.
Reserved ==
    \A f \in Flags : \A n \in DOMAIN issued[f] : row[f] # NoRow /\ issued[f][n] <= row[f]

\* A cached window lies above every number handed out and below the row, also
\* after an ambiguous failure: the process may use it without asking again.
WindowOwned ==
    \A i \in Instances : \A f \in cached[i] :
        /\ row[f] # NoRow
        /\ cur[i][f] <= max[i][f] /\ max[i][f] <= row[f]
        /\ \A n \in DOMAIN issued[f] : issued[f][n] <= cur[i][f]

\* A process caches only flags it uses; a call at a statement has a flag; past
\* the lookup the flag is cached; before Take the window is not exhausted.
AtValid ==
    \A i \in Instances :
        /\ cached[i] \subseteq Uses[i]
        /\ at[i] # "idle" => flag[i] \in Uses[i]
        /\ at[i] \in {"query", "init"} => flag[i] \notin cached[i]
        /\ at[i] = "init" => row[flag[i]] = NoRow
        /\ at[i] \in {"window", "extend", "next"} => flag[i] \in cached[i]
        /\ at[i] = "extend" => cur[i][flag[i]] = max[i][flag[i]]
        /\ at[i] = "next" => cur[i][flag[i]] < max[i][flag[i]]

\* What makes the numbers increase across failures, ambiguous writes and crashes:
\* the row bounds what was handed out, and the cached window of a flag's one user
\* lies between the two.  Inductive when no flag is shared.
SInv == TypeOK /\ AtValid /\ WindowOwned /\ Reserved /\ Increasing
=============================================================================
