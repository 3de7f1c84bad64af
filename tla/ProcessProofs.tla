--------------------------- MODULE ProcessProofs ----------------------------
(***************************************************************************)
(* What the parts of Process promise, for any number of goroutines, items, *)
(* jobs, ids, listeners and servers.                                       *)
(***************************************************************************)
EXTENDS Process, FiniteSetTheorems, SequenceTheorems, WellFoundedInduction, TLAPS

-----------------------------------------------------------------------------
(* Sequences                                                               *)

\* What Append does, element by element.
LEMMA Appended ==
    ASSUME NEW S, NEW s \in Seq(S), NEW e \in S
    PROVE  /\ Append(s, e) \in Seq(S) /\ Len(Append(s, e)) = Len(s) + 1
           /\ \A i \in 1 .. Len(s) : Append(s, e)[i] = s[i]
           /\ Append(s, e)[Len(s) + 1] = e
  BY AppendProperties

\* What Tail does, element by element.
LEMMA Tailed ==
    ASSUME NEW S, NEW s \in Seq(S), s # <<>>
    PROVE  /\ Len(s) \in Nat \ {0} /\ Tail(s) \in Seq(S) /\ Len(Tail(s)) = Len(s) - 1
           /\ \A i \in 1 .. Len(Tail(s)) : Tail(s)[i] = s[i + 1]
           /\ Head(s) = s[1] /\ Head(s) \in S
  BY HeadTailProperties, EmptySeq

\* Moving the head of t to the end of s leaves s \o t as it is.
LEMMA HeadMoves ==
    ASSUME NEW S, NEW s \in Seq(S), NEW t \in Seq(S), t # <<>>
    PROVE  Append(s, Head(t)) \o Tail(t) = s \o t
<1> DEFINE u == Append(s, Head(t))
<1>1. u \in Seq(S) /\ Len(u) = Len(s) + 1 /\ Tail(t) \in Seq(S) /\ Len(Tail(t)) = Len(t) - 1
  BY Tailed, Appended
<1>2. /\ u \o Tail(t) \in Seq(S) /\ Len(u \o Tail(t)) = Len(s) + Len(t)
      /\ s \o t \in Seq(S) /\ Len(s \o t) = Len(s) + Len(t)
      /\ Len(s) \in Nat /\ Len(t) \in Nat \ {0}
  BY <1>1, ConcatProperties, LenProperties, Tailed
<1>3. ASSUME NEW i \in 1 .. Len(s) + Len(t) PROVE (u \o Tail(t))[i] = (s \o t)[i]
  <2>1. (u \o Tail(t))[i] = IF i <= Len(u) THEN u[i] ELSE Tail(t)[i - Len(u)]
    BY <1>1, <1>2, ConcatProperties
  <2>2. (s \o t)[i] = IF i <= Len(s) THEN s[i] ELSE t[i - Len(s)]
    BY <1>2, ConcatProperties
  <2>3. CASE i <= Len(s)
    BY <2>1, <2>2, <2>3, <1>1, <1>2, Appended, Tailed
  <2>4. CASE i = Len(s) + 1
    BY <2>1, <2>2, <2>4, <1>1, <1>2, Appended, Tailed
  <2>5. CASE i > Len(s) + 1
    BY <2>1, <2>2, <2>5, <1>1, <1>2, Appended, Tailed
  <2>. QED BY <2>3, <2>4, <2>5, <1>2
<1>. QED BY <1>2, <1>3, SeqEqual

\* Appending to t appends to s \o t.
LEMMA AppendMoves ==
    ASSUME NEW S, NEW s \in Seq(S), NEW t \in Seq(S), NEW e \in S
    PROVE  s \o Append(t, e) = Append(s \o t, e)
<1>1. Append(t, e) = t \o <<e>> /\ <<e>> \in Seq(S)
  BY AppendIsConcat
<1>2. s \o t \in Seq(S) /\ Append(s \o t, e) = (s \o t) \o <<e>>
  BY ConcatProperties, AppendIsConcat
<1>3. (s \o t) \o <<e>> = s \o (t \o <<e>>)
  BY <1>1, ConcatAssociative
<1>. QED BY <1>1, <1>2, <1>3

-----------------------------------------------------------------------------
(* The blocking queue                                                      *)

\* sync.Cond's notify list: sleepers are asleep, each is listed once, and who was
\* released is about to test the loop condition of Pop.
Notified ==
    /\ \A n \in 1 .. Len(sleepers) : popper[sleepers[n]] = "asleep"
    /\ \A n, k \in 1 .. Len(sleepers) : sleepers[n] = sleepers[k] => n = k
    /\ \A c \in woken : popper[c] = "pop"

QInv == Q!TypeOK /\ Notified /\ Q!Conserved /\ Q!NoLostWakeup

LEMMA QFinite == ASSUME NEW S PROVE Q!IsFiniteSet(S) <=> IsFiniteSet(S)
  BY DEF Q!IsFiniteSet, IsFiniteSet
LEMMA QCardinality == ASSUME NEW S PROVE Q!Cardinality(S) = Cardinality(S)
  BY DEF Q!Cardinality, Cardinality

\* The released goroutines are finitely many, and one can be counted in or out.
LEMMA WokenCount ==
    ASSUME Q!TypeOK
    PROVE  /\ IsFiniteSet(woken) /\ Cardinality(woken) \in Nat
           /\ \A c : Cardinality(woken \cup {c}) =
                        IF c \in woken THEN Cardinality(woken) ELSE Cardinality(woken) + 1
           /\ \A c : Cardinality(woken \ {c}) \in Nat /\ Cardinality(woken \ {c}) >= Cardinality(woken) - 1
<1>1. IsFiniteSet(woken)
  <2>1. IsFiniteSet(Consumers) /\ woken \in SUBSET Consumers
    BY ProcessAssumption, QFinite DEF Q!PoolQueueAssumption, Q!TypeOK
  <2>. QED BY <2>1, FS_Subset
<1>. QED BY <1>1, FS_CardinalityType, FS_AddElement, FS_RemoveElement

LEMMA InitQInv == AllInit => QInv
<1> SUFFICES ASSUME AllInit PROVE QInv
  OBVIOUS
<1> USE DEF AllInit, Q!Init
<1>1. Q!TypeOK
  <2>1. <<>> \in Seq(1 .. MaxPush) /\ <<>> \in Seq(Consumers) /\ 0 \in 0 .. MaxPush
    BY ProcessAssumption, EmptySeq DEF Q!PoolQueueAssumption
  <2>. QED BY <2>1 DEF Q!TypeOK
<1>2. Notified /\ Q!NoLostWakeup
  BY EmptySeq DEF Notified, Q!NoLostWakeup
<1>3. Q!Conserved
  <2>1. <<>> \o <<>> = <<>> /\ <<>> = [n \in 1 .. 0 |-> n]
    BY ConcatEmptySeq, EmptySeq
  <2>. QED BY <2>1 DEF Q!Conserved
<1>. QED BY <1>1, <1>2, <1>3 DEF QInv

\* An item goes to the end of the buffer.
LEMMA PushConserved ==
    ASSUME Q!TypeOK, Q!Conserved, pushed < MaxPush,
           pushed' = pushed + 1, buffer' = Append(buffer, pushed + 1), taken' = taken
    PROVE  buffer' \in Seq(1 .. MaxPush) /\ Len(buffer') = Len(buffer) + 1 /\ Q!Conserved'
<1>1. pushed + 1 \in 1 .. MaxPush /\ pushed \in Nat /\ MaxPush \in Nat
  BY ProcessAssumption DEF Q!TypeOK, Q!PoolQueueAssumption
<1>2. taken \o buffer' = Append(taken \o buffer, pushed + 1)
  BY <1>1, AppendMoves DEF Q!TypeOK
<1>3. Append(taken \o buffer, pushed + 1) = [n \in 1 .. pushed + 1 |-> n]
  <2> DEFINE s == taken \o buffer
  <2>1. s \in Seq(1 .. MaxPush) /\ s = [n \in 1 .. pushed |-> n] /\ Len(s) = pushed
    BY <1>1, ConcatProperties, LenProperties DEF Q!TypeOK, Q!Conserved
  <2> DEFINE u == Append(s, pushed + 1)
  <2>2. /\ u \in Seq(1 .. MaxPush) /\ Len(u) = Len(s) + 1 /\ u[Len(s) + 1] = pushed + 1
        /\ \A i \in 1 .. Len(s) : u[i] = s[i]
    BY <1>1, <2>1, Appended
  <2>3. u \in [1 .. Len(u) -> 1 .. MaxPush]
    BY <2>2, LenProperties
  <2> HIDE DEF u, s
  <2>4. \A i \in 1 .. pushed + 1 : u[i] = i
    BY <1>1, <2>1, <2>2
  <2>5. u = [n \in 1 .. pushed + 1 |-> n]
    BY <1>1, <2>1, <2>2, <2>3, <2>4
  <2>. QED BY <2>5 DEF u, s
<1>. QED BY <1>1, <1>2, <1>3, Appended DEF Q!TypeOK, Q!Conserved

\* Peek and Remove move the oldest item from the buffer to what was returned.
LEMMA TakeConserved ==
    ASSUME Q!TypeOK, Q!Conserved, buffer # <<>>, Q!TakeHead, pushed' = pushed
    PROVE  /\ buffer' \in Seq(1 .. MaxPush) /\ taken' \in Seq(1 .. MaxPush)
           /\ Len(buffer) \in Nat /\ Len(buffer') = Len(buffer) - 1
           /\ Q!Conserved'
<1>1. buffer \in Seq(1 .. MaxPush) /\ taken \in Seq(1 .. MaxPush)
  BY DEF Q!TypeOK
<1>2. buffer' = Tail(buffer) /\ taken' = Append(taken, Head(buffer))
  BY DEF Q!TakeHead
<1>3. /\ Head(buffer) \in 1 .. MaxPush /\ Len(buffer) \in Nat
      /\ buffer' \in Seq(1 .. MaxPush) /\ Len(buffer') = Len(buffer) - 1
  BY <1>1, <1>2, Tailed
<1>4. taken' \in Seq(1 .. MaxPush)
  BY <1>1, <1>2, <1>3, Appended
<1>5. taken' \o buffer' = taken \o buffer
  BY <1>1, <1>2, HeadMoves
<1>. QED BY <1>3, <1>4, <1>5 DEF Q!Conserved

LEMMA PushQInv == ASSUME QInv, Q!Push PROVE QInv'
<1> USE DEF QInv
<1>1. buffer' \in Seq(1 .. MaxPush) /\ Len(buffer') = Len(buffer) + 1 /\ Q!Conserved'
  BY PushConserved DEF Q!Push
<1>2. pushed' \in 0 .. MaxPush /\ taken' = taken /\ queueClosed' = queueClosed /\ ~queueClosed
  BY ProcessAssumption DEF Q!Push, Q!TypeOK, Q!PoolQueueAssumption
<1>3. CASE sleepers = <<>>
  <2>1. UNCHANGED <<sleepers, popper, woken>>
    BY <1>3 DEF Q!Push, Q!Signal
  <2>. QED BY <1>1, <1>2, <1>3, <2>1 DEF Q!TypeOK, Notified, Q!NoLostWakeup
<1>4. CASE sleepers # <<>>
  <2> DEFINE h == Head(sleepers)
  <2>1. /\ sleepers' = Tail(sleepers) /\ woken' = woken \cup {h}
        /\ popper' = [popper EXCEPT ![h] = "pop"]
    BY <1>4 DEF Q!Push, Q!Signal
  <2>2. /\ h \in Consumers /\ h = sleepers[1] /\ Len(sleepers) \in Nat \ {0}
        /\ sleepers' \in Seq(Consumers) /\ Len(sleepers') = Len(sleepers) - 1
        /\ \A i \in 1 .. Len(sleepers') : sleepers'[i] = sleepers[i + 1]
    BY <1>4, <2>1, Tailed DEF Q!TypeOK
  <2>3. popper[h] = "asleep" /\ h \notin woken
    BY <2>2 DEF Notified
  <2>4. Q!TypeOK'
    BY <1>1, <1>2, <2>1, <2>2 DEF Q!TypeOK
  <2>5. Notified'
    <3>1. ASSUME NEW i \in 1 .. Len(sleepers') PROVE popper'[sleepers'[i]] = "asleep"
      <4>1. sleepers'[i] = sleepers[i + 1] /\ i + 1 \in 1 .. Len(sleepers) /\ 1 \in 1 .. Len(sleepers)
        BY <2>2
      <4>2. sleepers[i + 1] # h /\ popper[sleepers[i + 1]] = "asleep" /\ sleepers[i + 1] \in Consumers
        BY <4>1, <2>2, ElementOfSeq DEF Notified, Q!TypeOK
      <4>. QED BY <2>1, <4>1, <4>2 DEF Q!TypeOK
    <3>2. ASSUME NEW i \in 1 .. Len(sleepers'), NEW k \in 1 .. Len(sleepers'), sleepers'[i] = sleepers'[k]
          PROVE  i = k
      <4>1. sleepers[i + 1] = sleepers[k + 1] /\ i + 1 \in 1 .. Len(sleepers) /\ k + 1 \in 1 .. Len(sleepers)
        BY <2>2, <3>2
      <4>. QED BY <4>1 DEF Notified
    <3>3. \A c \in woken' : popper'[c] = "pop"
      BY <2>1, <2>2 DEF Notified, Q!TypeOK
    <3>. QED BY <3>1, <3>2, <3>3 DEF Notified
  <2>6. Q!NoLostWakeup'
    <3>1. Cardinality(woken') = Cardinality(woken) + 1 /\ Cardinality(woken) \in Nat
      BY <2>1, <2>3, WokenCount
    <3>2. buffer \in Seq(1 .. MaxPush) /\ Len(buffer) <= Cardinality(woken)
      BY <1>4, QCardinality DEF Q!NoLostWakeup, Q!TypeOK
    <3>3. Len(buffer) \in Nat
      BY <3>2, LenProperties
    <3>4. Len(buffer') <= Cardinality(woken')
      BY <1>1, <3>1, <3>2, <3>3
    <3>. QED BY <1>2, <3>4, QCardinality, Zenon DEF Q!NoLostWakeup
  <2>. QED BY <1>1, <2>4, <2>5, <2>6
<1>. QED BY <1>3, <1>4

LEMMA CloseQInv == ASSUME QInv, Q!Close PROVE QInv'
<1> USE DEF QInv
<1>1. UNCHANGED <<buffer, pushed, taken>> /\ queueClosed' = TRUE /\ sleepers' = <<>>
  BY DEF Q!Close, Q!Broadcast
<1>2. /\ woken' = woken \cup {c \in Consumers : popper[c] = "asleep"}
      /\ popper' = [c \in Consumers |-> IF popper[c] = "asleep" THEN "pop" ELSE popper[c]]
  BY DEF Q!Close, Q!Broadcast
<1>3. Q!TypeOK'
  BY <1>1, <1>2, EmptySeq DEF Q!TypeOK
<1>4. Notified' /\ Q!NoLostWakeup'
  BY <1>1, <1>2, EmptySeq DEF Q!TypeOK, Notified, Q!NoLostWakeup
<1>. QED BY <1>1, <1>3, <1>4 DEF Q!Conserved

\* The queue itself is not touched by a goroutine that begins, gives up or waits.
LEMMA IdleQInv ==
    ASSUME QInv, NEW c \in Consumers, Q!Pop(c) \/ Q!PopClosed(c) \/ Q!Wait(c) \/ Q!WaitDone(c)
    PROVE  QInv'
<1> USE DEF QInv
<1>1. UNCHANGED <<buffer, queueClosed, sleepers, pushed, taken>>
  BY DEF Q!Pop, Q!PopClosed, Q!Wait, Q!WaitDone
<1>2. /\ popper[c] # "asleep"
      /\ \E s \in {"idle", "pop", "wait"} : popper' = [popper EXCEPT ![c] = s]
      /\ woken' \subseteq woken
      /\ c \notin woken'
      /\ queueClosed \/ woken' = woken
  BY DEF Q!Pop, Q!PopClosed, Q!Wait, Q!WaitDone, Notified
<1>3. Q!TypeOK'
  BY <1>1, <1>2 DEF Q!TypeOK
<1>4. Notified'
  BY <1>1, <1>2, ElementOfSeq DEF Q!TypeOK, Notified
<1>5. Q!NoLostWakeup'
  BY <1>1, <1>2 DEF Q!NoLostWakeup
<1>. QED BY <1>1, <1>3, <1>4, <1>5 DEF Q!Conserved

LEMMA PopSleepsQInv == ASSUME QInv, NEW c \in Consumers, Q!PopSleeps(c) PROVE QInv'
<1> USE DEF QInv
<1>1. /\ UNCHANGED <<buffer, queueClosed, pushed, taken>> /\ popper[c] = "pop" /\ buffer = <<>>
      /\ ~queueClosed
      /\ sleepers' = Append(sleepers, c) /\ woken' = woken \ {c}
      /\ popper' = [popper EXCEPT ![c] = "asleep"]
  BY DEF Q!PopSleeps
<1>2. /\ sleepers' \in Seq(Consumers) /\ Len(sleepers') = Len(sleepers) + 1 /\ Len(sleepers) \in Nat
      /\ \A i \in 1 .. Len(sleepers) : sleepers'[i] = sleepers[i] /\ sleepers[i] \in Consumers
      /\ sleepers'[Len(sleepers) + 1] = c
  BY <1>1, Appended, LenProperties, ElementOfSeq DEF Q!TypeOK
<1>3. \A i \in 1 .. Len(sleepers) : sleepers[i] # c
  BY <1>1 DEF Notified
<1>4. Q!TypeOK'
  BY <1>1, <1>2 DEF Q!TypeOK
<1>5. Notified'
  <2>1. \A i \in 1 .. Len(sleepers') : popper'[sleepers'[i]] = "asleep"
    BY <1>1, <1>2, <1>3 DEF Notified, Q!TypeOK
  <2>2. \A i, k \in 1 .. Len(sleepers') : sleepers'[i] = sleepers'[k] => i = k
    BY <1>2, <1>3 DEF Notified
  <2>3. \A d \in woken' : popper'[d] = "pop"
    BY <1>1 DEF Notified, Q!TypeOK
  <2>. QED BY <2>1, <2>2, <2>3 DEF Notified
<1>6. Q!NoLostWakeup'
  <2>1. Len(buffer') = 0 /\ Cardinality(woken') \in Nat
    BY <1>1, EmptySeq, WokenCount
  <2>2. Len(buffer') <= Cardinality(woken')
    BY <2>1
  <2>. QED BY <1>1, <2>2, QCardinality, Zenon DEF Q!NoLostWakeup
<1>. QED BY <1>1, <1>4, <1>5, <1>6 DEF Q!Conserved

\* Pop and TryPop with an item: one item less, and at most one goroutine less.
LEMMA TakeQInv == ASSUME QInv, NEW c \in Consumers, Q!PopTakes(c) \/ Q!TryPop(c) PROVE QInv'
<1> USE DEF QInv
<1>1. /\ UNCHANGED <<queueClosed, sleepers, pushed>> /\ buffer # <<>> /\ Q!TakeHead
      /\ popper[c] # "asleep"
      /\ popper' = [popper EXCEPT ![c] = "idle"] /\ (woken' = woken \ {c})
  BY DEF Q!PopTakes, Q!TryPop, Q!TypeOK, Notified
<1>2. /\ buffer' \in Seq(1 .. MaxPush) /\ taken' \in Seq(1 .. MaxPush) /\ Q!Conserved'
      /\ Len(buffer) \in Nat /\ Len(buffer') = Len(buffer) - 1
  BY <1>1, TakeConserved
<1>3. Q!TypeOK'
  BY <1>1, <1>2 DEF Q!TypeOK
<1>4. Notified'
  BY <1>1, ElementOfSeq DEF Q!TypeOK, Notified
<1>5. Q!NoLostWakeup'
  <2>1. Cardinality(woken') >= Cardinality(woken) - 1 /\ Cardinality(woken') \in Nat /\ Cardinality(woken) \in Nat
    BY <1>1, WokenCount
  <2>2. ASSUME Len(buffer) <= Cardinality(woken) PROVE Len(buffer') <= Cardinality(woken')
    BY <1>2, <2>1, <2>2
  <2>. QED BY <1>1, <2>2, QCardinality, Zenon DEF Q!NoLostWakeup
<1>. QED BY <1>2, <1>3, <1>4, <1>5

\* The queue stays sound in each of its steps.
LEMMA QueueStep == ASSUME QInv, Q!Next PROVE QInv'
<1>1. CASE Q!Push
  BY <1>1, PushQInv
<1>2. CASE Q!Close
  BY <1>2, CloseQInv
<1>3. CASE Q!PushClosed
  BY <1>3 DEF Q!PushClosed, Q!vars, QInv, Q!TypeOK, Notified, Q!Conserved, Q!NoLostWakeup
<1>4. ASSUME NEW c \in Consumers, Q!PopSleeps(c) PROVE QInv'
  BY <1>4, PopSleepsQInv
<1>5. ASSUME NEW c \in Consumers, Q!PopTakes(c) \/ Q!TryPop(c) PROVE QInv'
  BY <1>5, TakeQInv
<1>6. ASSUME NEW c \in Consumers, Q!Pop(c) \/ Q!PopClosed(c) \/ Q!Wait(c) \/ Q!WaitDone(c) PROVE QInv'
  BY <1>6, IdleQInv
<1>. QED BY <1>1, <1>2, <1>3, <1>4, <1>5, <1>6 DEF Q!Next

LEMMA QueueRests == ASSUME QInv, UNCHANGED queueVars PROVE QInv'
  BY DEF queueVars, QInv, Q!TypeOK, Notified, Q!Conserved, Q!NoLostWakeup

\* pkg/pool/queue.go: whoever pushes, pops, waits and closes, in whatever order
\* they get the mutex, items come out once and in the order they went in, and
\* nobody sleeps in Pop while there are items that no released goroutine is on
\* its way to.
THEOREM QueueIsSound == AllSpec => []QueueSound
<1>1. QInv /\ [AllNext]_AllVars => QInv'
  <2> SUFFICES ASSUME QInv, [AllNext]_AllVars PROVE QInv'
    OBVIOUS
  <2>1. CASE scene = "queue" /\ Q!Next
    BY <2>1, QueueStep
  <2>2. CASE UNCHANGED queueVars
    BY <2>2, QueueRests
  <2>. QED BY <2>1, <2>2 DEF AllNext, AllVars, queueVars, ctxVars
<1>2. QInv => QueueSound
  BY DEF QInv, QueueSound
<1>. QED BY InitQInv, <1>1, <1>2, PTL DEF AllSpec

-----------------------------------------------------------------------------
(* The wait registry                                                       *)

\* Who refers to a channel: a goroutine that waits has one, of its own; an idle
\* Trigger has none.
Waiting ==
    /\ \A w \in Waiters : waiter[w] = "waiting" => ch[w] \in Chans /\ id[w] \in Ids
    /\ \A w, v \in Waiters : ch[w] = ch[v] /\ ch[w] # NoChan => w = v
    /\ \A t \in Triggers : at[t] = "idle" => tch[t] = NoChan

\* A channel in the map is open and empty, no Trigger has it, and it stands for
\* one id.
Registered ==
    \A i \in Ids : m[i] # NoChan =>
        /\ m[i] \notin chanClosed /\ buf[m[i]] = NoValue
        /\ \A t \in Triggers : tch[t] # m[i]
        /\ \A k \in Ids : m[k] = m[i] => k = i

WInv == W!TypeOK /\ Waiting /\ Registered /\ W!SendReady /\ W!RightAnswer /\ W!NoLostWaiter

LEMMA InitWInv == AllInit => WInv
  BY ProcessAssumption DEF AllInit, W!Init, WInv, W!TypeOK, Waiting, Registered, W!SendReady,
     W!RightAnswer, W!NoLostWaiter, W!WaitAssumption

\* make returns a channel that nobody refers to.
LEMMA RegisterWInv ==
    ASSUME WInv, NEW w \in Waiters, NEW i \in Ids, W!Register(w, i) PROVE WInv'
<1> USE ProcessAssumption DEF WInv, W!WaitAssumption
<1>1. PICK c \in Chans : /\ W!Fresh(c)
                         /\ m' = [m EXCEPT ![i] = c]
                         /\ buf' = [buf EXCEPT ![c] = NoValue]
                         /\ chanClosed' = chanClosed \ {c}
                         /\ ch' = [ch EXCEPT ![w] = c]
  BY DEF W!Register
<1>2. /\ waiter[w] = "idle" /\ m[i] = NoChan
      /\ id' = [id EXCEPT ![w] = i] /\ waiter' = [waiter EXCEPT ![w] = "waiting"]
      /\ UNCHANGED <<got, at, tid, tch>>
  BY DEF W!Register, W!triggerVars
<1>3. (\A k \in Ids : m[k] # c) /\ (\A v \in Waiters : ch[v] # c) /\ (\A t \in Triggers : tch[t] # c)
  BY <1>1 DEF W!Fresh
<1>4. W!TypeOK'
  BY <1>1, <1>2 DEF W!TypeOK
<1>5. Waiting'
  BY <1>1, <1>2, <1>3 DEF W!TypeOK, Waiting
<1>6. Registered'
  BY <1>1, <1>2, <1>3 DEF W!TypeOK, Registered
<1>7. W!SendReady'
  BY <1>1, <1>2, <1>3 DEF W!TypeOK, W!SendReady
<1>8. W!RightAnswer'
  BY <1>2 DEF W!TypeOK, W!RightAnswer
<1>9. W!NoLostWaiter'
  <2> SUFFICES ASSUME NEW v \in Waiters, waiter'[v] = "waiting"
               PROVE  \/ m'[id'[v]] = ch'[v]
                      \/ \E t \in Triggers : at'[t] = "send" /\ tch'[t] = ch'[v] /\ tid'[t] = id'[v]
                      \/ buf'[ch'[v]] = id'[v]
    BY DEF W!NoLostWaiter
  <2>1. CASE v = w
    BY <1>1, <1>2, <2>1 DEF W!TypeOK
  <2>2. CASE v # w
    BY <1>1, <1>2, <1>3, <2>2 DEF W!TypeOK, Waiting, W!NoLostWaiter
  <2>. QED BY <2>1, <2>2
<1>. QED BY <1>4, <1>5, <1>6, <1>7, <1>8, <1>9

\* The section of Trigger under the lock hands the channel over.
LEMMA TriggerTakesWInv ==
    ASSUME WInv, NEW t \in Triggers, NEW i \in Ids, W!TriggerTakes(t, i) PROVE WInv'
<1> USE ProcessAssumption DEF WInv, W!WaitAssumption
<1>1. /\ at[t] = "idle" /\ m[i] # NoChan
      /\ tid' = [tid EXCEPT ![t] = i] /\ tch' = [tch EXCEPT ![t] = m[i]]
      /\ m' = [m EXCEPT ![i] = NoChan] /\ at' = [at EXCEPT ![t] = "send"]
      /\ UNCHANGED <<buf, chanClosed, waiter, id, ch, got>>
  BY DEF W!TriggerTakes, W!waiterVars
<1>2. W!TypeOK'
  BY <1>1 DEF W!TypeOK
<1>3. Waiting'
  BY <1>1 DEF W!TypeOK, Waiting
<1>4. Registered'
  BY <1>1 DEF W!TypeOK, Registered
<1>5. W!SendReady'
  BY <1>1 DEF W!TypeOK, Waiting, Registered, W!SendReady
<1>6. W!RightAnswer' /\ W!NoLostWaiter'
  BY <1>1 DEF W!TypeOK, Waiting, W!RightAnswer, W!NoLostWaiter
<1>. QED BY <1>2, <1>3, <1>4, <1>5, <1>6

LEMMA TriggerSendWInv == ASSUME WInv, NEW t \in Triggers, W!TriggerSend(t) PROVE WInv'
<1> USE ProcessAssumption DEF WInv, W!WaitAssumption
<1>1. /\ at[t] = "send" /\ buf[tch[t]] = NoValue /\ tch[t] \in Chans /\ tid[t] \in Ids
      /\ buf' = [buf EXCEPT ![tch[t]] = tid[t]] /\ at' = [at EXCEPT ![t] = "close"]
      /\ UNCHANGED <<m, chanClosed, waiter, id, ch, got, tid, tch>>
  BY DEF W!TriggerSend, W!waiterVars, W!TypeOK
<1>2. W!TypeOK'
  BY <1>1 DEF W!TypeOK
<1>3. Waiting' /\ Registered'
  BY <1>1 DEF W!TypeOK, Waiting, Registered
<1>4. W!SendReady'
  BY <1>1 DEF W!TypeOK, W!SendReady
<1>5. W!RightAnswer' /\ W!NoLostWaiter'
  BY <1>1 DEF W!TypeOK, Waiting, W!RightAnswer, W!NoLostWaiter
<1>. QED BY <1>2, <1>3, <1>4, <1>5

LEMMA TriggerCloseWInv == ASSUME WInv, NEW t \in Triggers, W!TriggerClose(t) PROVE WInv'
<1> USE ProcessAssumption DEF WInv, W!WaitAssumption
<1>1. /\ at[t] = "close" /\ tch[t] \in Chans
      /\ chanClosed' = chanClosed \cup {tch[t]} /\ at' = [at EXCEPT ![t] = "idle"]
      /\ tid' = [tid EXCEPT ![t] = NoValue] /\ tch' = [tch EXCEPT ![t] = NoChan]
      /\ UNCHANGED <<m, buf, waiter, id, ch, got>>
  BY DEF W!TriggerClose, W!waiterVars, W!TypeOK
<1>2. W!TypeOK'
  BY <1>1 DEF W!TypeOK
<1>3. Waiting' /\ Registered'
  BY <1>1 DEF W!TypeOK, Waiting, Registered
<1>4. W!SendReady'
  BY <1>1 DEF W!TypeOK, W!SendReady
<1>5. W!RightAnswer' /\ W!NoLostWaiter'
  BY <1>1 DEF W!TypeOK, Waiting, W!RightAnswer, W!NoLostWaiter
<1>. QED BY <1>2, <1>3, <1>4, <1>5

\* The value is there, for neither a channel in the map nor one of a Trigger that
\* is still to send can be received from.
LEMMA ReceiveWInv == ASSUME WInv, NEW w \in Waiters, W!Receive(w) PROVE WInv'
<1> USE ProcessAssumption DEF WInv, W!WaitAssumption
<1>1. /\ waiter[w] = "waiting" /\ (buf[ch[w]] # NoValue \/ ch[w] \in chanClosed)
      /\ ch[w] \in Chans /\ id[w] \in Ids
      /\ got' = [got EXCEPT ![w] = buf[ch[w]]] /\ buf' = [buf EXCEPT ![ch[w]] = NoValue]
      /\ waiter' = [waiter EXCEPT ![w] = "done"]
      /\ UNCHANGED <<m, chanClosed, id, ch, at, tid, tch>>
  BY DEF W!Receive, W!triggerVars, W!TypeOK, Waiting
<1>2. W!TypeOK'
  BY <1>1 DEF W!TypeOK
<1>3. Waiting' /\ Registered'
  BY <1>1 DEF W!TypeOK, Waiting, Registered
<1>4. W!SendReady'
  BY <1>1 DEF W!TypeOK, W!SendReady
<1>5. buf[ch[w]] = id[w]
  BY <1>1 DEF W!TypeOK, Registered, W!SendReady, W!NoLostWaiter
<1>6. W!RightAnswer'
  BY <1>1, <1>5 DEF W!TypeOK, W!RightAnswer
<1>7. W!NoLostWaiter'
  BY <1>1 DEF W!TypeOK, Waiting, W!NoLostWaiter
<1>. QED BY <1>2, <1>3, <1>4, <1>6, <1>7

LEMMA LeaveWInv ==
    ASSUME WInv, NEW w \in Waiters, (\E i \in Ids : W!RegisterPanics(w, i)) \/ W!GoOn(w) PROVE WInv'
<1> USE ProcessAssumption DEF WInv, W!WaitAssumption
<1>1. UNCHANGED <<m, buf, chanClosed, at, tid, tch>>
  BY DEF W!RegisterPanics, W!GoOn, W!triggerVars
<1>2. \/ /\ waiter' = [waiter EXCEPT ![w] = "idle"] /\ id' = [id EXCEPT ![w] = NoValue]
         /\ ch' = [ch EXCEPT ![w] = NoChan] /\ got' = [got EXCEPT ![w] = NoValue]
      \/ waiter' = [waiter EXCEPT ![w] = "panicked"] /\ UNCHANGED <<id, ch, got>>
  BY DEF W!RegisterPanics, W!GoOn
<1>3. W!TypeOK'
  BY <1>1, <1>2 DEF W!TypeOK
<1>4. Waiting' /\ Registered'
  BY <1>1, <1>2 DEF W!TypeOK, Waiting, Registered
<1>5. W!SendReady' /\ W!RightAnswer' /\ W!NoLostWaiter'
  BY <1>1, <1>2 DEF W!TypeOK, W!SendReady, W!RightAnswer, W!NoLostWaiter
<1>. QED BY <1>3, <1>4, <1>5

\* pkg/wait/wait.go: a Trigger that has given the lock up neither blocks nor
\* panics, nobody receives another registration's answer or the zero value of a
\* closed channel, and nobody who waits is forgotten - for any number of
\* goroutines and ids, however the sections and sends interleave.
THEOREM AnswersAreSound == AllSpec => []AnswersSound
<1>1. WInv /\ [AllNext]_AllVars => WInv'
  <2> SUFFICES ASSUME WInv, [AllNext]_AllVars PROVE WInv'
    OBVIOUS
  <2>1. CASE W!Next
    BY <2>1, RegisterWInv, TriggerTakesWInv, TriggerSendWInv, TriggerCloseWInv, ReceiveWInv, LeaveWInv
       DEF W!Next
  <2>2. CASE UNCHANGED waitVars
    BY <2>2 DEF waitVars, WInv, W!TypeOK, Waiting, Registered, W!SendReady, W!RightAnswer, W!NoLostWaiter
  <2>. QED BY <2>1, <2>2 DEF AllNext, AllVars, waitVars
<1>2. WInv => AnswersSound
  BY DEF WInv, AnswersSound
<1>. QED BY InitWInv, <1>1, <1>2, PTL DEF AllSpec

-----------------------------------------------------------------------------
(* The dispatchers                                                         *)

In(x, s) == \E n \in DOMAIN s : s[n] = x
NoRepeats(s) == \A n, k \in DOMAIN s : s[n] = s[k] => n = k

\* What a sequence holds after Append, and that nothing is repeated in it.
LEMMA InAppend ==
    ASSUME NEW S, NEW s \in Seq(S), NEW e \in S
    PROVE  /\ \A x : In(x, Append(s, e)) <=> In(x, s) \/ x = e
           /\ NoRepeats(s) /\ ~In(e, s) => NoRepeats(Append(s, e))
<1> DEFINE u == Append(s, e)
<1>1. /\ Len(s) \in Nat /\ DOMAIN s = 1 .. Len(s)
      /\ u \in Seq(S) /\ Len(u) = Len(s) + 1 /\ u[Len(s) + 1] = e
      /\ \A i \in 1 .. Len(s) : u[i] = s[i]
  BY Appended, LenProperties
<1>2. DOMAIN u = 1 .. Len(s) + 1
  BY <1>1, LenProperties
<1> HIDE DEF u
<1>3. ASSUME NEW x PROVE In(x, u) <=> In(x, s) \/ x = e
  BY <1>1, <1>2 DEF In
<1>4. ASSUME NoRepeats(s), ~In(e, s) PROVE NoRepeats(u)
  BY <1>1, <1>2, <1>4 DEF In, NoRepeats
<1>. QED BY <1>3, <1>4 DEF u

\* What a sequence without repetitions holds after its head is removed.
LEMMA InTail ==
    ASSUME NEW S, NEW s \in Seq(S), s # <<>>, NoRepeats(s)
    PROVE  /\ \A x : In(x, Tail(s)) <=> In(x, s) /\ x # Head(s)
           /\ In(Head(s), s) /\ NoRepeats(Tail(s))
<1> DEFINE u == Tail(s)
<1>1. /\ Len(s) \in Nat \ {0} /\ u \in Seq(S) /\ Len(u) = Len(s) - 1
      /\ \A i \in 1 .. Len(u) : u[i] = s[i + 1]
      /\ Head(s) = s[1]
  BY Tailed
<1>2. DOMAIN s = 1 .. Len(s) /\ DOMAIN u = 1 .. Len(u)
  BY <1>1, LenProperties
<1> HIDE DEF u
<1>3. ASSUME NEW x PROVE In(x, u) <=> In(x, s) /\ x # Head(s)
  <2>1. ASSUME In(x, u) PROVE In(x, s) /\ x # Head(s)
    BY <1>1, <1>2, <2>1, SMTT(30) DEF In, NoRepeats
  <2>2. ASSUME In(x, s), x # Head(s) PROVE In(x, u)
    <3>1. PICK n \in 1 .. Len(s) : s[n] = x
      BY <1>2, <2>2 DEF In
    <3>2. n - 1 \in 1 .. Len(u) /\ s[(n - 1) + 1] = x
      BY <1>1, <2>2, <3>1
    <3>. QED BY <1>1, <1>2, <3>2 DEF In
  <2>. QED BY <2>1, <2>2
<1>4. In(Head(s), s)
  BY <1>1, <1>2 DEF In
<1>5. NoRepeats(u)
  BY <1>1, <1>2, SMTT(30) DEF NoRepeats
<1>. QED BY <1>3, <1>4, <1>5 DEF u

\* A job is queued at, and in the hand of, the pool it was sent to.
AtHome ==
    /\ \A p \in Pools : \A j \in Jobs : In(j, work[p]) => pool[j] = p
    /\ \A p \in Pools : inHand[p] # NoJob => pool[inHand[p]] = p

\* The job that sends another one is blocked while it is queued, and sends no
\* second one.
Senders ==
    \A j \in Jobs :
        /\ state[j] = "new" => sender[j] = NoJob
        /\ state[j] = "sending" /\ sender[j] # NoJob =>
              /\ state[sender[j]] = "blocked"
              /\ \A i \in Jobs : state[i] = "sending" /\ sender[i] = sender[j] => i = j

DInv == D!TypeOK /\ D!OnePlace /\ D!BlockedForReason /\ AtHome /\ Senders

LEMMA DFinite == ASSUME NEW S PROVE D!IsFiniteSet(S) <=> IsFiniteSet(S)
  BY DEF D!IsFiniteSet, IsFiniteSet
LEMMA DCardinality == ASSUME NEW S PROVE D!Cardinality(S) = Cardinality(S)
  BY DEF D!Cardinality, Cardinality

\* Any set of jobs can be counted.
LEMMA JobsCount ==
    ASSUME NEW S, S \subseteq Jobs
    PROVE  /\ IsFiniteSet(S) /\ Cardinality(S) \in Nat
           /\ \A R : R \subseteq S => Cardinality(R) <= Cardinality(S)
           /\ \A j : Cardinality(S \cup {j}) <= Cardinality(S) + 1
<1>1. IsFiniteSet(Jobs)
  BY ProcessAssumption, DFinite DEF D!DispatcherAssumption
<1>2. IsFiniteSet(S)
  BY <1>1, FS_Subset
<1>3. Cardinality(S) \in Nat
  BY <1>2, FS_CardinalityType
<1>. QED BY <1>2, <1>3, FS_Subset, FS_AddElement

\* OnePlace in terms of In and NoRepeats.
LEMMA Places ==
    D!OnePlace <=> \A j \in Jobs :
        /\ state[j] = "taken" <=> \E p \in Pools : inHand[p] = j
        /\ state[j] = "sending" <=> \E p \in Pools : In(j, work[p])
        /\ \A p \in Pools : NoRepeats(work[p])
  BY DEF D!OnePlace, In, NoRepeats

LEMMA InitDInv == AllInit => DInv
<1> SUFFICES ASSUME AllInit PROVE DInv
  OBVIOUS
<1>1. /\ state = [j \in Jobs |-> "new"] /\ pool \in [Jobs -> Pools]
      /\ sender = [j \in Jobs |-> NoJob] /\ work = [p \in Pools |-> <<>>]
      /\ inHand = [p \in Pools |-> NoJob]
  BY DEF AllInit, D!Init
<1>2. Size \in [Pools -> Nat \ {0}] /\ NoJob \notin Jobs
  BY ProcessAssumption DEF D!DispatcherAssumption
<1>3. D!TypeOK
  <2>1. ASSUME NEW p \in Pools PROVE D!Cardinality(D!Busy(p)) <= Size[p]
    <3>1. D!Busy(p) = {}
      BY <1>1 DEF D!Busy
    <3>2. Cardinality({}) = 0
      BY FS_EmptySet
    <3>. QED BY <1>2, <3>1, <3>2, DCardinality
  <2>2. <<>> \in Seq(Jobs)
    BY EmptySeq
  <2>. QED BY <1>1, <2>1, <2>2 DEF D!TypeOK
<1>4. DOMAIN <<>> = {}
  OBVIOUS
<1>5. D!OnePlace /\ AtHome
  BY <1>1, <1>2, <1>4 DEF D!OnePlace, AtHome, In
<1>6. D!BlockedForReason /\ Senders
  BY <1>1 DEF D!BlockedForReason, Senders
<1>. QED BY <1>3, <1>5, <1>6 DEF DInv

\* Work <- job: the job is queued at its pool, behind the others.
LEMMA Queues ==
    ASSUME DInv, NEW j \in Jobs, state[j] = "new", work' = [work EXCEPT ![pool[j]] = Append(@, j)]
    PROVE  /\ work' \in [Pools -> Seq(Jobs)]
           /\ \A q \in Pools : NoRepeats(work'[q])
           /\ \A q \in Pools, i \in Jobs : In(i, work'[q]) <=> In(i, work[q]) \/ (i = j /\ q = pool[j])
<1> DEFINE p == pool[j]
<1>1. p \in Pools /\ work \in [Pools -> Seq(Jobs)]
  BY DEF DInv, D!TypeOK
<1>2. (\A q \in Pools : NoRepeats(work[q])) /\ ~In(j, work[p])
  BY <1>1, Places DEF DInv
<1>3. /\ Append(work[p], j) \in Seq(Jobs) /\ NoRepeats(Append(work[p], j))
      /\ \A i : In(i, Append(work[p], j)) <=> In(i, work[p]) \/ i = j
  BY <1>1, <1>2, InAppend, Appended
<1>4. work' = [q \in Pools |-> IF q = p THEN Append(work[p], j) ELSE work[q]]
  BY <1>1
<1> HIDE DEF p
<1>5. \A q \in Pools : work'[q] = IF q = p THEN Append(work[p], j) ELSE work[q]
  BY <1>4
<1>6. \A q \in Pools : NoRepeats(work'[q])
  BY <1>1, <1>2, <1>3, <1>5
<1>7. ASSUME NEW q \in Pools, NEW i \in Jobs
      PROVE  In(i, work'[q]) <=> In(i, work[q]) \/ (i = j /\ q = p)
  BY <1>3, <1>5
<1>. QED BY <1>1, <1>3, <1>4, <1>6, <1>7 DEF p

\* The bound on the jobs of a pool is kept when no job is added to them.
LEMMA BusyKept ==
    ASSUME D!TypeOK, NEW p \in Pools, D!Busy(p)' \subseteq D!Busy(p)
    PROVE  D!Cardinality(D!Busy(p)') <= Size[p]
<1>1. D!Busy(p) \subseteq Jobs /\ D!Cardinality(D!Busy(p)) <= Size[p]
  BY DEF D!Busy, D!TypeOK
<1>2. /\ Cardinality(D!Busy(p)) \in Nat /\ IsFiniteSet(D!Busy(p)')
      /\ Cardinality(D!Busy(p)') <= Cardinality(D!Busy(p))
  BY <1>1, JobsCount, FS_Subset
<1>3. Cardinality(D!Busy(p)') \in Nat /\ Size[p] \in Nat
  BY <1>2, ProcessAssumption, FS_CardinalityType DEF D!DispatcherAssumption
<1>. QED BY <1>1, <1>2, <1>3, DCardinality

LEMMA SendDInv ==
    ASSUME DInv, NEW j \in Jobs, D!Send(j) \/ \E k \in Jobs : D!SendFrom(k, j)
    PROVE  DInv'
<1> USE ProcessAssumption DEF DInv, D!DispatcherAssumption
<1>1. /\ state[j] = "new" /\ UNCHANGED <<pool, inHand>>
      /\ work' = [work EXCEPT ![pool[j]] = Append(@, j)]
  BY DEF D!Send, D!SendFrom
<1>2. \/ state' = [state EXCEPT ![j] = "sending"] /\ sender' = sender
      \/ \E k \in Jobs : /\ state[k] = "running" /\ sender' = [sender EXCEPT ![j] = k]
                         /\ state' = [state EXCEPT ![j] = "sending", ![k] = "blocked"]
  BY DEF D!Send, D!SendFrom
<1>3. /\ work' \in [Pools -> Seq(Jobs)]
      /\ \A q \in Pools : NoRepeats(work'[q])
      /\ \A q \in Pools, i \in Jobs : In(i, work'[q]) <=> In(i, work[q]) \/ (i = j /\ q = pool[j])
  BY <1>1, Queues
<1>4. /\ state' \in [Jobs -> {"new", "sending", "taken", "running", "blocked", "done"}]
      /\ sender' \in [Jobs -> Jobs \cup {NoJob}] /\ pool[j] \in Pools
      /\ state'[j] = "sending"
      /\ \A i \in Jobs : i # j => state'[i] = state[i] \/ (state[i] = "running" /\ state'[i] = "blocked")
  BY <1>1, <1>2, ZenonT(30) DEF D!TypeOK
<1>5. D!TypeOK'
  <2>1. ASSUME NEW p \in Pools PROVE D!Cardinality(D!Busy(p)') <= Size[p]
    <3>1. D!Busy(p)' \subseteq D!Busy(p)
      BY <1>1, <1>4 DEF D!Busy
    <3>. QED BY <3>1, BusyKept
  <2>. QED BY <1>1, <1>3, <1>4, <2>1 DEF D!TypeOK
<1>6. D!OnePlace'
  <2>1. \A i \in Jobs : state'[i] = "taken" <=> \E p \in Pools : inHand'[p] = i
    BY <1>1, <1>4, Places
  <2>2. \A i \in Jobs : state'[i] = "sending" <=> \E p \in Pools : In(i, work'[p])
    BY <1>1, <1>3, <1>4, Places
  <2>. QED BY <1>3, <2>1, <2>2 DEF D!OnePlace, In, NoRepeats
<1>7. AtHome'
  BY <1>1, <1>3 DEF AtHome
<1>8. Senders' /\ D!BlockedForReason'
  <2>1. CASE state' = [state EXCEPT ![j] = "sending"] /\ sender' = sender
    BY <1>1, <2>1 DEF Senders, D!BlockedForReason, D!TypeOK
  <2>2. ASSUME NEW k \in Jobs, state[k] = "running", sender' = [sender EXCEPT ![j] = k],
               state' = [state EXCEPT ![j] = "sending", ![k] = "blocked"]
        PROVE  Senders' /\ D!BlockedForReason'
    <3>1. Senders'
      BY <1>1, <2>2 DEF Senders, D!TypeOK
    <3>2. D!BlockedForReason'
      BY <1>1, <2>2 DEF Senders, D!BlockedForReason, D!TypeOK
    <3>. QED BY <3>1, <3>2
  <2>. QED BY <1>2, <2>1, <2>2
<1>. QED BY <1>5, <1>6, <1>7, <1>8

\* The send completes: the job is in loopPop's hand, and its sender runs again.
LEMMA TakeDInv == ASSUME DInv, NEW p \in Pools, D!Take(p) PROVE DInv'
<1> USE ProcessAssumption DEF DInv, D!DispatcherAssumption
<1> DEFINE j == Head(work[p])
<1>1. /\ inHand[p] = NoJob /\ work[p] # <<>> /\ UNCHANGED <<pool, sender>>
      /\ inHand' = [inHand EXCEPT ![p] = j]
      /\ state' = [i \in Jobs |-> IF i = j THEN "taken"
                                  ELSE IF i = sender[j] THEN "running" ELSE state[i]]
      /\ work' = [work EXCEPT ![p] = Tail(@)]
  BY DEF D!Take
<1>2. work[p] \in Seq(Jobs) /\ NoRepeats(work[p]) /\ \A q \in Pools : NoRepeats(work[q])
  <2>1. j \in Jobs
    BY <1>1, Tailed DEF D!TypeOK
  <2>. QED BY <2>1, Places DEF D!TypeOK
<1>3. /\ j \in Jobs /\ Tail(work[p]) \in Seq(Jobs) /\ NoRepeats(Tail(work[p])) /\ In(j, work[p])
      /\ \A i : In(i, Tail(work[p])) <=> In(i, work[p]) /\ i # j
  BY <1>1, <1>2, InTail, Tailed
<1> HIDE DEF j
<1>4. state[j] = "sending" /\ pool[j] = p
  BY <1>3, Places DEF AtHome
<1>5. sender[j] # NoJob => state[sender[j]] = "blocked"
  BY <1>3, <1>4 DEF Senders
<1>6. \A q \in Pools : work'[q] = IF q = p THEN Tail(work[p]) ELSE work[q]
  BY <1>1 DEF D!TypeOK
<1>7. \A q \in Pools, i \in Jobs : In(i, work'[q]) <=> In(i, work[q]) /\ i # j
  BY <1>3, <1>4, <1>6 DEF AtHome
<1>8. \A i \in Jobs : \/ i = j /\ state'[i] = "taken"
                      \/ i # j /\ i = sender[j] /\ state[i] = "blocked" /\ state'[i] = "running"
                      \/ i # j /\ i # sender[j] /\ state'[i] = state[i]
  BY <1>1, <1>5
<1>9. D!TypeOK'
  <2>1. ASSUME NEW q \in Pools PROVE D!Cardinality(D!Busy(q)') <= Size[q]
    <3>1. D!Busy(q)' \subseteq D!Busy(q)
      BY <1>1, <1>8 DEF D!Busy
    <3>. QED BY <3>1, BusyKept
  <2>2. state' \in [Jobs -> {"new", "sending", "taken", "running", "blocked", "done"}]
    BY <1>1 DEF D!TypeOK
  <2>3. work' \in [Pools -> Seq(Jobs)] /\ inHand' \in [Pools -> Jobs \cup {NoJob}]
    BY <1>1, <1>3 DEF D!TypeOK
  <2>. QED BY <1>1, <2>1, <2>2, <2>3 DEF D!TypeOK
<1>10. D!OnePlace'
  <2>1. \A q \in Pools : NoRepeats(work'[q])
    BY <1>2, <1>3, <1>6
  <2>2. \A i \in Jobs : state'[i] = "taken" <=> \E q \in Pools : inHand'[q] = i
    BY <1>1, <1>3, <1>4, <1>8, Places DEF D!TypeOK
  <2>3. \A i \in Jobs : state'[i] = "sending" <=> \E q \in Pools : In(i, work'[q])
    BY <1>7, <1>8, Places
  <2>. QED BY <2>1, <2>2, <2>3 DEF D!OnePlace, In, NoRepeats
<1>11. AtHome'
  BY <1>1, <1>4, <1>7 DEF AtHome, D!TypeOK
<1>12. Senders'
  BY <1>1, <1>3, <1>4, <1>8 DEF Senders, D!TypeOK
<1>13. D!BlockedForReason'
  BY <1>1, <1>3, <1>8 DEF D!BlockedForReason
<1>. QED BY <1>9, <1>10, <1>11, <1>12, <1>13

\* A worker is free: the job in hand runs.
LEMMA SubmitDInv == ASSUME DInv, NEW p \in Pools, D!Submit(p) PROVE DInv'
<1> USE ProcessAssumption DEF DInv, D!DispatcherAssumption
<1> DEFINE j == inHand[p]
<1>1. /\ j # NoJob /\ D!Cardinality(D!Busy(p)) < Size[p] /\ UNCHANGED <<pool, sender, work>>
      /\ state' = [state EXCEPT ![j] = "running"] /\ inHand' = [inHand EXCEPT ![p] = NoJob]
  BY DEF D!Submit
<1>2. j \in Jobs /\ pool[j] = p
  BY <1>1 DEF D!TypeOK, AtHome
<1>3. state[j] = "taken"
  BY <1>2 DEF D!OnePlace
<1> HIDE DEF j
<1>4. D!TypeOK'
  <2>1. ASSUME NEW q \in Pools PROVE D!Cardinality(D!Busy(q)') <= Size[q]
    <3>1. CASE q # p
      <4>1. D!Busy(q)' \subseteq D!Busy(q)
        BY <1>1, <1>2, <3>1 DEF D!Busy, D!TypeOK
      <4>. QED BY <4>1, BusyKept
    <3>2. CASE q = p
      <4>1. D!Busy(p)' = D!Busy(p) \cup {j}
        BY <1>1, <1>2 DEF D!Busy, D!TypeOK
      <4>2. D!Busy(p) \subseteq Jobs /\ D!Busy(p)' \subseteq Jobs
        BY <1>2, <4>1 DEF D!Busy
      <4>3. /\ Cardinality(D!Busy(p)') <= Cardinality(D!Busy(p)) + 1
            /\ Cardinality(D!Busy(p)) \in Nat
        BY <4>1, <4>2, JobsCount
      <4>4. Cardinality(D!Busy(p)') \in Nat
        BY <4>2, JobsCount
      <4>5. Cardinality(D!Busy(p)) < Size[p] /\ Size[p] \in Nat
        BY <1>1, DCardinality
      <4>6. Cardinality(D!Busy(p)') <= Size[p]
        BY <4>3, <4>4, <4>5
      <4>. QED BY <3>2, <4>6, DCardinality
    <3>. QED BY <3>1, <3>2
  <2>. QED BY <1>1, <2>1 DEF D!TypeOK
<1>5. D!OnePlace'
  <2>1. \A i \in Jobs : state'[i] = "taken" <=> \E q \in Pools : inHand'[q] = i
    BY <1>1, <1>2, <1>3 DEF D!TypeOK, D!OnePlace, AtHome, j
  <2>2. \A i \in Jobs : state'[i] = "sending" <=> state[i] = "sending"
    BY <1>1, <1>2, <1>3 DEF D!TypeOK
  <2>. QED BY <1>1, <2>1, <2>2 DEF D!OnePlace
<1>6. AtHome'
  BY <1>1 DEF AtHome, D!TypeOK
<1>7. Senders' /\ D!BlockedForReason'
  BY <1>1, <1>2, <1>3 DEF Senders, D!BlockedForReason, D!TypeOK
<1>. QED BY <1>4, <1>5, <1>6, <1>7

LEMMA FinishDInv == ASSUME DInv, NEW j \in Jobs, D!Finish(j) PROVE DInv'
<1> USE ProcessAssumption DEF DInv, D!DispatcherAssumption
<1>1. /\ state[j] = "running" /\ state' = [state EXCEPT ![j] = "done"]
      /\ UNCHANGED <<pool, sender, work, inHand>>
  BY DEF D!Finish
<1>2. D!TypeOK'
  <2>1. ASSUME NEW p \in Pools PROVE D!Cardinality(D!Busy(p)') <= Size[p]
    <3>1. D!Busy(p)' \subseteq D!Busy(p)
      BY <1>1 DEF D!Busy, D!TypeOK
    <3>. QED BY <3>1, BusyKept
  <2>. QED BY <1>1, <2>1 DEF D!TypeOK
<1>3. \A i \in Jobs : \A s \in {"taken", "sending", "new", "blocked"} : state'[i] = s <=> state[i] = s
  BY <1>1 DEF D!TypeOK
<1>4. D!OnePlace' /\ AtHome'
  BY <1>1, <1>3 DEF D!OnePlace, AtHome
<1>5. Senders' /\ D!BlockedForReason'
  BY <1>1, <1>3 DEF Senders, D!BlockedForReason, D!TypeOK
<1>. QED BY <1>2, <1>4, <1>5

\* pkg/pool/dispatcher.go: for any pools, sizes and jobs, and although running
\* jobs send jobs themselves, a job is in one place at a time, no pool runs more
\* jobs than it has workers, and a job blocked in a send waits for a collector
\* that is still to take it.
THEOREM JobsAreSound == AllSpec => []JobsSound
<1>1. DInv /\ [AllNext]_AllVars => DInv'
  <2> SUFFICES ASSUME DInv, [AllNext]_AllVars PROVE DInv'
    OBVIOUS
  <2>1. CASE D!Next
    BY <2>1, SendDInv, TakeDInv, SubmitDInv, FinishDInv DEF D!Next
  <2>2. CASE UNCHANGED dispatchVars
    <3> USE <2>2 DEF dispatchVars, DInv
    <3>1. \A p \in Pools : D!Busy(p)' = D!Busy(p)
      BY DEF D!Busy
    <3>2. D!TypeOK'
      BY <3>1 DEF D!TypeOK
    <3>3. D!OnePlace' /\ D!BlockedForReason' /\ AtHome' /\ Senders'
      BY DEF D!OnePlace, D!BlockedForReason, AtHome, Senders, In
    <3>. QED BY <3>2, <3>3
  <2>. QED BY <2>1, <2>2 DEF AllNext, AllVars, dispatchVars
<1>2. DInv => JobsSound
  BY DEF DInv, JobsSound
<1>. QED BY InitDInv, <1>1, <1>2, PTL DEF AllSpec

-----------------------------------------------------------------------------
(* What goroutines share                                                   *)

\* redisOnce: nobody is past it before the function has run to its end or has
\* panicked, one goroutine runs it, and everybody past it has what it left.
OnceInv ==
    /\ tlsOK \in BOOLEAN /\ once \in {"new", "running", "done"}
    /\ opener \in [Routines -> {"idle", "in", "has", "panicked"}]
    /\ cacheOf \in [Routines -> Nat]
    /\ once = "new" => \A r \in Routines : opener[r] # "in"
    /\ once # "done" => opened = 0 /\ redisCache = 0 /\ \A r \in Routines : opener[r] # "has"
    /\ once = "done" => \/ opened = 1 /\ redisCache = 1
                        \/ opened = 0 /\ redisCache = 0 /\ ~tlsOK /\ \E p \in Routines : opener[p] = "panicked"
    /\ \A r \in Routines : opener[r] = "in" =>
          once = "running" /\ \A p \in Routines : opener[p] = "in" => p = r
    /\ \A r \in Routines : opener[r] = "has" => cacheOf[r] = redisCache

\* A goroutine in NotifyMessagesListeners has called a part of its copy, in order.
ListenInv ==
    /\ listeners \in Seq(Listeners) /\ notifying \subseteq Routines
    /\ copied \in [Routines -> Seq(Listeners)] /\ called \in [Routines -> Seq(Listeners)]
    /\ \A r \in Routines :
          /\ Len(called[r]) <= Len(copied[r])
          /\ \A i \in 1 .. Len(called[r]) : called[r][i] = copied[r][i]
          /\ r \notin notifying => called[r] = copied[r]

PoolInv ==
    /\ held \in [Routines -> Seq(Contexts)]
    /\ serves \in [Contexts -> Routines \cup {"none"}]
    /\ free \subseteq Contexts
    /\ C!OwnContext

LEMMA InitContext == AllInit => OnceInv /\ ListenInv /\ PoolInv
<1> SUFFICES ASSUME AllInit PROVE OnceInv /\ ListenInv /\ PoolInv
  OBVIOUS
<1> USE DEF AllInit, C!Init
<1>1. OnceInv
  BY DEF OnceInv
<1>2. <<>> \in Seq(Listeners) /\ <<>> \in Seq(Contexts) /\ Len(<<>>) = 0 /\ DOMAIN <<>> = {}
  BY EmptySeq
<1>3. ListenInv
  BY <1>2 DEF ListenInv
<1>4. PoolInv
  BY <1>2 DEF PoolInv, C!OwnContext
<1>. QED BY <1>1, <1>3, <1>4

\* The three parts have no variable in common.
LEMMA ContextParts ==
    /\ C!OnceNext => UNCHANGED <<listeners, copied, called, notifying, free, serves, held>>
    /\ C!ListenNext => UNCHANGED <<tlsOK, once, redisCache, opened, opener, cacheOf, free, serves, held>>
    /\ C!PoolNext => UNCHANGED <<tlsOK, once, redisCache, opened, opener, cacheOf,
                                 listeners, copied, called, notifying>>
<1> USE DEF C!onceVars, C!listenVars, C!poolVars
<1>1. ASSUME C!OnceNext PROVE UNCHANGED <<listeners, copied, called, notifying, free, serves, held>>
  BY <1>1 DEF C!OnceNext, C!NewRedisCache, C!OnceRuns, C!OncePanics
<1>2. ASSUME C!ListenNext
      PROVE  UNCHANGED <<tlsOK, once, redisCache, opened, opener, cacheOf, free, serves, held>>
  BY <1>2 DEF C!ListenNext, C!AddMessagesListener, C!NotifyMessagesListeners, C!CallListener, C!NotifyReturns
<1>3. ASSUME C!PoolNext
      PROVE  UNCHANGED <<tlsOK, once, redisCache, opened, opener, cacheOf,
                         listeners, copied, called, notifying>>
  BY <1>3 DEF C!PoolNext, C!WKHttpHandler, C!HandlerReturns
<1>. QED BY <1>1, <1>2, <1>3

LEMMA OnceStep == ASSUME OnceInv, C!OnceNext PROVE OnceInv'
<1>1. ASSUME NEW r \in Routines, C!NewRedisCache(r) PROVE OnceInv'
  <2>1. CASE once = "new"
    BY <1>1, <2>1 DEF C!NewRedisCache, OnceInv
  <2>2. CASE once = "done"
    <3>1. /\ UNCHANGED <<tlsOK, once, redisCache, opened>> /\ opener[r] = "idle"
          /\ opener' = [opener EXCEPT ![r] = "has"]
          /\ cacheOf' = [cacheOf EXCEPT ![r] = redisCache]
      BY <1>1, <2>2 DEF C!NewRedisCache
    <3>2. PICK n \in Nat : redisCache = n /\ opened = n
      BY <2>2 DEF OnceInv
    <3>. QED BY <3>1, <3>2, <2>2 DEF OnceInv
  <2>. QED BY <1>1, <2>1, <2>2 DEF C!NewRedisCache
<1>2. ASSUME NEW r \in Routines, C!OnceRuns(r) PROVE OnceInv'
  BY <1>2 DEF C!OnceRuns, OnceInv
<1>3. ASSUME NEW r \in Routines, C!OncePanics(r) PROVE OnceInv'
  BY <1>3 DEF C!OncePanics, OnceInv
<1>. QED BY <1>1, <1>2, <1>3 DEF C!OnceNext

LEMMA ListenStep == ASSUME ListenInv, C!ListenNext PROVE ListenInv'
<1>1. ASSUME NEW l \in Listeners, C!AddMessagesListener(l) PROVE ListenInv'
  <2>1. listeners' \in Seq(Listeners)
    BY <1>1, Appended DEF C!AddMessagesListener, ListenInv
  <2>. QED BY <1>1, <2>1 DEF C!AddMessagesListener, ListenInv
<1>2. ASSUME NEW r \in Routines, C!NotifyMessagesListeners(r) PROVE ListenInv'
  <2>1. <<>> \in Seq(Listeners) /\ Len(<<>>) = 0 /\ Len(listeners) \in Nat
    BY EmptySeq, LenProperties DEF ListenInv
  <2>. QED BY <1>2, <2>1 DEF C!NotifyMessagesListeners, ListenInv
<1>3. ASSUME NEW r \in Routines, C!CallListener(r) PROVE ListenInv'
  <2> DEFINE s == called[r]
             u == copied[r]
  <2>1. /\ r \in notifying /\ Len(s) < Len(u) /\ UNCHANGED <<listeners, copied, notifying>>
        /\ called' = [called EXCEPT ![r] = Append(s, u[Len(s) + 1])]
    BY <1>3 DEF C!CallListener
  <2>2. s \in Seq(Listeners) /\ u \in Seq(Listeners) /\ \A i \in 1 .. Len(s) : s[i] = u[i]
    BY DEF ListenInv
  <2>3. Len(s) \in Nat /\ Len(u) \in Nat
    BY <2>2, LenProperties
  <2>4. u[Len(s) + 1] \in Listeners
    BY <2>1, <2>2, <2>3, ElementOfSeq
  <2>5. /\ called'[r] \in Seq(Listeners) /\ Len(called'[r]) = Len(s) + 1
        /\ \A i \in 1 .. Len(s) : called'[r][i] = s[i]
        /\ called'[r][Len(s) + 1] = u[Len(s) + 1]
    <3>1. called'[r] = Append(s, u[Len(s) + 1])
      BY <2>1 DEF ListenInv
    <3>. QED BY <3>1, <2>2, <2>4, Appended
  <2>6. Len(called'[r]) <= Len(u) /\ \A i \in 1 .. Len(called'[r]) : called'[r][i] = u[i]
    BY <2>1, <2>2, <2>3, <2>5
  <2>7. called' \in [Routines -> Seq(Listeners)] /\ \A p \in Routines : p # r => called'[p] = called[p]
    BY <2>1, <2>5 DEF ListenInv
  <2>. QED BY <2>1, <2>6, <2>7 DEF ListenInv
<1>4. ASSUME NEW r \in Routines, C!NotifyReturns(r) PROVE ListenInv'
  <2>1. r \in notifying /\ Len(called[r]) >= Len(copied[r]) /\ notifying' = notifying \ {r}
        /\ UNCHANGED <<listeners, copied, called>>
    BY <1>4 DEF C!NotifyReturns
  <2>2. called[r] \in Seq(Listeners) /\ copied[r] \in Seq(Listeners)
    BY DEF ListenInv
  <2>3. Len(called[r]) = Len(copied[r])
    BY <2>1, <2>2, LenProperties DEF ListenInv
  <2>4. called[r] = copied[r]
    BY <2>2, <2>3, SeqEqual DEF ListenInv
  <2>. QED BY <2>1, <2>4 DEF ListenInv
<1>. QED BY <1>1, <1>2, <1>3, <1>4 DEF C!ListenNext

LEMMA PoolStep == ASSUME PoolInv, C!PoolNext PROVE PoolInv'
<1>1. ASSUME NEW r \in Routines, C!WKHttpHandler(r) PROVE PoolInv'
  <2>1. PICK c \in free : /\ free' = free \ {c} /\ serves' = [serves EXCEPT ![c] = r]
                          /\ held' = [held EXCEPT ![r] = Append(@, c)]
    BY <1>1 DEF C!WKHttpHandler
  <2> DEFINE s == held[r]
  <2>2. c \in Contexts /\ s \in Seq(Contexts)
    BY DEF PoolInv
  <2>3. /\ held'[r] \in Seq(Contexts) /\ Len(held'[r]) = Len(s) + 1 /\ held'[r][Len(s) + 1] = c
        /\ \A i \in 1 .. Len(s) : held'[r][i] = s[i]
    <3>1. held'[r] = Append(s, c)
      BY <2>1 DEF PoolInv
    <3>. QED BY <3>1, <2>2, Appended
  <2>4. Len(s) \in Nat /\ DOMAIN s = 1 .. Len(s) /\ DOMAIN held'[r] = 1 .. Len(s) + 1
    BY <2>2, <2>3, LenProperties
  <2>5. /\ held' \in [Routines -> Seq(Contexts)] /\ \A p \in Routines : p # r => held'[p] = held[p]
        /\ serves' \in [Contexts -> Routines \cup {"none"}] /\ free' \subseteq Contexts
    BY <2>1, <2>2, <2>3 DEF PoolInv
  <2>6. \A p \in Routines : \A i \in DOMAIN held[p] : held[p][i] # c /\ held[p][i] \in Contexts
    <3> SUFFICES ASSUME NEW p \in Routines, NEW i \in DOMAIN held[p]
                 PROVE  held[p][i] # c /\ held[p][i] \in Contexts
      OBVIOUS
    <3>1. held[p] \in Seq(Contexts) /\ held[p][i] \notin free
      BY DEF PoolInv, C!OwnContext
    <3>. QED BY <3>1, LenProperties, ElementOfSeq
  <2>7. \A p \in Routines : \A i \in DOMAIN held'[p] :
            \/ i \in DOMAIN held[p] /\ held'[p][i] = held[p][i]
            \/ p = r /\ i = Len(s) + 1 /\ held'[p][i] = c
    BY <2>3, <2>4, <2>5
  <2>8. C!OwnContext'
    <3> SUFFICES ASSUME NEW p \in Routines, NEW i \in DOMAIN held'[p]
                 PROVE  /\ serves'[held'[p][i]] = p /\ held'[p][i] \notin free'
                        /\ \A q \in Routines : \A j \in DOMAIN held'[q] :
                              held'[q][j] = held'[p][i] => q = p /\ j = i
      BY DEF C!OwnContext
    <3>1. serves'[held'[p][i]] = p /\ held'[p][i] \notin free'
      BY <2>1, <2>2, <2>6, <2>7 DEF C!OwnContext, PoolInv
    <3>2. ASSUME NEW q \in Routines, NEW j \in DOMAIN held'[q], held'[q][j] = held'[p][i]
          PROVE  q = p /\ j = i
      <4>1. CASE i \in DOMAIN held[p] /\ held'[p][i] = held[p][i]
        <5>1. held[p][i] # c
          BY <4>1, <2>6
        <5>2. j \in DOMAIN held[q] /\ held[q][j] = held[p][i]
          BY <4>1, <5>1, <3>2, <2>7
        <5>. QED BY <4>1, <5>2 DEF C!OwnContext, PoolInv
      <4>2. CASE p = r /\ i = Len(s) + 1 /\ held'[p][i] = c
        BY <4>2, <3>2, <2>6, <2>7
      <4>. QED BY <4>1, <4>2, <2>7
    <3>. QED BY <3>1, <3>2
  <2>. QED BY <2>5, <2>8 DEF PoolInv
<1>2. ASSUME NEW r \in Routines, C!HandlerReturns(r) PROVE PoolInv'
  <2> DEFINE s == held[r]
  <2>1. s \in Seq(Contexts) /\ s # <<>> /\ serves' = serves
    BY <1>2 DEF C!HandlerReturns, PoolInv
  <2>2. Len(s) \in Nat \ {0} /\ DOMAIN s = 1 .. Len(s) /\ \A i \in 1 .. Len(s) : s[i] \in Contexts
    BY <2>1, EmptySeq, LenProperties
  <2>3. free' = free \cup {s[Len(s)]} /\ held' = [held EXCEPT ![r] = SubSeq(s, 1, Len(s) - 1)]
    BY <1>2 DEF C!HandlerReturns, C!Last, C!Front
  <2>4. /\ SubSeq(s, 1, Len(s) - 1) \in Seq(Contexts)
        /\ Len(SubSeq(s, 1, Len(s) - 1)) = Len(s) - 1
        /\ \A i \in 1 .. Len(s) - 1 : SubSeq(s, 1, Len(s) - 1)[i] = s[i]
    BY <2>2, SubSeqProperties
  <2>5. held'[r] = SubSeq(s, 1, Len(s) - 1) /\ DOMAIN held'[r] = 1 .. Len(s) - 1
    BY <2>2, <2>3, <2>4, LenProperties DEF PoolInv
  <2>6. /\ held' \in [Routines -> Seq(Contexts)] /\ \A p \in Routines : p # r => held'[p] = held[p]
        /\ free' \subseteq Contexts
    BY <2>2, <2>3, <2>4 DEF PoolInv
  <2>7. \A p \in Routines : \A i \in DOMAIN held'[p] :
            i \in DOMAIN held[p] /\ held'[p][i] = held[p][i] /\ ~(p = r /\ i = Len(s))
    BY <2>2, <2>4, <2>5, <2>6, SMTT(30)
  <2>8. Len(s) \in DOMAIN s
    BY <2>2
  <2>9. C!OwnContext'
    <3> SUFFICES ASSUME NEW p \in Routines, NEW i \in DOMAIN held'[p]
                 PROVE  /\ serves'[held'[p][i]] = p /\ held'[p][i] \notin free'
                        /\ \A q \in Routines : \A j \in DOMAIN held'[q] :
                              held'[q][j] = held'[p][i] => q = p /\ j = i
      BY DEF C!OwnContext
    <3>1. serves'[held'[p][i]] = p
      BY <2>1, <2>7 DEF C!OwnContext, PoolInv
    <3>2. held'[p][i] \notin free'
      BY <2>3, <2>7, <2>8 DEF C!OwnContext, PoolInv
    <3>3. ASSUME NEW q \in Routines, NEW j \in DOMAIN held'[q], held'[q][j] = held'[p][i]
          PROVE  q = p /\ j = i
      BY <3>3, <2>7 DEF C!OwnContext, PoolInv
    <3>. QED BY <3>1, <3>2, <3>3
  <2>. QED BY <2>1, <2>6, <2>9 DEF PoolInv
<1>. QED BY <1>1, <1>2 DEF C!PoolNext

\* A part of the copy, in order, is a prefix of it.
LEMMA CalledIsPrefix == ListenInv => C!NotifiedOnce
<1> SUFFICES ASSUME ListenInv, NEW r \in Routines PROVE C!IsPrefix(called[r], copied[r])
  BY DEF C!NotifiedOnce, ListenInv
<1> DEFINE s == called[r]
           u == copied[r]
           n == Len(s)
<1>1. s \in Seq(Listeners) /\ u \in Seq(Listeners) /\ n <= Len(u) /\ \A i \in 1 .. n : s[i] = u[i]
  BY DEF ListenInv
<1>2. n \in Nat /\ Len(u) \in Nat
  BY <1>1, LenProperties
<1>3. (\A i \in 1 .. n : s[i] \in Listeners) /\ (\A i \in 1 .. n : u[i] \in Listeners)
  BY <1>1, <1>2, ElementOfSeq
<1> HIDE DEF s, u, n
<1>4. /\ SubSeq(s, 1, n) \in Seq(Listeners) /\ SubSeq(u, 1, n) \in Seq(Listeners)
      /\ Len(SubSeq(s, 1, n)) = n /\ Len(SubSeq(u, 1, n)) = n
      /\ \A i \in 1 .. n : SubSeq(s, 1, n)[i] = s[i]
      /\ \A i \in 1 .. n : SubSeq(u, 1, n)[i] = u[i]
  BY <1>2, <1>3, SubSeqProperties
<1>5. SubSeq(s, 1, n) = SubSeq(u, 1, n)
  BY <1>1, <1>4, SeqEqual
<1>. QED BY <1>1, <1>5 DEF C!IsPrefix, s, u, n

\* config/context.go and pkg/wkhttp/http.go: for any number of goroutines,
\* listeners and pooled Contexts, the connection is opened once and everybody has
\* it (or opening it panicked), a notification calls the listeners there were
\* when it began, in order, and the Context of a running handler is its own.
THEOREM ContextIsSound == AllSpec => []ContextSound
<1> DEFINE CInv == OnceInv /\ ListenInv /\ PoolInv
<1>1. CInv /\ [AllNext]_AllVars => CInv'
  <2> SUFFICES ASSUME CInv, [AllNext]_AllVars PROVE CInv'
    OBVIOUS
  <2>1. ASSUME UNCHANGED <<tlsOK, once, redisCache, opened, opener, cacheOf>> PROVE OnceInv'
    BY <2>1 DEF OnceInv
  <2>2. ASSUME UNCHANGED <<listeners, copied, called, notifying>> PROVE ListenInv'
    BY <2>2 DEF ListenInv
  <2>3. ASSUME UNCHANGED <<free, serves, held>> PROVE PoolInv'
    BY <2>3 DEF PoolInv, C!OwnContext
  <2>4. CASE C!OnceNext
    BY <2>4, <2>2, <2>3, OnceStep, ContextParts
  <2>5. CASE C!ListenNext
    BY <2>5, <2>1, <2>3, ListenStep, ContextParts
  <2>6. CASE C!PoolNext
    BY <2>6, <2>1, <2>2, PoolStep, ContextParts
  <2>7. CASE UNCHANGED ctxVars
    BY <2>7, <2>1, <2>2, <2>3 DEF ctxVars
  <2>. QED BY <2>4, <2>5, <2>6, <2>7 DEF AllNext, AllVars, ctxVars
<1>2. CInv => ContextSound
  <2>1. OnceInv => C!OneConnection
    BY DEF OnceInv, C!OneConnection
  <2>. QED BY <2>1, CalledIsPrefix DEF ContextSound, PoolInv
<1> HIDE DEF CInv
<1>3. AllInit => CInv
  BY InitContext DEF CInv
<1>. QED BY <1>1, <1>2, <1>3, PTL DEF AllSpec

-----------------------------------------------------------------------------
(* The life of a server                                                    *)

\* Migrations there are left: one that a server does not plan is recorded, what is
\* recorded was executed, and nobody routes or serves before all are recorded.
Migrating ==
    /\ recorded \subseteq executed
    /\ \A s \in Servers : stage[s] \in {"migrate", "record"} => B!FindMigrations \ plan[s] \subseteq recorded
    /\ \A s \in Servers : stage[s] = "record" => plan[s] # {} /\ B!byID(plan[s]) \in executed
    /\ \A s \in Servers :
          \/ stage[s] \in {"route", "start", "running", "stop", "stopped"}
          \/ s \in listening \/ routes[s] # {}
          => B!FindMigrations \subseteq recorded

\* The loop of Stop has stopped the modules it has passed.
Stopping ==
    \A s \in Servers : stage[s] = "stop" => \A i \in 1 .. next[s] - 1 : i \in DOMAIN Modules => Modules[i] \in stopped[s]

BootTypes ==
    /\ stage \in [Servers -> {"off", "migrate", "record", "failed", "route", "start", "dead",
                              "running", "stop", "stopped"}]
    /\ plan \in [Servers -> SUBSET B!FindMigrations]
    /\ next \in [Servers -> Nat \ {0}]
    /\ routes \in [Servers -> SUBSET B!Range(Modules)]
    /\ started \in [Servers -> SUBSET B!Range(Modules)]
    /\ stopped \in [Servers -> SUBSET B!Range(Modules)]
    /\ listening \subseteq Servers

BInv == BootTypes /\ Migrating /\ Stopping /\ B!SchemaFirst /\ B!MigrationsInOrder /\ B!CleanStop

\* The first of some migrations in the order of their ids.
LEMMA FirstByID ==
    ASSUME NEW S, S \subseteq B!FindMigrations, S # {}
    PROVE  B!byID(S) \in S /\ \A g \in S : ~(g < B!byID(S))
<1>1. B!FindMigrations \subseteq Nat
  <2> SUFFICES ASSUME NEW f \in B!FindMigrations PROVE f \in Nat
    OBVIOUS
  <2>1. PICK mod \in B!Range(Modules) : f \in B!Range(Files[mod])
    BY DEF B!FindMigrations
  <2>2. PICK i \in DOMAIN Files[mod] : f = Files[mod][i]
    BY <2>1 DEF B!Range
  <2>3. Files[mod] \in Seq(Nat)
    BY ProcessAssumption DEF B!BootAssumption
  <2>. QED BY <2>2, <2>3, LenProperties, ElementOfSeq
<1>2. S \subseteq Nat
  BY <1>1
<1>3. \E f \in S : \A g \in S : ~(<<g, f>> \in OpToRel(<, Nat))
  BY <1>2, NatLessThanWellFounded, WFMin
<1>4. PICK f \in S : \A g \in S : ~(g < f)
  BY <1>2, <1>3 DEF OpToRel
<1>5. \A g \in S : f <= g
  BY <1>2, <1>4
<1>6. B!byID(S) \in S /\ \A g \in S : B!byID(S) <= g
  BY <1>5 DEF B!byID
<1>7. \A a, b \in S : a <= b => ~(b < a)
  BY <1>2
<1>. QED BY <1>6, <1>7

LEMMA InitBInv == AllInit => BInv
  BY DEF AllInit, B!Init, BInv, BootTypes, Migrating, Stopping, B!SchemaFirst, B!MigrationsInOrder, B!CleanStop

\* A server plans, executes or gives up: the record is left alone.
LEMMA PlanBInv ==
    ASSUME BInv, NEW s \in Servers, B!Setup(s) \/ B!Execute(s) \/ B!ExecuteFails(s) \/ B!Migrated(s)
    PROVE  BInv'
<1> USE DEF BInv, BootTypes, B!Become
<1>1. UNCHANGED <<routes, next, started, stopped, listening, recorded, served>>
  BY DEF B!Setup, B!Execute, B!ExecuteFails, B!Migrated
<1>2. B!SchemaFirst' /\ B!MigrationsInOrder'
  BY <1>1 DEF B!SchemaFirst, B!MigrationsInOrder
<1>3. CASE B!Setup(s)
  <2>1. BootTypes'
    BY <1>1, <1>3 DEF B!Setup
  <2>2. Migrating' /\ Stopping' /\ B!CleanStop'
    BY <1>1, <1>3 DEF B!Setup, Migrating, Stopping, B!CleanStop
  <2>. QED BY <1>2, <2>1, <2>2
<1>4. CASE B!Execute(s)
  <2>1. BootTypes'
    BY <1>1, <1>4 DEF B!Execute
  <2>2. Migrating' /\ Stopping' /\ B!CleanStop'
    BY <1>1, <1>4 DEF B!Execute, Migrating, Stopping, B!CleanStop
  <2>. QED BY <1>2, <2>1, <2>2
<1>5. CASE B!ExecuteFails(s)
  <2>1. BootTypes' /\ Migrating' /\ Stopping' /\ B!CleanStop'
    BY <1>1, <1>5 DEF B!ExecuteFails, Migrating, Stopping, B!CleanStop
  <2>. QED BY <1>2, <2>1
<1>6. CASE B!Migrated(s)
  <2>1. BootTypes' /\ Migrating' /\ Stopping' /\ B!CleanStop'
    BY <1>1, <1>6 DEF B!Migrated, Migrating, Stopping, B!CleanStop
  <2>. QED BY <1>2, <2>1
<1>. QED BY <1>3, <1>4, <1>5, <1>6

\* The id that is inserted is the first of those that the server has not seen
\* recorded, and smaller ones are recorded.
LEMMA RecordBInv == ASSUME BInv, NEW s \in Servers, B!Record(s) PROVE BInv'
<1> USE DEF BInv, BootTypes, B!Become
<1> DEFINE f == B!byID(plan[s])
<1>1. /\ stage[s] = "record"
      /\ UNCHANGED <<routes, next, started, stopped, listening, executed, served>>
  BY DEF B!Record
<1>2. B!SchemaFirst'
  BY <1>1 DEF B!SchemaFirst
<1>3. plan[s] # {} /\ plan[s] \subseteq B!FindMigrations /\ f \in executed
  BY <1>1 DEF Migrating
<1>4. f \in plan[s] /\ \A g \in plan[s] : ~(g < f)
  BY <1>3, FirstByID
<1>5. CASE f \in recorded
  <2>1. stage' = [stage EXCEPT ![s] = "failed"] /\ UNCHANGED <<plan, recorded>>
    BY <1>5 DEF B!Record
  <2>2. BootTypes' /\ Migrating' /\ Stopping' /\ B!CleanStop' /\ B!MigrationsInOrder'
    BY <1>1, <2>1 DEF Migrating, Stopping, B!CleanStop, B!MigrationsInOrder
  <2>. QED BY <1>2, <2>2
<1>6. CASE f \notin recorded
  <2>1. /\ stage' = [stage EXCEPT ![s] = "migrate"] /\ recorded' = recorded \cup {f}
        /\ plan' = [plan EXCEPT ![s] = @ \ {f}]
    BY <1>6 DEF B!Record
  <2> HIDE DEF f
  <2>2. BootTypes' /\ Stopping' /\ B!CleanStop'
    BY <1>1, <2>1 DEF Stopping, B!CleanStop
  <2>3. Migrating'
    BY <1>1, <1>3, <2>1 DEF Migrating
  <2>4. B!MigrationsInOrder'
    BY <1>1, <1>4, <2>1 DEF Migrating, B!MigrationsInOrder
  <2>. QED BY <1>2, <2>2, <2>3, <2>4
<1>. QED BY <1>5, <1>6

\* The process is gone: what it had in memory is, the database is not.
LEMMA OffBInv ==
    ASSUME BInv, NEW s \in Servers, B!runPanics(s) \/ B!StartFails(s) \/ B!Kill(s)
    PROVE  BInv'
<1> USE DEF BInv, BootTypes, B!Become, B!Off
<1>1. UNCHANGED <<executed, recorded, served>> /\ B!Off(s)
  BY DEF B!runPanics, B!StartFails, B!Kill
<1>2. PICK st \in {"off", "dead"} : stage' = [stage EXCEPT ![s] = st]
  BY DEF B!runPanics, B!StartFails, B!Kill
<1>3. BootTypes'
  BY <1>1, <1>2
<1>4. Migrating' /\ Stopping'
  BY <1>1, <1>2 DEF Migrating, Stopping
<1>5. B!SchemaFirst' /\ B!MigrationsInOrder' /\ B!CleanStop'
  BY <1>1, <1>2 DEF B!SchemaFirst, B!MigrationsInOrder, B!CleanStop
<1>. QED BY <1>3, <1>4, <1>5

\* Modules are routed, started and stopped one after the other.
LEMMA ModuleInRange ==
    ASSUME NEW i \in Nat \ {0}, i <= Len(Modules) PROVE Modules[i] \in B!Range(Modules) /\ i \in DOMAIN Modules
<1>1. Modules \in Seq(B!Range(Modules))
  BY ProcessAssumption DEF B!BootAssumption
<1>2. Len(Modules) \in Nat /\ DOMAIN Modules = 1 .. Len(Modules)
  BY <1>1, LenProperties
<1>. QED BY <1>2 DEF B!Range

LEMMA BCardinality == ASSUME NEW S PROVE B!Cardinality(S) = Cardinality(S)
  BY DEF B!Cardinality, Cardinality

\* The modules are finitely many, so those with routes can be counted.
LEMMA RoutesCount ==
    ASSUME NEW R, R \subseteq B!Range(Modules) PROVE B!Cardinality(R) \in Nat
<1>1. Modules \in Seq(B!Range(Modules))
  BY ProcessAssumption DEF B!BootAssumption
<1>2. DOMAIN Modules = 1 .. Len(Modules)
  BY <1>1, LenProperties
<1>3. IsFiniteSet(B!Range(Modules))
  BY <1>1, <1>2 DEF IsFiniteSet, B!Range
<1>. QED BY <1>3, FS_Subset, FS_CardinalityType, BCardinality

LEMMA RouteBInv == ASSUME BInv, NEW s \in Servers, B!Route(s) PROVE BInv'
<1> USE DEF BInv, BootTypes
<1> DEFINE n == B!Cardinality(routes[s]) + 1
<1>1. /\ stage[s] = "route" /\ B!Cardinality(routes[s]) < Len(Modules)
      /\ routes' = [routes EXCEPT ![s] = @ \cup {Modules[n]}]
      /\ UNCHANGED <<stage, plan, next, started, stopped, listening, executed, recorded, served>>
  BY DEF B!Route
<1>2. Modules[n] \in B!Range(Modules)
  <2>1. B!Cardinality(routes[s]) \in Nat
    BY RoutesCount
  <2>2. Len(Modules) \in Nat
    BY ProcessAssumption, LenProperties DEF B!BootAssumption
  <2>3. n \in Nat \ {0} /\ n <= Len(Modules)
    BY <1>1, <2>1, <2>2
  <2>. QED BY <2>3, ModuleInRange
<1> HIDE DEF n
<1>3. BootTypes' /\ Migrating'
  BY <1>1, <1>2 DEF Migrating
<1>4. Stopping' /\ B!SchemaFirst' /\ B!MigrationsInOrder' /\ B!CleanStop'
  BY <1>1 DEF Stopping, B!SchemaFirst, B!MigrationsInOrder, B!CleanStop
<1>. QED BY <1>3, <1>4

\* Start, the listener and the modules: all migrations are recorded by then.
LEMMA StartBInv ==
    ASSUME BInv, NEW s \in Servers, B!Start(s) \/ B!run(s) \/ B!StartModule(s) \/ B!Started(s)
    PROVE  BInv'
<1> USE DEF BInv, BootTypes, B!Become
<1>1. UNCHANGED <<plan, routes, stopped, executed, recorded, served>>
  BY DEF B!Start, B!run, B!StartModule, B!Started
<1>2. B!SchemaFirst' /\ B!MigrationsInOrder'
  BY <1>1 DEF B!SchemaFirst, B!MigrationsInOrder
<1>3. CASE B!Start(s) \/ B!Started(s)
  <2>1. /\ stage[s] \in {"route", "start"} /\ UNCHANGED <<next, started, listening>>
        /\ \E st \in {"start", "running"} : stage' = [stage EXCEPT ![s] = st]
    BY <1>3 DEF B!Start, B!Started
  <2>2. BootTypes' /\ Migrating' /\ Stopping' /\ B!CleanStop'
    BY <1>1, <2>1 DEF Migrating, Stopping, B!CleanStop
  <2>. QED BY <1>2, <2>2
<1>4. CASE B!run(s)
  <2>1. BootTypes' /\ Migrating' /\ Stopping' /\ B!CleanStop'
    BY <1>1, <1>4 DEF B!run, Migrating, Stopping, B!CleanStop
  <2>. QED BY <1>2, <2>1
<1>5. CASE B!StartModule(s)
  <2>1. /\ stage[s] = "start" /\ next[s] <= Len(Modules) /\ UNCHANGED <<stage, listening>>
        /\ started' = [started EXCEPT ![s] = @ \cup {Modules[next[s]]}]
        /\ next' = [next EXCEPT ![s] = @ + 1]
    BY <1>5 DEF B!StartModule
  <2>2. Modules[next[s]] \in B!Range(Modules)
    BY <2>1, ModuleInRange
  <2>3. BootTypes' /\ Migrating'
    BY <1>1, <2>1, <2>2 DEF Migrating
  <2>4. Stopping' /\ B!CleanStop'
    BY <1>1, <2>1 DEF Stopping, B!CleanStop
  <2>. QED BY <1>2, <2>3, <2>4
<1>. QED BY <1>3, <1>4, <1>5

\* A request meets the schema: all migrations are recorded, hence executed.
LEMMA ServeBInv == ASSUME BInv, NEW s \in Servers, NEW mod \in B!Range(Modules), B!Serve(s, mod) PROVE BInv'
<1> USE DEF BInv
<1>1. /\ mod \in routes[s]
      /\ served' = served \cup {[server |-> s, module |-> mod,
                                 schema |-> B!Range(Files[mod]) \subseteq executed]}
      /\ UNCHANGED <<stage, plan, routes, next, started, stopped, listening, executed, recorded>>
  BY DEF B!Serve
<1>2. B!FindMigrations \subseteq executed
  BY <1>1 DEF Migrating
<1>3. B!Range(Files[mod]) \subseteq executed
  BY <1>2 DEF B!FindMigrations
<1>4. B!SchemaFirst'
  <2> DEFINE q == [server |-> s, module |-> mod, schema |-> B!Range(Files[mod]) \subseteq executed]
  <2>1. q.schema = (B!Range(Files[mod]) \subseteq executed)
    BY Zenon
  <2>2. q.schema
    BY <1>3, <2>1, Zenon
  <2>3. served' = served \cup {q}
    BY <1>1
  <2> HIDE DEF q
  <2>. QED BY <2>2, <2>3, Zenon DEF B!SchemaFirst
<1>5. BootTypes' /\ Migrating' /\ Stopping' /\ B!MigrationsInOrder' /\ B!CleanStop'
  BY <1>1 DEF BootTypes, Migrating, Stopping, B!MigrationsInOrder, B!CleanStop
<1>. QED BY <1>4, <1>5

\* The loop of Stop reaches its end only when every module was stopped.
LEMMA StopBInv ==
    ASSUME BInv, NEW s \in Servers, B!Stop(s) \/ B!StopModule(s) \/ B!StopFails(s) \/ B!Stopped(s)
    PROVE  BInv'
<1> USE DEF BInv, BootTypes, B!Become
<1>1. UNCHANGED <<plan, routes, started, listening, executed, recorded, served>>
  BY DEF B!Stop, B!StopModule, B!StopFails, B!Stopped
<1>2. B!SchemaFirst' /\ B!MigrationsInOrder'
  BY <1>1 DEF B!SchemaFirst, B!MigrationsInOrder
<1>3. CASE B!Stop(s)
  <2>1. /\ stage[s] = "running" /\ stage' = [stage EXCEPT ![s] = "stop"]
        /\ next' = [next EXCEPT ![s] = 1] /\ stopped' = stopped
    BY <1>3 DEF B!Stop
  <2>2. BootTypes' /\ Migrating'
    BY <1>1, <2>1 DEF Migrating
  <2>3. Stopping' /\ B!CleanStop'
    BY <1>1, <2>1 DEF Stopping, B!CleanStop
  <2>. QED BY <1>2, <2>2, <2>3
<1>4. CASE B!StopModule(s)
  <2>1. /\ stage[s] = "stop" /\ next[s] <= Len(Modules) /\ stage' = stage
        /\ stopped' = [stopped EXCEPT ![s] = @ \cup {Modules[next[s]]}]
        /\ next' = [next EXCEPT ![s] = @ + 1]
    BY <1>4 DEF B!StopModule
  <2>2. Modules[next[s]] \in B!Range(Modules)
    BY <2>1, ModuleInRange
  <2>3. BootTypes' /\ Migrating' /\ B!CleanStop'
    BY <1>1, <2>1, <2>2 DEF Migrating, B!CleanStop
  <2>4. Stopping'
    BY <1>1, <2>1 DEF Stopping
  <2>. QED BY <1>2, <2>3, <2>4
<1>5. CASE B!Stopped(s)
  <2>1. /\ stage[s] = "stop" /\ next[s] > Len(Modules) /\ UNCHANGED <<next, stopped>>
        /\ stage' = [stage EXCEPT ![s] = "stopped"]
    BY <1>5 DEF B!Stopped
  <2>2. DOMAIN Modules = 1 .. Len(Modules) /\ Len(Modules) \in Nat
    BY ProcessAssumption, LenProperties DEF B!BootAssumption
  <2>3. B!Range(Modules) \subseteq stopped[s]
    BY <2>1, <2>2 DEF Stopping, B!Range
  <2>4. BootTypes' /\ Migrating' /\ Stopping'
    BY <1>1, <2>1 DEF Migrating, Stopping
  <2>5. B!CleanStop'
    BY <1>1, <2>1, <2>3 DEF B!CleanStop
  <2>. QED BY <1>2, <2>4, <2>5
<1>6. CASE B!StopFails(s)
  <2>1. stage' = [stage EXCEPT ![s] = "failed"] /\ UNCHANGED <<next, stopped>>
    BY <1>6 DEF B!StopFails
  <2>2. BootTypes' /\ Migrating'
    BY <1>1, <2>1 DEF Migrating
  <2>3. Stopping' /\ B!CleanStop'
    BY <1>1, <2>1 DEF Stopping, B!CleanStop
  <2>. QED BY <1>2, <2>2, <2>3
<1>. QED BY <1>3, <1>4, <1>5, <1>6

\* module/module.go and server/server.go: for any number of servers on one
\* database, modules and migrations, killed and started again any number of times,
\* no module serves before its schema is there, no migration is recorded before
\* one with a smaller id, and Stop succeeds only when every module was stopped.
THEOREM BootIsSound == AllSpec => []BootSound
<1>1. BInv /\ [AllNext]_AllVars => BInv'
  <2> SUFFICES ASSUME BInv, [AllNext]_AllVars PROVE BInv'
    OBVIOUS
  <2>1. ASSUME NEW s \in Servers, B!Step(s) PROVE BInv'
    BY <2>1, PlanBInv, RecordBInv, OffBInv, RouteBInv, StartBInv, StopBInv DEF B!Step
  <2>2. CASE B!Next
    BY <2>1, <2>2, StartBInv, OffBInv, StopBInv, ServeBInv DEF B!Next
  <2>3. CASE UNCHANGED bootVars
    BY <2>3 DEF bootVars, BInv, BootTypes, Migrating, Stopping, B!SchemaFirst, B!MigrationsInOrder, B!CleanStop
  <2>. QED BY <2>2, <2>3 DEF AllNext, AllVars, bootVars
<1>2. BInv => BootSound
  BY DEF BInv, BootSound
<1>. QED BY InitBInv, <1>1, <1>2, PTL DEF AllSpec
=============================================================================
