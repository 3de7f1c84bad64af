--------------------------- MODULE MessagesProofs ---------------------------
(***************************************************************************)
(* What Messages promises for any number of callers, users, names and      *)
(* payloads.  The parts share nothing, so each has an invariant of its own *)
(* that the steps of the others leave alone.                               *)
(***************************************************************************)
EXTENDS Messages, SequenceTheorems, FiniteSetTheorems, WellFoundedInduction, TLAPS

-----------------------------------------------------------------------------
(* Group notices.  The invariant says what a payload may look like after   *)
(* all its damage: without the key visibles it was meant for everybody,    *)
(* with a readable list that list names nobody who was not meant.          *)

Honest ==
    \A n \in 1 .. Len(store) :
        LET m == store[n] IN
        /\ m.payload.visibles = "missing" => m.audience = Uids
        /\ m.payload.visibles = "array" => ValidUids(m.payload.elems) \subseteq m.audience
        /\ m.sent.visibles = "missing" => m.audience = Uids
        /\ m.sent.visibles = "array" => ValidUids(m.sent.elems) \subseteq m.audience

\* Documents belong to messages of the server, within the bound.
Known == Len(store) <= MaxNotices /\ \A d \in index : d.id \in 1 .. Len(store)

GInv == TypeOK /\ Known /\ Honest /\ NoLeak

\* Nothing was sent yet.
LEMMA InitGInv == Init => GInv
  BY NoticeAssumption DEF Init, GInv, TypeOK, Known, Honest, NoLeak

\* Both kinds of notice are messages, and say whom they are meant for.
LEMMA NoticesHonest ==
    /\ Broadcast \in Messages
    /\ Broadcast.payload = Broadcast.sent
    /\ Broadcast.sent.visibles = "missing"
    /\ Broadcast.audience = Uids
    /\ \A l \in Lists :
          /\ Directed(l) \in Messages
          /\ Directed(l).payload = Directed(l).sent
          /\ Directed(l).sent.visibles # "missing"
          /\ ValidUids(Directed(l).sent.elems) \subseteq Directed(l).audience
<1>1. Plain \in Payloads
  BY DEF Plain, Payloads, Elements
<1>2. ASSUME NEW l \in Lists
      PROVE  /\ ListPayload(l) \in Payloads
             /\ ListPayload(l).visibles = l.json /\ ListPayload(l).elems = l.uids
  <2>1. l.json \in {"null", "array"}
    BY DEF Lists
  <2>2. l.uids \in SUBSET Elements
    BY DEF Lists, Elements
  <2>. QED BY <2>1, <2>2 DEF ListPayload, Plain, Payloads
<1>3. \A l \in Lists : l.json # "missing"
  BY DEF Lists
<1>. QED
  BY <1>1, <1>2, <1>3 DEF Broadcast, Plain, Directed, Messages, ValidUids

\* Sending an honest notice keeps the invariant, posted or not.
LEMMA SendKeeps ==
    ASSUME GInv, NEW m \in Messages, SendMessage(m),
           m.payload = m.sent,
           m.sent.visibles = "missing" => m.audience = Uids,
           m.sent.visibles = "array" => ValidUids(m.sent.elems) \subseteq m.audience
    PROVE  GInv'
<1>1. CASE store' = store
  BY <1>1 DEF SendMessage, GInv, TypeOK, Known, Honest, NoLeak
<1>2. CASE store' = Append(store, m)
  <2>1. /\ store \in Seq(Messages) /\ Len(store) \in Nat /\ Len(store) < MaxNotices
        /\ index' = index /\ dlq' = dlq
    BY DEF SendMessage, GInv, TypeOK
  <2>2. /\ store' \in Seq(Messages) /\ Len(store') = Len(store) + 1
        /\ store'[Len(store) + 1] = m
        /\ \A n \in 1 .. Len(store) : store'[n] = store[n]
    BY <1>2, <2>1
  <2>3. \A n \in 1 .. Len(store') : n = Len(store) + 1 \/ n \in 1 .. Len(store)
    BY <2>1, <2>2
  <2>4. TypeOK' /\ Known'
    BY <2>1, <2>2, NoticeAssumption DEF GInv, TypeOK, Known
  <2>5. Honest'
    BY <2>2, <2>3 DEF GInv, Honest
  <2>6. NoLeak'
    BY <2>1, <2>2 DEF GInv, Known, NoLeak
  <2>. QED BY <2>4, <2>5, <2>6 DEF GInv
<1>. QED BY <1>1, <1>2 DEF SendMessage

\* Damage yields a payload that is no more permissive than the one before.
LEMMA DamagedPayload ==
    ASSUME NEW p \in Payloads, NEW q \in Damaged(p)
    PROVE  /\ q \in Payloads
           /\ q.visibles = "missing" => p.visibles = "missing"
           /\ q.visibles = "array" => p.visibles = "array" /\ ValidUids(q.elems) \subseteq ValidUids(p.elems)
<1>1. CASE q \in Cut(p) \cup Trailed(p)
  BY <1>1 DEF Cut, Trailed, Payloads
<1>2. CASE p.visibles # "missing" /\ q \in Emptied(p)
  BY <1>2 DEF Emptied, Payloads, Elements
<1>3. CASE p.visibles = "array" /\ q \in Thinned(p)
  <2>1. PICK e \in SUBSET (p.elems \cup {NonString}) : q = [p EXCEPT !.elems = e]
    BY <1>3 DEF Thinned
  <2>2. e \in SUBSET Elements
    BY <2>1 DEF Payloads, Elements
  <2>3. q \in Payloads /\ q.elems = e /\ q.visibles = p.visibles
    BY <2>1, <2>2 DEF Payloads
  <2>. QED BY <1>3, <2>1, <2>3, VisibilityAssumption DEF ValidUids
<1>. QED BY <1>1, <1>2, <1>3 DEF Damaged

\* Damage to a stored message keeps the invariant.
LEMMA DamageKeeps == ASSUME GInv, NEW n \in 1 .. Len(store), Damage(n) PROVE GInv'
<1>1. /\ store \in Seq(Messages) /\ Len(store) \in Nat /\ store[n] \in Messages
      /\ index' = index /\ dlq' = dlq
  BY DEF GInv, TypeOK, Damage
<1>2. PICK p \in Damaged(store[n].sent) : store' = [store EXCEPT ![n].payload = p]
  BY DEF Damage
<1>3. /\ p \in Payloads
      /\ p.visibles = "missing" => store[n].sent.visibles = "missing"
      /\ p.visibles = "array" => /\ store[n].sent.visibles = "array"
                                 /\ ValidUids(p.elems) \subseteq ValidUids(store[n].sent.elems)
  BY <1>1, DamagedPayload DEF Messages
<1>4. /\ store' \in Seq(Messages) /\ Len(store') = Len(store)
      /\ \A k \in 1 .. Len(store) :
            /\ store'[k].audience = store[k].audience /\ store'[k].sent = store[k].sent
            /\ store'[k].payload = IF k = n THEN p ELSE store[k].payload
  BY <1>1, <1>2, <1>3 DEF Messages
<1>5. TypeOK' /\ Known'
  BY <1>1, <1>4 DEF GInv, TypeOK, Known
<1>6. Honest'
  BY <1>3, <1>4 DEF GInv, Honest
<1>7. NoLeak'
  BY <1>1, <1>4 DEF GInv, Known, NoLeak
<1>. QED BY <1>5, <1>6, <1>7 DEF GInv

\* What the indexer writes opens a message to its audience and to nobody else.
LEMMA IndexKeeps == ASSUME GInv, NEW n \in 1 .. Len(store), Indexed(n) PROVE GInv'
<1> DEFINE doc == [id |-> n, space |-> Extracted(n).space, visibles |-> Extracted(n).visibles]
<1>1. /\ store \in Seq(Messages) /\ Len(store) \in Nat /\ store[n] \in Messages
      /\ store' = store /\ dlq' = dlq /\ index' = {d \in index : d.id # n} \cup {doc}
      /\ n \in 1 .. MaxNotices
  BY NoticeAssumption DEF GInv, TypeOK, Known, Indexed
<1>2. OneObject(store[n].payload) /\ Resolvable(store[n].payload)
  BY DEF Indexed, Extracted, ExtractVisibility, FailClosed
<1>3. /\ Extracted(n).space = SpaceID(store[n].payload)
      /\ Extracted(n).visibles = IF store[n].payload.visibles = "array"
                                 THEN ValidUids(store[n].payload.elems) ELSE {}
  BY <1>2 DEF Extracted, ExtractVisibility
<1>4. doc \in Documents
  BY <1>1, <1>3 DEF Documents, SpaceID, ValidUids
<1>5. \A u \in Uids : Searchable(doc, u) => u \in store[n].audience
  BY <1>2, <1>3 DEF Searchable, Resolvable, GInv, Honest
<1>6. TypeOK' /\ Known'
  BY <1>1, <1>4 DEF GInv, TypeOK, Known
<1>7. NoLeak'
  BY <1>1, <1>5 DEF GInv, NoLeak
<1>. QED BY <1>1, <1>6, <1>7 DEF GInv, Honest

\* Every step of the pipeline keeps the invariant.
LEMMA NextGInv == GInv /\ [Next]_vars => GInv'
<1> SUFFICES ASSUME GInv, [Next]_vars PROVE GInv'
  OBVIOUS
<1>1. CASE SendMessage(Broadcast)
  BY <1>1, NoticesHonest, SendKeeps
<1>2. ASSUME NEW l \in Lists, SendMessage(Directed(l)) PROVE GInv'
  BY <1>2, NoticesHonest, SendKeeps
<1>3. ASSUME NEW s \in SUBSET (Uids \cup {Empty}), SendGroupMemberBeRemove(s) PROVE GInv'
  <2>1. [json |-> "array", uids |-> s] \in Lists
    BY DEF Lists
  <2>. QED BY <1>2, <1>3, <2>1 DEF SendGroupMemberBeRemove
<1>4. ASSUME NEW n \in 1 .. Len(store), DeadLettered(n) PROVE GInv'
  <2>1. n \in 1 .. MaxNotices
    BY NoticeAssumption DEF GInv, TypeOK, Known
  <2>. QED BY <1>4, <2>1 DEF DeadLettered, GInv, TypeOK, Known, Honest, NoLeak
<1>5. CASE UNCHANGED vars
  BY <1>5 DEF vars, GInv, TypeOK, Known, Honest, NoLeak
<1>. QED
  BY <1>1, <1>2, <1>3, <1>4, <1>5, DamageKeeps, IndexKeeps
     DEF Next, SendGroupCreate, SendUnableAddDestoryAccountInGroup, SendGroupUpdate,
         SendGroupMemberAdd, SendGroupUpgrade, SendGroupMemberRemove, SendGroupMemberScanJoin,
         SendGroupTransferGrouper, SendGroupMemberUpdate, SendGroupMemberInviteReq, SendGroupExit

\* The invariant of the pipeline.
THEOREM Invariance == Spec => []GInv
  BY InitGInv, NextGInv, PTL DEF Spec

\* Nobody finds a notice that was not meant for him, whatever damage short of
\* losing the key visibles its payload took.
THEOREM Confidential == Spec => []NoLeak
  BY Invariance, PTL DEF GInv

-----------------------------------------------------------------------------
(* IM client                                                               *)

\* The IM has executed request n, and opened its stream.
Done(n, req) ==
    /\ \E a \in applied : a.n = n /\ a.req = req
    /\ req.judge = "stream" => \E s \in streams : s.no = n /\ s.n = n

\* A request that carries a personal message says what its sender meant; a request
\* whose answer is a stream number does not end a stream.
AsMeant(req) ==
    req.msg.kind = "personal" =>
        /\ "space_id" \in DOMAIN req.json => req.sender # "" /\ req.json["space_id"] = req.sender
        /\ req.sender # "" => "space_id" \in DOMAIN req.json
        /\ IM!DeleteKey(req.json, "space_id") = IM!DeleteKey(req.given, "space_id")
Meant(req) ==
    /\ req.judge = "picked" => AsMeant(req)
    /\ req.judge = "stream" => req.api # "streammessage/end"

\* The calls under way: an answer of status 200 comes from an execution.
UnderWay(c) ==
    \/ rpc[c] = IM!Idle
    \/ /\ rpc[c].st \in {"sent", "answered"} /\ Meant(rpc[c].req)
       /\ rpc[c].st = "answered" /\ rpc[c].status = 200 => Done(rpc[c].n, rpc[c].req)

\* Somebody has been told of call n, or waits for it.
Accounted(n) == \/ \E r \in results : r.n = n
             \/ \E c \in Callers : rpc[c] # IM!Idle /\ rpc[c].n = n

Told(r) ==
    /\ r.ok \in BOOLEAN
    /\ r.ok = TRUE /\ r.req.judge # "test" =>
          Done(r.n, r.req) /\ (r.req.judge = "stream" => r.value \in {0, r.n})

IMInv ==
    /\ rpc = [c \in Callers |-> rpc[c]] /\ streamOf = [c \in Callers |-> streamOf[c]]
    /\ \A c \in Callers : UnderWay(c)
    /\ \A c \in Callers : streamOf[c] # 0 => \E s \in streams : s.no = streamOf[c]
    /\ \A x \in late : Meant(x.req) /\ \E r \in results : r.n = x.n
    /\ \A m \in inbox : m.req.judge = "picked" /\ Meant(m.req)
    /\ \A r \in results : Told(r)
    /\ \A a \in applied : Accounted(a.n)

LEMMA InitIMInv == IM!Init => IMInv
  BY DEF IM!Init, IMInv, UnderWay

\* A call goes out; its number and its request are new to everybody.
LEMMA PostKeeps ==
    ASSUME IMInv, NEW c \in Callers, NEW req, IM!Post(c, req), Meant(req),
           streamOf' = streamOf \/ streamOf' = [streamOf EXCEPT ![c] = 0]
    PROVE  IMInv'
<1>1. /\ rpc[c] = IM!Idle /\ UNCHANGED <<late, applied, inbox, streams, results>>
      /\ rpc' = [rpc EXCEPT ![c] = [st |-> "sent", n |-> sentCalls + 1, req |-> req]]
  BY DEF IM!Post
<1>2. /\ rpc' = [d \in Callers |-> rpc'[d]]
      /\ \A d \in Callers : rpc'[d] = IF d = c THEN [st |-> "sent", n |-> sentCalls + 1, req |-> req] ELSE rpc[d]
  BY <1>1 DEF IMInv
<1>3. streamOf' = [d \in Callers |-> streamOf'[d]] /\ \A d \in Callers : streamOf'[d] \in {0, streamOf[d]}
  BY DEF IMInv
<1>4. \A n, x : Done(n, x)' <=> Done(n, x)
  BY <1>1 DEF Done
<1>5. \A d \in Callers : UnderWay(d)'
  BY <1>2, <1>4 DEF IMInv, UnderWay
<1>6. \A r \in results' : Told(r)'
  BY <1>1, <1>4 DEF IMInv, Told
<1>7. \A a \in applied' : Accounted(a.n)'
  BY <1>1, <1>2 DEF IMInv, Accounted
<1>8. \A d \in Callers : streamOf'[d] # 0 => \E s \in streams' : s.no = streamOf'[d]
  BY <1>1, <1>3 DEF IMInv
<1>. QED BY <1>1, <1>2, <1>3, <1>5, <1>6, <1>7, <1>8 DEF IMInv

\* The server executes a request: nothing that was done is undone.
LEMMA ExecuteDoes ==
    ASSUME NEW n, NEW req, IM!Execute(n, req), Meant(req)
    PROVE  /\ Done(n, req)' /\ applied' = applied \cup {[n |-> n, req |-> req]}
           /\ \A k, x : Done(k, x) => Done(k, x)'
           /\ \A no : (\E s \in streams : s.no = no) => \E s \in streams' : s.no = no
           /\ inbox' = IF req.judge = "picked" THEN inbox \cup {[n |-> n, req |-> req]} ELSE inbox
<1>1. /\ applied' = applied \cup {[n |-> n, req |-> req]}
      /\ inbox' = IF req.judge = "picked" THEN inbox \cup {[n |-> n, req |-> req]} ELSE inbox
  BY DEF IM!Execute
<1>2. \A s \in streams : \E t \in streams' : t.no = s.no /\ t.n = s.n
  <2>1. CASE req.judge = "stream"
    <3>1. streams' = streams \cup {[no |-> n, n |-> n, open |-> TRUE]}
      BY <2>1, Zenon DEF IM!Execute, Meant
    <3>. QED BY <3>1
  <2>2. CASE req.judge # "stream" /\ req.api = "streammessage/end"
    <3>1. streams' = {[s EXCEPT !.open = @ /\ s.no # req.no] : s \in streams}
      BY <2>2 DEF IM!Execute
    <3>2. \A s \in streams : [s EXCEPT !.open = @ /\ s.no # req.no] \in streams'
      BY <3>1
    <3>3. \A s : [s EXCEPT !.open = @ /\ s.no # req.no].no = s.no /\ [s EXCEPT !.open = @ /\ s.no # req.no].n = s.n
      OBVIOUS
    <3>. QED BY <3>2, <3>3
  <2>3. CASE req.judge # "stream" /\ req.api # "streammessage/end"
    BY <2>3 DEF IM!Execute
  <2>. QED BY <2>1, <2>2, <2>3
<1>3. ASSUME req.judge = "stream" PROVE \E s \in streams' : s.no = n /\ s.n = n
  <2> DEFINE t == [no |-> n, n |-> n, open |-> TRUE]
  <2>1. streams' = streams \cup {t}
    BY <1>3, Zenon DEF IM!Execute, Meant
  <2>2. t \in streams' /\ t.no = n /\ t.n = n
    BY <2>1
  <2>. QED BY <2>2
<1>4. Done(n, req)'
  <2> DEFINE a == [n |-> n, req |-> req]
  <2>1. a \in applied' /\ a.n = n /\ a.req = req
    BY <1>1
  <2> HIDE DEF a
  <2>. QED BY <1>3, <2>1 DEF Done
<1>5. \A k, x : Done(k, x) => Done(k, x)'
  BY <1>1, <1>2 DEF Done
<1>6. \A no : (\E s \in streams : s.no = no) => \E s \in streams' : s.no = no
  BY <1>2
<1>. QED BY <1>1, <1>4, <1>5, <1>6

\* The server executes the request of a caller that waits, or one whose caller
\* was told of a broken connection.
LEMMA ServerKeeps ==
    ASSUME IMInv, NEW n, NEW req, IM!Execute(n, req), Meant(req), streamOf' = streamOf,
           rpc' = [c \in Callers |-> rpc'[c]], \A c \in Callers : UnderWay(c)',
           \A x \in late' : x \in late, results' = results, Accounted(n)',
           \A c \in Callers : rpc[c] # IM!Idle => rpc'[c] # IM!Idle /\ rpc'[c].n = rpc[c].n
    PROVE  IMInv'
<1>1. /\ applied' = applied \cup {[n |-> n, req |-> req]} /\ \A k, x : Done(k, x) => Done(k, x)'
      /\ \A no : (\E s \in streams : s.no = no) => \E s \in streams' : s.no = no
      /\ inbox' = IF req.judge = "picked" THEN inbox \cup {[n |-> n, req |-> req]} ELSE inbox
  BY ExecuteDoes
<1>2. \A m \in inbox' : m.req.judge = "picked" /\ Meant(m.req)
  BY <1>1 DEF IMInv
<1>3. \A r \in results' : Told(r)'
  BY <1>1 DEF IMInv, Told
<1>4. \A a \in applied' : Accounted(a.n)'
  <2>1. \A a \in applied : Accounted(a.n)'
    BY DEF IMInv, Accounted
  <2>. QED BY <1>1, <2>1
<1>5. \A c \in Callers : streamOf'[c] # 0 => \E s \in streams' : s.no = streamOf'[c]
  BY <1>1 DEF IMInv
<1>6. \A x \in late' : Meant(x.req) /\ \E r \in results' : r.n = x.n
  BY DEF IMInv
<1>7. streamOf' = [c \in Callers |-> streamOf'[c]]
  BY DEF IMInv
<1>. QED BY <1>2, <1>3, <1>4, <1>5, <1>6, <1>7 DEF IMInv

LEMMA AcceptKeeps == ASSUME IMInv, NEW c \in Callers, IM!Accept(c) PROVE IMInv'
<1>0. PICK n, req : n = rpc[c].n /\ req = rpc[c].req
  OBVIOUS
<1>1. rpc[c].st = "sent" /\ IM!Execute(n, req) /\ UNCHANGED <<late, results, streamOf>>
  BY <1>0 DEF IM!Accept
<1>2. PICK body : rpc' = [rpc EXCEPT ![c] = [st |-> "answered", n |-> @.n, req |-> @.req,
                                             status |-> 200, body |-> body]]
  BY DEF IM!Accept, IM!Answer
<1>3. /\ rpc' = [d \in Callers |-> rpc'[d]] /\ rpc'[c].st = "answered" /\ rpc'[c].n = n
      /\ rpc'[c].req = req /\ rpc'[c].status = 200
      /\ \A d \in Callers : d # c => rpc'[d] = rpc[d]
  BY <1>0, <1>2 DEF IMInv
<1>4. Meant(req) /\ rpc'[c] # IM!Idle
  BY <1>0, <1>1, <1>3 DEF IMInv, UnderWay, IM!Idle
<1>5. Done(n, req)' /\ \A k, x : Done(k, x) => Done(k, x)'
  BY <1>1, <1>4, ExecuteDoes
<1>6. \A d \in Callers : UnderWay(d)'
  <2>1. UnderWay(c)'
    BY <1>3, <1>4, <1>5 DEF UnderWay
  <2>2. ASSUME NEW d \in Callers, d # c PROVE UnderWay(d)'
    BY <1>3, <1>5, <2>2 DEF IMInv, UnderWay
  <2>. QED BY <2>1, <2>2
<1>7. Accounted(n)'
  BY <1>3, <1>4 DEF Accounted
<1>. QED BY <1>0, <1>1, <1>3, <1>4, <1>6, <1>7, ServerKeeps

\* A request on a broken connection arrives after all.
LEMMA ArrivesKeeps == ASSUME IMInv, NEW x \in late, IM!Arrives(x) PROVE IMInv'
<1>1. IM!Execute(x.n, x.req) /\ late' = late \ {x} /\ UNCHANGED <<rpc, results, streamOf>>
  BY DEF IM!Arrives
<1>2. Meant(x.req) /\ Accounted(x.n)'
  BY <1>1 DEF IMInv, Accounted
<1>3. \A k, y : Done(k, y) => Done(k, y)'
  BY <1>1, <1>2, ExecuteDoes
<1>4. \A c \in Callers : UnderWay(c)'
  BY <1>1, <1>3 DEF IMInv, UnderWay
<1>5. rpc' = [c \in Callers |-> rpc'[c]] /\ \A y \in late' : y \in late
  BY <1>1 DEF IMInv
<1>. QED BY <1>1, <1>2, <1>4, <1>5, ServerKeeps

\* Refused: an answer that is not of status 200.
LEMMA RefuseKeeps == ASSUME IMInv, NEW c \in Callers, IM!Refuse(c) PROVE IMInv'
<1>1. rpc[c].st = "sent" /\ UNCHANGED <<late, applied, inbox, streams, results, streamOf>>
  BY DEF IM!Refuse
<1>2. PICK status, body :
         /\ status # 200
         /\ rpc' = [rpc EXCEPT ![c] = [st |-> "answered", n |-> @.n, req |-> @.req,
                                       status |-> status, body |-> body]]
  BY DEF IM!Refuse, IM!Answer
<1>3. /\ rpc' = [d \in Callers |-> rpc'[d]] /\ rpc'[c].st = "answered" /\ rpc'[c].n = rpc[c].n
      /\ rpc'[c].req = rpc[c].req /\ rpc'[c].status # 200
      /\ \A d \in Callers : d # c => rpc'[d] = rpc[d]
  BY <1>2 DEF IMInv
<1>4. \A k, x : Done(k, x)' <=> Done(k, x)
  BY <1>1 DEF Done
<1>5. Meant(rpc[c].req) /\ rpc'[c] # IM!Idle
  BY <1>1, <1>3 DEF IMInv, UnderWay, IM!Idle
<1>6. \A d \in Callers : UnderWay(d)'
  <2>1. UnderWay(c)'
    BY <1>3, <1>5 DEF UnderWay
  <2>2. ASSUME NEW d \in Callers, d # c PROVE UnderWay(d)'
    BY <1>3, <1>4, <2>2 DEF IMInv, UnderWay
  <2>. QED BY <2>1, <2>2
<1>7. \A r \in results' : Told(r)'
  BY <1>1, <1>4 DEF IMInv, Told
<1>8. \A a \in applied' : Accounted(a.n)'
  <2>1. \A d \in Callers : rpc[d] # IM!Idle => rpc'[d] # IM!Idle /\ rpc'[d].n = rpc[d].n
    BY <1>3, <1>5
  <2>. QED BY <1>1, <2>1 DEF IMInv, Accounted
<1>. QED BY <1>1, <1>3, <1>6, <1>7, <1>8 DEF IMInv

\* A caller is told how its call ended.
LEMMA TellKeeps ==
    ASSUME IMInv, NEW c \in Callers, NEW ok \in BOOLEAN, NEW value, NEW n, NEW req,
           n = rpc[c].n, req = rpc[c].req, rpc[c] # IM!Idle, IM!Tell(c, ok, value),
           ok = TRUE => Done(n, req) /\ (req.judge = "stream" => value \in {0, n}),
           late' = late \/ late' = late \cup {[n |-> n, req |-> req]},
           \/ streamOf' = streamOf
           \/ ok = TRUE /\ req.judge = "stream" /\ streamOf' = [streamOf EXCEPT ![c] = value],
           UNCHANGED <<applied, inbox, streams>>
    PROVE  IMInv'
<1> DEFINE t == [n |-> n, req |-> req, ok |-> ok, value |-> value]
<1>1. results' = results \cup {t} /\ rpc' = [rpc EXCEPT ![c] = IM!Idle]
  BY DEF IM!Tell
<1>2. t.n = n /\ t.req = req /\ t.ok = ok /\ t.value = value
  OBVIOUS
<1> HIDE DEF t
<1>3. rpc' = [d \in Callers |-> rpc'[d]] /\ \A d \in Callers : rpc'[d] = IF d = c THEN IM!Idle ELSE rpc[d]
  BY <1>1 DEF IMInv
<1>4. \A k, x : Done(k, x)' <=> Done(k, x)
  BY DEF Done
<1>5. \A d \in Callers : UnderWay(d)'
  BY <1>3, <1>4 DEF IMInv, UnderWay
<1>6. \A r \in results' : Told(r)'
  <2>1. \A r \in results : Told(r)'
    BY <1>4 DEF IMInv, Told
  <2>2. Told(t)'
    BY <1>2, <1>4 DEF Told
  <2>. QED BY <1>1, <2>1, <2>2
<1>7. \A a \in applied' : Accounted(a.n)'
  <2>1. ASSUME NEW a \in applied PROVE (\E r \in results' : r.n = a.n) \/ \E d \in Callers : rpc'[d] # IM!Idle /\ rpc'[d].n = a.n
    <3>1. CASE \E r \in results : r.n = a.n
      BY <1>1, <3>1
    <3>2. CASE rpc[c].n = a.n
      BY <1>1, <1>2, <3>2
    <3>3. CASE \E d \in Callers : d # c /\ rpc[d] # IM!Idle /\ rpc[d].n = a.n
      BY <1>3, <3>3
    <3>. QED BY <3>1, <3>2, <3>3 DEF IMInv, Accounted
  <2>. QED BY <2>1 DEF Accounted
<1>8. Meant(req)
  BY DEF IMInv, UnderWay
<1>9. \A x \in late' : Meant(x.req) /\ \E r \in results' : r.n = x.n
  <2>1. \A x \in late : Meant(x.req) /\ \E r \in results' : r.n = x.n
    BY <1>1 DEF IMInv
  <2>2. \E r \in results' : r.n = n
    BY <1>1, <1>2
  <2>. QED BY <1>8, <2>1, <2>2
<1>10. /\ streamOf' = [d \in Callers |-> streamOf'[d]]
       /\ \A d \in Callers : streamOf'[d] # 0 => \E s \in streams' : s.no = streamOf'[d]
  <2>1. CASE streamOf' = streamOf
    BY <2>1 DEF IMInv
  <2>2. CASE ok = TRUE /\ req.judge = "stream" /\ streamOf' = [streamOf EXCEPT ![c] = value]
    <3>1. value \in {0, n} /\ \E s \in streams : s.no = n
      BY <2>2 DEF Done
    <3>. QED BY <2>2, <3>1 DEF IMInv
  <2>. QED BY <2>1, <2>2
<1>. QED BY <1>3, <1>5, <1>6, <1>7, <1>9, <1>10 DEF IMInv

LEMMA NetworkErrorKeeps == ASSUME IMInv, NEW c \in Callers, IM!NetworkError(c) PROVE IMInv'
<1>1. PICK n, req : n = rpc[c].n /\ req = rpc[c].req
  OBVIOUS
<1>2. /\ rpc[c] # IM!Idle /\ IM!Tell(c, FALSE, 0) /\ UNCHANGED <<applied, inbox, streams, streamOf>>
      /\ late' = late \/ late' = late \cup {[n |-> n, req |-> req]}
  BY <1>1 DEF IM!NetworkError
<1>. QED BY <1>1, <1>2, TellKeeps

\* handlerIMError and the decoding let only executed requests count as successes.
LEMMA ReturnKeeps == ASSUME IMInv, NEW c \in Callers, IM!Return(c) PROVE IMInv'
<1>1. PICK n, req, ok, value :
         /\ n = rpc[c].n /\ req = rpc[c].req
         /\ ok = (~IM!handlerIMError(rpc[c].status, rpc[c].body) /\ IM!Decoded(req.judge, rpc[c].body))
         /\ value = IF ok /\ rpc[c].body = "good" THEN rpc[c].n ELSE 0
  OBVIOUS
<1>2. /\ rpc[c].st = "answered" /\ IM!Tell(c, ok, value)
      /\ streamOf' = IF ok /\ req.judge = "stream" THEN [streamOf EXCEPT ![c] = value] ELSE streamOf
      /\ UNCHANGED <<late, applied, inbox, streams>>
  BY <1>1 DEF IM!Return
<1>3. rpc[c] # IM!Idle /\ (rpc[c].status = 200 => Done(n, req))
  BY <1>1, <1>2 DEF IMInv, UnderWay, IM!Idle
<1>4. ok \in BOOLEAN
  BY <1>1
<1>5. ok = TRUE => Done(n, req)
  BY <1>1, <1>3 DEF IM!handlerIMError
<1>6. value \in {0, n}
  BY <1>1
<1>. QED BY <1>1, <1>2, <1>3, <1>4, <1>5, <1>6, TellKeeps

\* A call whose request carries nothing but its path.
LEMMA CallKeeps ==
    ASSUME IMInv, NEW c \in Callers, NEW api, NEW judge, judge \notin {"picked", "stream"},
           IM!Call(c, IM!Request(api, judge))
    PROVE  IMInv'
<1>1. Meant(IM!Request(api, judge))
  BY DEF Meant, IM!Request
<1>. QED BY <1>1, PostKeeps DEF IM!Call

LEMMA ManageKeeps == ASSUME IMInv, NEW c \in Callers, IM!Manage(c) PROVE IMInv'
<1>1. \E api, judge : judge \notin {"picked", "stream"} /\ IM!Call(c, IM!Request(api, judge))
  BY DEF IM!Manage, IM!UpdateIMToken, IM!QuitUserDevice, IM!SendMessageBatch, IM!IMCreateOrUpdateChannel,
         IM!IMBlacklist, IM!IMWhitelist, IM!IMAddSubscriber, IM!IMRemoveSubscriber,
         IM!IMClearConversation, IM!IMSyncMessageAck, IM!IMRevokeMessage, IM!IMDelChannel
<1>. QED BY <1>1, CallKeeps

\* In test mode a status is made up; nobody takes it for an execution.
LEMMA ReadKeeps == ASSUME IMInv, NEW c \in Callers, IM!Read(c) PROVE IMInv'
<1>1. CASE \E api, judge : judge \notin {"picked", "stream"} /\ IM!Call(c, IM!Request(api, judge))
  BY <1>1, CallKeeps
<1>2. CASE /\ UNCHANGED <<rpc, late, applied, inbox, streams, streamOf>>
           /\ \E n : results' = results \cup {[n |-> n, req |-> IM!Request("onlinestatus", "test"),
                                                ok |-> TRUE, value |-> 0]}
  <2>1. PICK n : results' = results \cup {[n |-> n, req |-> IM!Request("onlinestatus", "test"),
                                           ok |-> TRUE, value |-> 0]}
    BY <1>2
  <2> DEFINE t == [n |-> n, req |-> IM!Request("onlinestatus", "test"), ok |-> TRUE, value |-> 0]
  <2>2. t.ok = TRUE /\ t.req.judge = "test" /\ results' = results \cup {t}
    BY <2>1 DEF IM!Request
  <2> HIDE DEF t
  <2>3. \A k, x : Done(k, x)' <=> Done(k, x)
    BY <1>2 DEF Done
  <2>4. \A d \in Callers : UnderWay(d)'
    BY <1>2, <2>3 DEF IMInv, UnderWay
  <2>5. \A r \in results' : Told(r)'
    <3>1. \A r \in results : Told(r)'
      BY <2>3 DEF IMInv, Told
    <3>2. Told(t)'
      BY <2>2 DEF Told
    <3>. QED BY <2>2, <3>1, <3>2
  <2>6. \A a \in applied' : Accounted(a.n)'
    BY <1>2, <2>2 DEF IMInv, Accounted
  <2>7. \A x \in late' : Meant(x.req) /\ \E r \in results' : r.n = x.n
    BY <1>2, <2>2 DEF IMInv
  <2>. QED BY <1>2, <2>4, <2>5, <2>6, <2>7 DEF IMInv
<1>. QED BY <1>1, <1>2 DEF IM!Read, IM!IMGetConversations, IM!IMSyncUserConversation, IM!IMGetChannelMaxSeq,
            IM!IMGetWithChannelAndSeqs, IM!IMSearchMessages, IM!IMSyncChannelMessage, IM!IMSyncMessage,
            IM!IMSearchUserMessages, IM!IMSOnlineStatus

\* A message that is not personal.
LEMMA SendMessageKeeps ==
    ASSUME IMInv, NEW c \in Callers, NEW msg, IM!SendMessage(c, msg), msg.kind # "personal"
    PROVE  IMInv'
<1> DEFINE req == [api |-> "message/send", judge |-> "picked", msg |-> msg]
<1>1. req.judge = "picked" /\ req.msg = msg /\ IM!Call(c, req)
  BY DEF IM!SendMessage
<1> HIDE DEF req
<1>2. Meant(req)
  BY <1>1 DEF Meant, AsMeant
<1>. QED BY <1>1, <1>2, PostKeeps DEF IM!Call

\* Both branches of the builder: space_id is the sender's or is gone, and no other
\* key is touched.
LEMMA BuilderOverrides ==
    ASSUME NEW given, NEW sender
    PROVE  LET json == IM!NewPersonalMsgSendReq(given, sender)
           IN /\ "space_id" \in DOMAIN json => sender # "" /\ json["space_id"] = sender
              /\ sender # "" => "space_id" \in DOMAIN json
              /\ IM!DeleteKey(json, "space_id") = IM!DeleteKey(given, "space_id")
<1> DEFINE json == IM!NewPersonalMsgSendReq(given, sender)
<1>1. CASE sender # ""
  <2>1. json = [k \in DOMAIN given \cup {"space_id"} |-> IF k = "space_id" THEN sender ELSE given[k]]
    BY <1>1 DEF IM!NewPersonalMsgSendReq, IM!SetKey
  <2> HIDE DEF json
  <2>2. "space_id" \in DOMAIN json /\ json["space_id"] = sender
    BY <2>1
  <2>3. DOMAIN json \ {"space_id"} = DOMAIN given \ {"space_id"}
    BY <2>1
  <2>4. \A k \in DOMAIN given \ {"space_id"} : json[k] = given[k]
    BY <2>1
  <2>5. IM!DeleteKey(json, "space_id") = IM!DeleteKey(given, "space_id")
    BY <2>3, <2>4 DEF IM!DeleteKey
  <2>. QED BY <1>1, <2>2, <2>5 DEF json
<1>2. CASE sender = ""
  <2>1. json = [k \in DOMAIN given \ {"space_id"} |-> given[k]]
    BY <1>2 DEF IM!NewPersonalMsgSendReq, IM!DeleteKey
  <2> HIDE DEF json
  <2>2. "space_id" \notin DOMAIN json /\ DOMAIN json \ {"space_id"} = DOMAIN given \ {"space_id"}
    BY <2>1
  <2>3. \A k \in DOMAIN given \ {"space_id"} : json[k] = given[k]
    BY <2>1
  <2>4. IM!DeleteKey(json, "space_id") = IM!DeleteKey(given, "space_id")
    BY <2>2, <2>3 DEF IM!DeleteKey
  <2>. QED BY <1>2, <2>2, <2>4 DEF json
<1>. QED BY <1>1, <1>2

\* A personal message, whatever its map held.
LEMMA PersonalIsMeant ==
    ASSUME NEW given, NEW sender PROVE Meant(IM!Personal(given, sender))
<1> DEFINE req == IM!Personal(given, sender)
<1>1. /\ req.judge = "picked" /\ req.sender = sender /\ req.given = given
      /\ req.json = IM!NewPersonalMsgSendReq(given, sender)
  BY DEF IM!Personal
<1> HIDE DEF req
<1>2. AsMeant(req)
  <2> DEFINE json == IM!NewPersonalMsgSendReq(given, sender)
  <2>1. /\ "space_id" \in DOMAIN json => sender # "" /\ json["space_id"] = sender
        /\ sender # "" => "space_id" \in DOMAIN json
        /\ IM!DeleteKey(json, "space_id") = IM!DeleteKey(given, "space_id")
    BY BuilderOverrides, Zenon
  <2>2. req.json = json
    BY <1>1
  <2> HIDE DEF json
  <2>. QED BY <1>1, <2>1, <2>2, ZenonT(30) DEF AsMeant
<1>. QED BY <1>1, <1>2 DEF Meant, req

LEMMA SendKeepsIM == ASSUME IMInv, NEW c \in Callers, IM!Send(c) PROVE IMInv'
<1>1. ASSUME NEW kind, kind # "personal", NEW dot, NEW once, NEW persist, NEW setting,
             IM!SendMessage(c, IM!Message(kind, dot, once, persist, setting))
      PROVE  IMInv'
  <2>1. IM!Message(kind, dot, once, persist, setting).kind = kind
    BY DEF IM!Message
  <2>. QED BY <1>1, <2>1, SendMessageKeeps
<1>2. CASE IM!SendFriendApply(c) \/ IM!SendFriendSure(c) \/ IM!SendRTCCallResult(c)
  BY <1>1, <1>2 DEF IM!SendFriendApply, IM!SendFriendSure, IM!SendRTCCallResult
<1>3. CASE IM!SendFriendDelete(c) \/ IM!SendRevoke(c) \/ IM!SendTyping(c) \/ IM!SendChannelUpdate(c)
  BY <1>1, <1>3 DEF IM!SendFriendDelete, IM!SendRevoke, IM!SendTyping, IM!SendChannelUpdate, IM!SendCMD
<1>4. CASE \E sender \in {"", "space"} : \/ IM!SendPersonalNil(c, sender)
                                        \/ \E map \in IM!Maps(c) : IM!SendPersonal(c, sender, map)
  <2>1. PICK sender, map : IM!Post(c, IM!Personal(map, sender)) /\ streamOf' = streamOf
    BY <1>4 DEF IM!SendPersonal, IM!SendPersonalNil, IM!Call
  <2>. QED BY <2>1, PersonalIsMeant, PostKeeps
<1>5. CASE IM!IMStreamStart(c)
  <2> DEFINE req == IM!Request("streammessage/start", "stream")
  <2>1. Meant(req) /\ IM!Call(c, req)
    BY <1>5 DEF Meant, IM!Request, IM!IMStreamStart
  <2> HIDE DEF req
  <2>. QED BY <2>1, PostKeeps DEF IM!Call
<1>6. CASE IM!IMStreamEnd(c)
  <2>1. PICK no : IM!Post(c, [api |-> "streammessage/end", judge |-> "handled", no |-> no])
    BY <1>6 DEF IM!IMStreamEnd
  <2>2. streamOf' = [streamOf EXCEPT ![c] = 0]
    BY <1>6 DEF IM!IMStreamEnd
  <2>3. Meant([api |-> "streammessage/end", judge |-> "handled", no |-> no])
    BY DEF Meant
  <2>. QED BY <2>1, <2>2, <2>3, PostKeeps
<1>. QED BY <1>2, <1>3, <1>4, <1>5, <1>6 DEF IM!Send

\* Steps that leave the calls alone.
LEMMA IdleKeeps ==
    ASSUME IMInv, UNCHANGED <<rpc, late, applied, inbox, streams, results, streamOf>> PROVE IMInv'
<1>1. \A k, x : Done(k, x)' <=> Done(k, x)
  BY DEF Done
<1>2. \A c \in Callers : UnderWay(c)'
  BY <1>1 DEF IMInv, UnderWay
<1>3. \A r \in results' : Told(r)'
  BY <1>1 DEF IMInv, Told
<1>4. \A a \in applied' : Accounted(a.n)'
  BY DEF IMInv, Accounted
<1>. QED BY <1>2, <1>3, <1>4 DEF IMInv

LEMMA StepIMInv == ASSUME IMInv, [AllNext]_AllVars PROVE IMInv'
<1>1. CASE IM!Next
  BY <1>1, ManageKeeps, ReadKeeps, SendKeepsIM, AcceptKeeps, RefuseKeeps, NetworkErrorKeeps,
     ReturnKeeps, ArrivesKeeps DEF IM!Next
<1>2. CASE UNCHANGED imVars
  BY <1>2, IdleKeeps DEF imVars
<1>. QED BY <1>1, <1>2 DEF AllNext, AllVars

LEMMA IMInvariant == AllSpec => []IMInv
<1>1. AllInit => IMInv
  BY InitIMInv DEF AllInit
<1>. QED BY <1>1, StepIMInv, PTL DEF AllSpec

\* A caller that is told of success had its request executed, and a stream number
\* is one the IM opened, however requests and answers are lost, late or damaged.
THEOREM AnswersAreTrue == AllSpec => []AnswersTrue
<1>1. ASSUME IMInv PROVE AnswersTrue
  <2>1. IM!SuccessApplied
    <3>1. \A r \in results : r.ok /\ r.req.judge # "test" => \E a \in applied : a.n = r.n /\ a.req = r.req
      BY <1>1, Zenon DEF IMInv, Told, Done
    <3>. QED BY <1>1, <3>1, Zenon DEF IMInv, IM!SuccessApplied, Accounted
  <2>2. IM!StreamsOwned
    <3>1. ASSUME NEW r \in results, r.ok, r.req.judge = "stream", r.value # 0
          PROVE \E s \in streams : s.no = r.value /\ s.n = r.n
      <4>1. r.ok = TRUE /\ r.req.judge # "test"
        BY <1>1, <3>1 DEF IMInv, Told
      <4>. QED BY <1>1, <3>1, <4>1 DEF IMInv, Told, Done
    <3>. QED BY <1>1, <3>1, Zenon DEF IMInv, IM!StreamsOwned
  <2>. QED BY <2>1, <2>2 DEF AnswersTrue
<1>. QED BY <1>1, IMInvariant, PTL

\* A Setting and its byte: eight cases of three bits.
LEMMA SettingsAreRead == IM!SettingsSurvive
<1> SUFFICES ASSUME NEW a \in BOOLEAN, NEW b \in BOOLEAN, NEW d \in BOOLEAN
             PROVE  LET s == [receipt |-> a, noUpdate |-> b, signal |-> d]
                    IN IM!SettingFromUint8(IM!ToUint8(s)) = s
  BY DEF IM!SettingsSurvive
<1> DEFINE s == [receipt |-> a, noUpdate |-> b, signal |-> d]
           v == 128 * IM!Bit(a) + 64 * IM!Bit(b) + 32 * IM!Bit(d)
<1>1. IM!ToUint8(s) = v
  BY DEF IM!ToUint8
<1>2. /\ ((v \div 128) % 2 > 0) = a
      /\ ((v \div 64) % 2 > 0) = b
      /\ ((v \div 32) % 2 > 0) = d
  <2>1. \A x, y, z \in {0, 1} : LET w == 128 * x + 64 * y + 32 * z
                               IN (w \div 128) % 2 = x /\ (w \div 64) % 2 = y /\ (w \div 32) % 2 = z
    OBVIOUS
  <2>2. \A x \in BOOLEAN : IM!Bit(x) \in {0, 1} /\ (IM!Bit(x) > 0 <=> x)
    BY DEF IM!Bit
  <2>3. (v \div 128) % 2 = IM!Bit(a) /\ (v \div 64) % 2 = IM!Bit(b) /\ (v \div 32) % 2 = IM!Bit(d)
    BY <2>1, <2>2
  <2>. QED BY <2>2, <2>3
<1> HIDE DEF v
<1>3. IM!SettingFromUint8(v) = s
  BY <1>2, Zenon DEF IM!SettingFromUint8
<1>. QED BY <1>1, <1>3

\* Every personal message the IM accepts, whenever it arrives, says what its sender
\* meant, whatever a client or an earlier send has left in the map; and every Setting
\* survives its byte.
THEOREM RequestsAreMeant == AllSpec => []RequestsAsMeant
<1>1. ASSUME IMInv PROVE RequestsAsMeant
  <2>1. \A m \in inbox : AsMeant(m.req)
    BY <1>1 DEF IMInv, Meant
  <2>2. IM!SpaceAuthoritative
    BY <2>1, Zenon DEF AsMeant, IM!SpaceAuthoritative
  <2>. QED BY <2>2, SettingsAreRead DEF RequestsAsMeant
<1>. QED BY <1>1, IMInvariant, PTL

-----------------------------------------------------------------------------
(* Visibility contract                                                     *)

\* As it was sent, a notice is one JSON object that can be resolved, or is meant
\* for nobody.
Sound(m) == OneObject(m.sent) /\ (Resolvable(m.sent) \/ m.audience = {})

ContractInv ==
    /\ GInv
    /\ \A n \in 1 .. Len(store) : Sound(store[n])
    /\ dlq \subseteq 1 .. Len(store)
    /\ DLQJustified

LEMMA NoticesSound == Sound(Broadcast) /\ \A l \in Lists : Sound(Directed(l))
<1>1. Sound(Broadcast)
  BY DEF Sound, Broadcast, Plain, OneObject, Resolvable
<1>2. ASSUME NEW l \in Lists PROVE Sound(Directed(l))
  <2> DEFINE p == ListPayload(l)
  <2>1. p.top = "object" /\ p.tail = "none" /\ p.visibles = l.json /\ p.elems = l.uids
    BY DEF ListPayload, Plain
  <2>2. Directed(l).sent = p /\ Directed(l).audience = ValidUids(l.uids)
    BY DEF Directed, ValidUids
  <2>3. l.json = "array" \/ l.uids = {}
    BY DEF Lists
  <2>4. l.uids = {} => ValidUids(l.uids) = {}
    BY DEF ValidUids
  <2> HIDE DEF p
  <2>. QED BY <2>1, <2>2, <2>3, <2>4 DEF Sound, OneObject, Resolvable
<1>. QED BY <1>1, <1>2

LEMMA SendKeepsContract ==
    ASSUME ContractInv, GInv', NEW m, SendMessage(m), Sound(m) PROVE ContractInv'
<1>1. store \in Seq(Messages) /\ Len(store) \in Nat /\ dlq' = dlq
  BY DEF SendMessage, ContractInv, GInv, TypeOK
<1>2. CASE store' = store
  BY <1>1, <1>2 DEF ContractInv, DLQJustified
<1>3. CASE store' = Append(store, m)
  <2>1. /\ Len(store') = Len(store) + 1 /\ store'[Len(store) + 1] = m
        /\ \A n \in 1 .. Len(store) : store'[n] = store[n]
    BY <1>1, <1>3
  <2>2. \A n \in 1 .. Len(store') : n = Len(store) + 1 \/ n \in 1 .. Len(store)
    BY <1>1, <2>1
  <2>3. \A n \in 1 .. Len(store') : Sound(store'[n])
    BY <2>1, <2>2 DEF ContractInv
  <2>4. dlq' \subseteq 1 .. Len(store')
    BY <1>1, <2>1 DEF ContractInv
  <2>5. DLQJustified'
    BY <1>1, <2>1 DEF ContractInv, DLQJustified
  <2>. QED BY <2>3, <2>4, <2>5 DEF ContractInv
<1>. QED BY <1>2, <1>3 DEF SendMessage

\* Damage strikes a message once, so that what was justified stays so.
LEMMA DamageKeepsContract ==
    ASSUME ContractInv, GInv', NEW n \in 1 .. Len(store), Damage(n) PROVE ContractInv'
<1>1. PICK p : store' = [store EXCEPT ![n].payload = p]
  BY DEF Damage
<1>2. store[n].payload = store[n].sent /\ dlq' = dlq
  BY DEF Damage
<1>3. /\ store \in Seq(Messages) /\ Len(store) \in Nat /\ Len(store') = Len(store)
      /\ \A k \in 1 .. Len(store) :
            /\ store'[k].audience = store[k].audience /\ store'[k].sent = store[k].sent
            /\ k # n => store'[k].payload = store[k].payload
  <2>1. store \in Seq(Messages) /\ store' \in Seq(Messages)
    BY DEF ContractInv, GInv, TypeOK
  <2>. QED BY <1>1, <2>1 DEF Messages
<1>4. \A k \in 1 .. Len(store') : Sound(store'[k])
  BY <1>3 DEF ContractInv, Sound
<1>5. DLQJustified'
  BY <1>2, <1>3 DEF ContractInv, DLQJustified
<1>. QED BY <1>2, <1>3, <1>4, <1>5 DEF ContractInv

\* The indexer gives up on what it cannot resolve.
LEMMA DeadLetterKeepsContract ==
    ASSUME ContractInv, GInv', NEW n \in 1 .. Len(store), DeadLettered(n) PROVE ContractInv'
<1>1. dlq' = dlq \cup {n} /\ store' = store /\ ExtractVisibility(store[n].payload).err # "none"
  BY DEF DeadLettered, Extracted
<1>2. ~(OneObject(store[n].payload) /\ Resolvable(store[n].payload))
  BY <1>1 DEF ExtractVisibility
<1>3. store[n].payload # store[n].sent \/ store[n].audience = {}
  BY <1>2 DEF ContractInv, Sound
<1>. QED BY <1>1, <1>3 DEF ContractInv, DLQJustified

LEMMA StepContractInv == ASSUME ContractInv, [AllNext]_AllVars PROVE ContractInv'
<1>1. CASE Next
  <2>1. GInv'
    BY <1>1, NextGInv DEF ContractInv
  <2>2. CASE SendMessage(Broadcast)
    BY <2>1, <2>2, NoticesSound, SendKeepsContract
  <2>3. ASSUME NEW l \in Lists, SendMessage(Directed(l)) PROVE ContractInv'
    BY <2>1, <2>3, NoticesSound, SendKeepsContract
  <2>4. ASSUME NEW u \in SUBSET (Uids \cup {Empty}), SendGroupMemberBeRemove(u) PROVE ContractInv'
    <3>1. [json |-> "array", uids |-> u] \in Lists
      BY DEF Lists
    <3>. QED BY <2>3, <2>4, <3>1 DEF SendGroupMemberBeRemove
  <2>5. ASSUME NEW n \in 1 .. Len(store), Indexed(n) PROVE ContractInv'
    BY <2>1, <2>5 DEF Indexed, ContractInv, DLQJustified
  <2>. QED
    BY <1>1, <2>1, <2>2, <2>3, <2>4, <2>5, DamageKeepsContract, DeadLetterKeepsContract
       DEF Next, SendGroupCreate, SendUnableAddDestoryAccountInGroup, SendGroupUpdate,
           SendGroupMemberAdd, SendGroupUpgrade, SendGroupMemberRemove, SendGroupMemberScanJoin,
           SendGroupTransferGrouper, SendGroupMemberUpdate, SendGroupMemberInviteReq, SendGroupExit
<1>2. CASE UNCHANGED vars
  <2>1. GInv'
    BY <1>2, NextGInv DEF ContractInv
  <2>. QED BY <1>2, <2>1 DEF vars, ContractInv, DLQJustified
<1>. QED BY <1>1, <1>2 DEF AllNext, AllVars

\* ExtractVisibility gives every payload of the shared vectors the result that the
\* vector expects, for all uids and spaces.
LEMMA VectorsAgree ==
    ASSUME NEW u \in Uids, NEW w \in Uids, NEW s \in Spaces, NEW v \in FailClosedVisibilityVectors(u, w, s)
    PROVE  ExtractVisibility(v.payload) = v.want
<1>1. ASSUME NEW p, NEW space, NEW uids, v = Pass(p, space, uids),
             p.top = "object", p.tail = "none", space = SpaceID(p),
             \/ p.visibles = "missing" /\ uids = {}
             \/ p.visibles = "array" /\ uids = ValidUids(p.elems) /\ uids # {}
      PROVE  ExtractVisibility(v.payload) = v.want
  BY <1>1 DEF Pass, ExtractVisibility, OneObject, Resolvable
<1>2. ASSUME NEW p, v = Stop(p), ~(OneObject(p) /\ Resolvable(p))
      PROVE  ExtractVisibility(v.payload) = v.want
  BY <1>2 DEF Stop, ExtractVisibility
<1>3. CASE v = Pass(Plain, Empty, {})
  <2> DEFINE p == Plain
  <2>1. p.top = "object" /\ p.tail = "none" /\ p.visibles = "missing" /\ SpaceID(p) = Empty
    BY VisibilityAssumption DEF SpaceID, WithList, Plain
  <2> HIDE DEF p
  <2>. QED BY <1>1, <1>3, <2>1 DEF p
<1>4. CASE v = Pass([Plain EXCEPT !.space = s], s, {})
  <2> DEFINE p == [Plain EXCEPT !.space = s]
  <2>1. p.top = "object" /\ p.tail = "none" /\ p.visibles = "missing" /\ SpaceID(p) = s
    BY VisibilityAssumption DEF SpaceID, WithList, Plain
  <2> HIDE DEF p
  <2>. QED BY <1>1, <1>4, <2>1 DEF p
<1>5. CASE v = Pass(WithList({u}), Empty, {u})
  <2> DEFINE p == WithList({u})
  <2>1. p.top = "object" /\ p.tail = "none" /\ p.visibles = "array" /\ SpaceID(p) = Empty
    BY VisibilityAssumption DEF SpaceID, WithList, Plain
  <2>2. ValidUids(p.elems) = {u}
    BY VisibilityAssumption DEF ValidUids, WithList, Plain
  <2> HIDE DEF p
  <2>. QED BY <1>1, <1>5, <2>1, <2>2 DEF p
<1>6. CASE v = Pass([WithList({u, w}) EXCEPT !.space = s], s, {u, w})
  <2> DEFINE p == [WithList({u, w}) EXCEPT !.space = s]
  <2>1. p.top = "object" /\ p.tail = "none" /\ p.visibles = "array" /\ SpaceID(p) = s
    BY VisibilityAssumption DEF SpaceID, WithList, Plain
  <2>2. ValidUids(p.elems) = {u, w}
    BY VisibilityAssumption DEF ValidUids, WithList, Plain
  <2> HIDE DEF p
  <2>. QED BY <1>1, <1>6, <2>1, <2>2 DEF p
<1>7. CASE v = Pass([WithList({u, w}) EXCEPT !.space = NonString], Empty, {u, w})
  <2> DEFINE p == [WithList({u, w}) EXCEPT !.space = NonString]
  <2>1. p.top = "object" /\ p.tail = "none" /\ p.visibles = "array" /\ SpaceID(p) = Empty
    BY VisibilityAssumption DEF SpaceID, WithList, Plain
  <2>2. ValidUids(p.elems) = {u, w}
    BY VisibilityAssumption DEF ValidUids, WithList, Plain
  <2> HIDE DEF p
  <2>. QED BY <1>1, <1>7, <2>1, <2>2 DEF p
<1>8. CASE v = Pass(WithList({u, NonString, Empty, w}), Empty, {u, w})
  <2> DEFINE p == WithList({u, NonString, Empty, w})
  <2>1. p.top = "object" /\ p.tail = "none" /\ p.visibles = "array" /\ SpaceID(p) = Empty
    BY VisibilityAssumption DEF SpaceID, WithList, Plain
  <2>2. ValidUids(p.elems) = {u, w}
    BY VisibilityAssumption DEF ValidUids, WithList, Plain
  <2> HIDE DEF p
  <2>. QED BY <1>1, <1>8, <2>1, <2>2 DEF p
<1>9. CASE \E t \in {"broken", "other", "null"} : v = Stop([Plain EXCEPT !.top = t])
  BY <1>2, <1>9 DEF OneObject, Resolvable, Plain
<1>10. CASE v = Stop([Plain EXCEPT !.tail = "data"])
  BY <1>2, <1>10 DEF OneObject, Resolvable, Plain
<1>11. CASE \E t \in {"other", "null"} : v = Stop([Plain EXCEPT !.visibles = t])
  BY <1>2, <1>11 DEF OneObject, Resolvable, Plain
<1>12. CASE \E elems \in {{}, {NonString, Empty}, {Empty}} : v = Stop(WithList(elems))
  BY <1>2, <1>12, VisibilityAssumption DEF OneObject, Resolvable, ValidUids, WithList, Plain
<1>. QED BY <1>3, <1>4, <1>5, <1>6, <1>7, <1>8, <1>9, <1>10, <1>11, <1>12 DEF FailClosedVisibilityVectors

\* What is dead-lettered was damaged or named nobody, documents have the shape of
\* the contract, and the shared vectors get their results.
THEOREM ContractIsKept == AllSpec => []ContractKept
<1>1. AllInit => ContractInv
  <2>1. Init => GInv
    BY InitGInv
  <2>. QED BY <2>1 DEF AllInit, Init, ContractInv, DLQJustified
<1>2. ContractInv => ContractKept
  <2>1. ASSUME ContractInv PROVE VectorsHold
    BY VectorsAgree DEF VectorsHold, Extracted
  <2>. QED BY <2>1 DEF ContractInv, GInv, ContractKept
<1>. QED BY <1>1, <1>2, StepContractInv, PTL DEF AllSpec

-----------------------------------------------------------------------------
(* Names                                                                   *)

\* The cardinality the names are split by is the one of the library's facts.
LEMMA CountIsCardinality == \A S : Ids!Cardinality(S) = Cardinality(S)
  BY Zenon DEF Ids!Cardinality, Cardinality

\* What names are made of: strings, among them those the formats write.
Written == {"@", "|", "/", ".png", "cover", "_cover", "group", "community"}
Pieces == STRING \cup Written

\* The formats' own pieces are pieces.
LEMMA Separators ==
    /\ "@" \in Pieces /\ "|" \in Pieces /\ "/" \in Pieces /\ ".png" \in Pieces
    /\ "cover" \in Pieces /\ "_cover" \in Pieces /\ "group" \in Pieces /\ "community" \in Pieces
  BY DEF Pieces, Written

\* A name, a separator and another name, taken apart.
Joined(z, x, sep, y) ==
    /\ z \in Seq(Pieces) /\ Len(x) \in Nat /\ Len(y) \in Nat /\ Len(z) = Len(x) + 1 + Len(y)
    /\ \A i \in 1 .. Len(x) : z[i] = x[i]
    /\ z[Len(x) + 1] = sep
    /\ \A i \in 1 .. Len(y) : z[Len(x) + 1 + i] = y[i]

\* What the pieces of two names one after the other are.
LEMMA Concatenated ==
    ASSUME NEW x \in Seq(Pieces), NEW y \in Seq(Pieces)
    PROVE  /\ x \o y \in Seq(Pieces) /\ Len(x) \in Nat /\ Len(y) \in Nat
           /\ Len(x \o y) = Len(x) + Len(y)
           /\ \A i \in 1 .. Len(x) : (x \o y)[i] = x[i]
           /\ \A i \in 1 .. Len(y) : (x \o y)[Len(x) + i] = y[i]
<1> DEFINE z == x \o y
<1>1. Len(x) \in Nat /\ Len(y) \in Nat
  BY LenProperties
<1>2. /\ z \in Seq(Pieces) /\ Len(z) = Len(x) + Len(y)
      /\ \A i \in 1 .. Len(x) + Len(y) : z[i] = IF i <= Len(x) THEN x[i] ELSE y[i - Len(x)]
  BY ConcatProperties
<1> HIDE DEF z
<1>3. ASSUME NEW i \in 1 .. Len(x) PROVE z[i] = x[i]
  BY <1>1, <1>2
<1>4. ASSUME NEW i \in 1 .. Len(y) PROVE z[Len(x) + i] = y[i]
  <2>1. PICK k : k = Len(x) + i
    OBVIOUS
  <2>2. k \in 1 .. Len(x) + Len(y) /\ ~(k <= Len(x)) /\ k - Len(x) = i
    BY <1>1, <2>1
  <2>3. z[k] = IF k <= Len(x) THEN x[k] ELSE y[k - Len(x)]
    BY <1>2, <2>2
  <2>. QED BY <2>1, <2>2, <2>3
<1>. QED BY <1>1, <1>2, <1>3, <1>4 DEF z

\* A format of two names and a separator joins them.
LEMMA JoinedNames ==
    ASSUME NEW x \in Seq(Pieces), NEW y \in Seq(Pieces), NEW sep \in Pieces
    PROVE  Joined(x \o <<sep>> \o y, x, sep, y)
<1> DEFINE m == <<sep>>
           a == x \o m
           z == a \o y
<1>1. m \in Seq(Pieces)
  OBVIOUS
<1>2. Len(m) = 1 /\ m[1] = sep
  OBVIOUS
<1> HIDE DEF m
<1>3. /\ a \in Seq(Pieces) /\ Len(x) \in Nat /\ Len(a) = Len(x) + Len(m)
      /\ \A i \in 1 .. Len(x) : a[i] = x[i]
      /\ \A i \in 1 .. Len(m) : a[Len(x) + i] = m[i]
  BY <1>1, Concatenated
<1> HIDE DEF a
<1>4. Len(a) = Len(x) + 1 /\ a[Len(x) + 1] = sep
  <2>1. 1 \in 1 .. Len(m)
    BY <1>2
  <2>. QED BY <1>2, <1>3, <2>1
<1>5. /\ z \in Seq(Pieces) /\ Len(y) \in Nat /\ Len(z) = Len(a) + Len(y)
      /\ \A i \in 1 .. Len(a) : z[i] = a[i]
      /\ \A i \in 1 .. Len(y) : z[Len(a) + i] = y[i]
  BY <1>3, Concatenated
<1> HIDE DEF z
<1>6. ASSUME NEW i \in 1 .. Len(x) PROVE z[i] = x[i]
  <2>1. i \in 1 .. Len(a)
    BY <1>3, <1>4
  <2>. QED BY <1>3, <1>5, <2>1
<1>7. z[Len(x) + 1] = sep
  <2>1. Len(x) + 1 \in 1 .. Len(a)
    BY <1>3, <1>4
  <2>. QED BY <1>4, <1>5, <2>1
<1>8. Len(z) = Len(x) + 1 + Len(y)
  BY <1>4, <1>5
<1>. QED BY <1>3, <1>4, <1>5, <1>6, <1>7, <1>8 DEF Joined, z, a, m

\* The pieces before and after the separator.
LEMMA JoinedParts ==
    ASSUME NEW x \in Seq(Pieces), NEW y \in Seq(Pieces), NEW sep \in Pieces, NEW z, Joined(z, x, sep, y)
    PROVE  SubSeq(z, 1, Len(x)) = x /\ SubSeq(z, Len(x) + 2, Len(z)) = y
<1>1. /\ z \in Seq(Pieces) /\ Len(x) \in Nat /\ Len(y) \in Nat /\ Len(z) = Len(x) + 1 + Len(y)
      /\ \A i \in 1 .. Len(x) : z[i] = x[i]
      /\ \A i \in 1 .. Len(y) : z[Len(x) + 1 + i] = y[i]
  BY DEF Joined
<1>2. SubSeq(z, 1, Len(x)) = x
  <2> DEFINE s == SubSeq(z, 1, Len(x))
  <2>1. /\ s \in Seq(Pieces) /\ Len(s) = Len(x)
        /\ \A i \in 1 .. Len(x) : s[i] = z[i]
    <3>1. s = [i \in 1 .. Len(x) |-> z[i]]
      BY <1>1
    <3>2. \A i \in 1 .. Len(x) : z[i] \in Pieces
      BY <1>1, ElementOfSeq
    <3>3. s \in [1 .. Len(x) -> Pieces]
      BY <3>1, <3>2
    <3> HIDE DEF s
    <3>. QED BY <1>1, <3>1, <3>3
  <2> HIDE DEF s
  <2>2. \A i \in 1 .. Len(s) : s[i] = x[i]
    BY <1>1, <2>1
  <2>3. s = x
    BY <2>1, <2>2, SeqEqual
  <2>. QED BY <2>3 DEF s
<1>3. SubSeq(z, Len(x) + 2, Len(z)) = y
  <2> DEFINE s == SubSeq(z, Len(x) + 2, Len(z))
  <2>1. s = [i \in 1 .. Len(y) |-> z[Len(x) + 1 + i]]
    BY <1>1
  <2>2. s = [i \in 1 .. Len(y) |-> y[i]]
    BY <1>1, <2>1
  <2>. QED BY <1>1, <2>2, LenProperties
<1>. QED BY <1>2, <1>3

\* Where a joined name is cut.
LEMMA JoinedCuts ==
    ASSUME NEW x \in Seq(Pieces), NEW y \in Seq(Pieces), NEW sep \in Pieces, NEW z, Joined(z, x, sep, y),
           NEW k, k = Len(x) + 1
    PROVE  /\ k \in Ids!Cuts(z, sep) /\ k \in Nat
           /\ ~Ids!Contains(x, sep) => \A j \in Ids!Cuts(z, sep) : k <= j
           /\ ~Ids!Contains(y, sep) => \A j \in Ids!Cuts(z, sep) : j <= k
           /\ \A i \in Ids!Cuts(x, sep) : i \in Ids!Cuts(z, sep) /\ i # k
           /\ \A i \in Ids!Cuts(y, sep) : k + i \in Ids!Cuts(z, sep) /\ k + i # k
<1>1. /\ z \in Seq(Pieces) /\ Len(x) \in Nat /\ Len(y) \in Nat /\ Len(z) = Len(x) + 1 + Len(y)
      /\ \A i \in 1 .. Len(x) : z[i] = x[i]
      /\ z[Len(x) + 1] = sep
      /\ \A i \in 1 .. Len(y) : z[Len(x) + 1 + i] = y[i]
  BY DEF Joined
<1>2. DOMAIN z = 1 .. Len(z) /\ DOMAIN x = 1 .. Len(x) /\ DOMAIN y = 1 .. Len(y)
  BY <1>1, LenProperties
<1>3. k \in 1 .. Len(z) /\ z[k] = sep
  BY <1>1
<1>4. ASSUME NEW j \in 1 .. Len(z), z[j] = sep, j < k
      PROVE  Ids!Contains(x, sep)
  <2>1. j \in 1 .. Len(x)
    BY <1>1, <1>4
  <2>. QED BY <1>1, <1>2, <1>4, <2>1 DEF Ids!Contains, Ids!Cuts
<1>5. ASSUME NEW j \in 1 .. Len(z), z[j] = sep, k < j
      PROVE  Ids!Contains(y, sep)
  <2>1. PICK i \in 1 .. Len(y) : j = Len(x) + 1 + i
    <3>1. j - k \in 1 .. Len(y) /\ j = Len(x) + 1 + (j - k)
      BY <1>1, <1>5
    <3>. QED BY <3>1
  <2>. QED BY <1>1, <1>2, <1>5, <2>1 DEF Ids!Contains, Ids!Cuts
<1>6. ASSUME NEW i \in 1 .. Len(x), x[i] = sep
      PROVE  i \in 1 .. Len(z) /\ z[i] = sep /\ i # k
  BY <1>1, <1>6
<1>7. ASSUME NEW i \in 1 .. Len(y), y[i] = sep
      PROVE  k + i \in 1 .. Len(z) /\ z[k + i] = sep /\ k + i # k
  BY <1>1, <1>7
<1>8. \A j \in 1 .. Len(z) : (~(j < k) => k <= j) /\ (~(k < j) => j <= k)
  BY <1>1
<1>9. k \in Ids!Cuts(z, sep) /\ k \in Nat
  BY <1>1, <1>2, <1>3 DEF Ids!Cuts
<1>10. /\ ~Ids!Contains(x, sep) => \A j \in Ids!Cuts(z, sep) : k <= j
       /\ ~Ids!Contains(y, sep) => \A j \in Ids!Cuts(z, sep) : j <= k
  BY <1>2, <1>4, <1>5, <1>8 DEF Ids!Cuts
<1>11. \A i \in Ids!Cuts(x, sep) : i \in Ids!Cuts(z, sep) /\ i # k
  BY <1>2, <1>6 DEF Ids!Cuts
<1>12. \A i \in Ids!Cuts(y, sep) : k + i \in Ids!Cuts(z, sep) /\ k + i # k
  BY <1>2, <1>7 DEF Ids!Cuts
<1>. QED BY <1>9, <1>10, <1>11, <1>12

\* As many parts as there are separators, and one more.
LEMMA SplitLength ==
    ASSUME NEW z \in Seq(Pieces), NEW sep \in Pieces
    PROVE  /\ IsFiniteSet(Ids!Cuts(z, sep)) /\ Cardinality(Ids!Cuts(z, sep)) \in Nat
           /\ Ids!Cuts(z, sep) \subseteq 1 .. Len(z) /\ Len(z) \in Nat
           /\ Len(Ids!Split(z, sep)) = Cardinality(Ids!Cuts(z, sep)) + 1
<1> DEFINE C == Ids!Cuts(z, sep)
           n == Cardinality(C)
<1>0. Len(z) \in Nat /\ DOMAIN z = 1 .. Len(z)
  BY LenProperties
<1>1. C \subseteq 1 .. Len(z)
  BY <1>0 DEF Ids!Cuts
<1>2. IsFiniteSet(C)
  <2>1. IsFiniteSet(1 .. Len(z))
    BY <1>0, FS_Interval
  <2> HIDE DEF C
  <2>. QED BY <1>1, <2>1, FS_Subset
<1>3. n \in Nat
  <2> HIDE DEF C
  <2>. QED BY <1>2, FS_CardinalityType
<1>4. Ids!Split(z, sep) = [j \in 1 .. n + 1 |-> SubSeq(z, Ids!Cut(z, sep, j - 1) + 1, Ids!Cut(z, sep, j) - 1)]
  BY CountIsCardinality DEF Ids!Split
<1> HIDE DEF n, C
<1>5. Len(Ids!Split(z, sep)) = n + 1
  BY <1>3, <1>4
<1>. QED BY <1>0, <1>1, <1>2, <1>3, <1>5 DEF n, C

\* What comes before the first separator, and what after the only one.
LEMMA SplitAtFirst ==
    ASSUME NEW z \in Seq(Pieces), NEW sep \in Pieces, NEW k \in Ids!Cuts(z, sep),
           \A j \in Ids!Cuts(z, sep) : k <= j
    PROVE  /\ Ids!Split(z, sep)[1] = SubSeq(z, 1, k - 1)
           /\ Ids!Cuts(z, sep) = {k} => Ids!Split(z, sep)[2] = SubSeq(z, k + 1, Len(z))
<1> DEFINE C == Ids!Cuts(z, sep)
           n == Cardinality(C)
           D(i) == {j \in C : j <= i}
<1>1. IsFiniteSet(C) /\ n \in Nat /\ C \subseteq 1 .. Len(z) /\ Len(z) \in Nat
  BY SplitLength
<1>2. n # 0
  BY <1>1, FS_EmptySet, Zenon
<1>4. k \in C /\ k \in Int /\ \A j \in C : k <= j /\ j \in Int
  BY <1>1
<1>5. Ids!Cut(z, sep, 0) = 0
  <2>1. ~(0 = n + 1) /\ 0 = 0
    BY <1>1
  <2>2. ~(0 = Ids!Cardinality(C) + 1)
    BY <2>1, CountIsCardinality
  <2>. QED BY <2>1, <2>2, Zenon DEF Ids!Cut
<1>6. ASSUME NEW i \in C
      PROVE  Ids!Cardinality(D(i)) = 1 <=> i = k
  <2> HIDE DEF C
  <2>1. IsFiniteSet(D(i))
    <3>1. D(i) \in SUBSET C
      OBVIOUS
    <3>. QED BY <1>1, <3>1, FS_Subset
  <2>2. k \in D(i) /\ i \in D(i)
    BY <1>4
  <2>3. i = k => D(i) = {k}
    <3>1. \A j \in C : j <= k => j = k
      BY <1>4
    <3>. QED BY <1>4, <3>1, Zenon
  <2> HIDE DEF D
  <2>4. Cardinality(D(i)) = 1 <=> \E x : D(i) = {x}
    BY <2>1, FS_Singleton
  <2>5. Cardinality(D(i)) = 1 <=> i = k
    <3>1. i = k => \E x : D(i) = {x}
      BY <2>3
    <3>2. ASSUME NEW x, D(i) = {x} PROVE i = k
      BY <2>2, <3>2
    <3>. QED BY <2>4, <3>1, <3>2
  <2>. QED BY <2>5, CountIsCardinality, Zenon
<1>7. Ids!Cut(z, sep, 1) = k
  <2>1. ~(1 = 0) /\ ~(1 = n + 1)
    BY <1>1, <1>2
  <2>2. Ids!Cut(z, sep, 1) = CHOOSE i \in C : Ids!Cardinality(D(i)) = 1
    <3>1. ~(1 = Ids!Cardinality(C) + 1)
      BY <2>1, CountIsCardinality
    <3>. QED BY <2>1, <3>1, Zenon DEF Ids!Cut
  <2> HIDE DEF C, D
  <2>. QED BY <1>4, <1>6, <2>2
<1>8. Ids!Split(z, sep) = [j \in 1 .. n + 1 |-> SubSeq(z, Ids!Cut(z, sep, j - 1) + 1, Ids!Cut(z, sep, j) - 1)]
  BY CountIsCardinality DEF Ids!Split
<1> HIDE DEF n, C
<1>9. Ids!Split(z, sep)[1] = SubSeq(z, 1, k - 1)
  <2>1. 1 \in 1 .. n + 1 /\ 1 - 1 = 0 /\ 0 + 1 = 1
    BY <1>1
  <2>2. Ids!Split(z, sep)[1] = SubSeq(z, Ids!Cut(z, sep, 1 - 1) + 1, Ids!Cut(z, sep, 1) - 1)
    BY <1>8, <2>1
  <2>. QED BY <1>5, <1>7, <2>1, <2>2
<1>10. ASSUME C = {k}
       PROVE  Ids!Split(z, sep)[2] = SubSeq(z, k + 1, Len(z))
  <2>1. n = 1
    BY <1>10, FS_Singleton DEF n
  <2>2. Ids!Cut(z, sep, 2) = Len(z) + 1
    <3>1. 2 = Ids!Cardinality(C) + 1 /\ ~(2 = 0)
      BY <2>1, CountIsCardinality DEF n
    <3>. QED BY <3>1, Zenon DEF Ids!Cut, C
  <2>3. 2 \in 1 .. n + 1 /\ 2 - 1 = 1 /\ (Len(z) + 1) - 1 = Len(z)
    BY <1>1, <2>1
  <2>4. Ids!Split(z, sep)[2] = SubSeq(z, Ids!Cut(z, sep, 2 - 1) + 1, Ids!Cut(z, sep, 2) - 1)
    BY <1>8, <2>3
  <2>. QED BY <1>7, <2>2, <2>3, <2>4
<1>. QED BY <1>9, <1>10 DEF C

\* A joined name leads back to its first part, if that has no separator in it, and
\* to its second one, if that has none either.
LEMMA SplitJoined ==
    ASSUME NEW x \in Seq(Pieces), NEW y \in Seq(Pieces), NEW sep \in Pieces, NEW z, Joined(z, x, sep, y)
    PROVE  /\ Ids!Contains(z, sep)
           /\ ~Ids!Contains(x, sep) => Ids!Split(z, sep)[1] = x
           /\ ~Ids!Contains(x, sep) /\ ~Ids!Contains(y, sep) =>
                 Len(Ids!Split(z, sep)) = 2 /\ Ids!Split(z, sep)[2] = y
           /\ Ids!Contains(x, sep) \/ Ids!Contains(y, sep) => Len(Ids!Split(z, sep)) # 2
<1> DEFINE k == Len(x) + 1
           C == Ids!Cuts(z, sep)
<1>1. z \in Seq(Pieces) /\ Len(x) \in Nat
  BY DEF Joined
<1>2. /\ k \in C /\ k \in Nat
      /\ ~Ids!Contains(x, sep) => \A j \in C : k <= j
      /\ ~Ids!Contains(y, sep) => \A j \in C : j <= k
      /\ \A i \in Ids!Cuts(x, sep) : i \in C /\ i # k
      /\ \A i \in Ids!Cuts(y, sep) : k + i \in C /\ k + i # k
  BY JoinedCuts
<1>3. /\ SubSeq(z, 1, k - 1) = x /\ SubSeq(z, k + 1, Len(z)) = y
  <2>1. k - 1 = Len(x) /\ k + 1 = Len(x) + 2
    BY <1>1
  <2> HIDE DEF k
  <2>. QED BY <2>1, JoinedParts
<1>4. IsFiniteSet(C) /\ Cardinality(C) \in Nat /\ Len(Ids!Split(z, sep)) = Cardinality(C) + 1 /\ C \subseteq 1 .. Len(z)
  BY <1>1, SplitLength
<1> HIDE DEF k
<1>5. Ids!Contains(z, sep)
  BY <1>2 DEF Ids!Contains
<1>6. ASSUME ~Ids!Contains(x, sep)
      PROVE  /\ Ids!Split(z, sep)[1] = x
             /\ C = {k} => Ids!Split(z, sep)[2] = y
  <2>1. \A j \in C : k <= j
    BY <1>2, <1>6
  <2>. QED BY <1>1, <1>2, <1>3, <2>1, SplitAtFirst
<1>7. ASSUME ~Ids!Contains(x, sep), ~Ids!Contains(y, sep)
      PROVE  C = {k} /\ Len(Ids!Split(z, sep)) = 2
  <2>1. \A j \in C : k <= j /\ j <= k /\ j \in Int
    BY <1>2, <1>4, <1>7
  <2>2. \A j \in C : j = k
    BY <1>2, <2>1
  <2> HIDE DEF C
  <2>3. C = {k}
    BY <1>2, <2>2
  <2>4. Cardinality(C) = 1
    BY <2>3, FS_Singleton
  <2>. QED BY <1>4, <2>3, <2>4 DEF C
<1>8. ASSUME Ids!Contains(x, sep) \/ Ids!Contains(y, sep)
      PROVE  Len(Ids!Split(z, sep)) # 2
  <2>1. PICK j \in C : j # k
    BY <1>2, <1>8 DEF Ids!Contains
  <2> HIDE DEF C
  <2>2. ~\E i : C = {i}
    BY <1>2, <2>1
  <2>3. Cardinality(C) # 1
    BY <1>4, <2>2, FS_Singleton
  <2>. QED BY <1>4, <2>3
<1>. QED BY <1>5, <1>6, <1>7, <1>8

\* A uid, as the assumption says: its only "@" is that of a visitor.
LEMMA Uid ==
    ASSUME NEW u \in Names
    PROVE  /\ u \in Seq(Pieces) /\ Len(u) \in Nat /\ HashCrc32[u] \in Nat
           /\ \A i \in 1 .. Len(u) : u[i] = "@" => i = Len(u) - 1 /\ u[Len(u)] = "ht"
<1>1. u \in Seq(STRING) /\ HashCrc32[u] \in Nat
  BY MessagesAssumption DEF Ids!ChannelIdsAssumption
<1>2. DOMAIN u = 1 .. Len(u) /\ Len(u) \in Nat
  BY <1>1, LenProperties
<1>3. u \in Seq(Pieces)
  BY <1>1 DEF Pieces
<1>4. \A i \in DOMAIN u : u[i] = "@" => i = Len(u) - 1 /\ u[Len(u)] = "ht"
  BY MessagesAssumption DEF Ids!ChannelIdsAssumption
<1>. QED BY <1>1, <1>2, <1>3, <1>4

\* The channel of two users: the one with the larger checksum, then the other.
LEMMA Fake ==
    ASSUME NEW u \in Names, NEW w \in Names
    PROVE  \E x, y \in Names :
              /\ (x = u /\ y = w) \/ (x = w /\ y = u)
              /\ Joined(Ids!GetFakeChannelIDWith(u, w), x, "@", y)
<1>1. /\ u \in Seq(Pieces) /\ w \in Seq(Pieces) /\ "@" \in Pieces
  BY Uid, Separators
<1>2. \/ Ids!GetFakeChannelIDWith(u, w) = u \o <<"@">> \o w
      \/ Ids!GetFakeChannelIDWith(u, w) = w \o <<"@">> \o u
  BY DEF Ids!GetFakeChannelIDWith
<1>3. Joined(u \o <<"@">> \o w, u, "@", w) /\ Joined(w \o <<"@">> \o u, w, "@", u)
  BY <1>1, JoinedNames
<1>. QED BY <1>2, <1>3, Zenon

\* If the first part of an id could be a longer one, its "@" would be a visitor's,
\* and what follows would have to begin like a visitor called "ht".
LEMMA NoLonger ==
    ASSUME NEW x \in Names, NEW y \in Names, NEW p \in Names, NEW q \in Names, NEW z,
           Joined(z, x, "@", y), Joined(z, p, "@", q), Len(x) < Len(p)
    PROVE  q = <<"ht">>
<1> DEFINE l == Len(x)
<1>1. /\ l \in Nat /\ Len(y) \in Nat /\ Len(z) = l + 1 + Len(y)
      /\ z[l + 1] = "@"
      /\ \A i \in 1 .. Len(y) : z[l + 1 + i] = y[i]
  BY DEF Joined
<1>2. /\ Len(p) \in Nat /\ Len(q) \in Nat /\ Len(z) = Len(p) + 1 + Len(q)
      /\ \A i \in 1 .. Len(p) : z[i] = p[i]
      /\ z[Len(p) + 1] = "@"
      /\ \A i \in 1 .. Len(q) : z[Len(p) + 1 + i] = q[i]
  BY DEF Joined
<1> HIDE DEF l
<1>3. l < Len(p)
  BY DEF l
<1>4. Len(p) = l + 2 /\ p[Len(p)] = "ht"
  <2>1. l + 1 \in 1 .. Len(p)
    BY <1>1, <1>2, <1>3
  <2>2. p[l + 1] = "@"
    BY <1>1, <1>2, <2>1
  <2>3. l + 1 = Len(p) - 1 /\ p[Len(p)] = "ht"
    BY <2>1, <2>2, Uid
  <2>. QED BY <1>1, <1>2, <2>3
<1>5. Len(y) = 3 /\ y[Len(y)] = "ht"
  <2>1. 2 \in 1 .. Len(y) /\ l + 1 + 2 = Len(p) + 1
    BY <1>1, <1>2, <1>4
  <2>2. y[2] = "@"
    BY <1>1, <1>2, <2>1
  <2>3. 2 = Len(y) - 1 /\ y[Len(y)] = "ht"
    BY <2>1, <2>2, Uid
  <2>. QED BY <1>1, <2>3
<1>6. Len(q) = 1
  <2>1. (l + 2) + 1 + Len(q) = l + 1 + 3
    BY <1>1, <1>2, <1>4, <1>5
  <2>2. \A i, n \in Nat : (i + 2) + 1 + n = i + 1 + 3 => n = 1
    OBVIOUS
  <2>3. l \in Nat /\ Len(q) \in Nat
    BY <1>1, <1>2
  <2>. QED BY <2>1, <2>2, <2>3
<1>7. q[1] = "ht"
  <2>1. 3 \in 1 .. Len(y) /\ 1 \in 1 .. Len(q) /\ l + 1 + 3 = Len(p) + 1 + 1
    BY <1>1, <1>2, <1>4, <1>5, <1>6
  <2>2. z[l + 1 + 3] = y[3] /\ z[Len(p) + 1 + 1] = q[1] /\ y[3] = "ht"
    BY <1>1, <1>2, <1>5, <2>1
  <2>. QED BY <2>1, <2>2
<1>8. q \in Seq(Pieces)
  BY Uid
<1>. QED BY <1>6, <1>7, <1>8

\* An id is that of its two parts, in their order, and of no others.
LEMMA SameParts ==
    ASSUME NEW x \in Names, NEW y \in Names, NEW p \in Names, NEW q \in Names, NEW z,
           Joined(z, x, "@", y), Joined(z, p, "@", q), <<"ht">> \notin {x, y, p, q}
    PROVE  x = p /\ y = q
<1>1. /\ Len(x) \in Nat /\ Len(y) \in Nat /\ Len(z) = Len(x) + 1 + Len(y)
      /\ \A i \in 1 .. Len(x) : z[i] = x[i]
      /\ \A i \in 1 .. Len(y) : z[Len(x) + 1 + i] = y[i]
  BY DEF Joined
<1>2. /\ Len(p) \in Nat /\ Len(q) \in Nat /\ Len(z) = Len(p) + 1 + Len(q)
      /\ \A i \in 1 .. Len(p) : z[i] = p[i]
      /\ \A i \in 1 .. Len(q) : z[Len(p) + 1 + i] = q[i]
  BY DEF Joined
<1>3. ~(Len(x) < Len(p)) /\ ~(Len(p) < Len(x))
  BY NoLonger
<1>4. Len(x) = Len(p)
  BY <1>1, <1>2, <1>3
<1>5. x \in Seq(Pieces) /\ y \in Seq(Pieces) /\ p \in Seq(Pieces) /\ q \in Seq(Pieces)
  BY Uid
<1>6. x = p
  <2>1. \A i \in 1 .. Len(x) : x[i] = p[i]
    BY <1>1, <1>2, <1>4
  <2>. QED BY <1>4, <1>5, <2>1, SeqEqual
<1>7. y = q
  <2>1. Len(y) = Len(q)
    BY <1>1, <1>2, <1>4
  <2>2. \A i \in 1 .. Len(y) : y[i] = q[i]
    BY <1>1, <1>2, <1>4, <2>1
  <2>. QED BY <1>5, <2>1, <2>2, SeqEqual
<1>. QED BY <1>6, <1>7

\* What is known of every name in use.
NamesInv ==
    /\ \A a \in opened : /\ a.from \in Names /\ a.to \in Names
                         /\ a.id = Ids!GetFakeChannelIDWith(a.from, a.to)
    /\ \A d \in desks : /\ d.visitor \in Names /\ d.channel \in Seq(Pieces)
                        /\ d.id = Ids!ComposeCustomerServiceChannelID(d.visitor, d.channel)
    /\ \A x \in objects : /\ x.kind \in {"group", "community", "cover"}
                          /\ x.no \in Numbers /\ x.version \in Versions
                          /\ x.key = Ids!Key(x.kind, x.no, x.version)

\* Two users have one channel, and find each other in it.
LEMMA ConversationsAreOne ==
    ASSUME NamesInv
    PROVE  Ids!OneConversation
<1>1. ASSUME NEW a \in opened, NEW b \in opened, a.from = b.to, a.to = b.from,
             HashCrc32[a.from] # HashCrc32[a.to]
      PROVE  a.id = b.id
  <2>1. PICK u, w : u = a.from /\ w = a.to
    OBVIOUS
  <2>2. /\ u \in Names /\ w \in Names
        /\ a.id = Ids!GetFakeChannelIDWith(u, w) /\ b.id = Ids!GetFakeChannelIDWith(w, u)
    BY <1>1, <2>1 DEF NamesInv
  <2>3. PICK i, k \in Nat : i = HashCrc32[u] /\ k = HashCrc32[w]
    BY <2>2, Uid
  <2>4. (i > k /\ ~(k > i)) \/ (k > i /\ ~(i > k))
    <3>1. i # k
      BY <1>1, <2>1, <2>3
    <3>. QED BY <3>1
  <2>5. /\ a.id = (IF i > k THEN u \o <<"@">> \o w ELSE w \o <<"@">> \o u)
        /\ b.id = (IF k > i THEN w \o <<"@">> \o u ELSE u \o <<"@">> \o w)
    BY <2>2, <2>3, Zenon DEF Ids!GetFakeChannelIDWith
  <2>. QED BY <2>4, <2>5
<1>2. ASSUME NEW a \in opened, NEW b \in opened, a.id = b.id,
             <<"ht">> \notin {a.from, a.to, b.from, b.to}
      PROVE  {a.from, a.to} = {b.from, b.to}
  <2>1. PICK u, w, f, g, z : u = a.from /\ w = a.to /\ f = b.from /\ g = b.to /\ z = a.id
    OBVIOUS
  <2>2. /\ u \in Names /\ w \in Names /\ f \in Names /\ g \in Names
        /\ z = Ids!GetFakeChannelIDWith(u, w) /\ z = Ids!GetFakeChannelIDWith(f, g)
    BY <1>2, <2>1 DEF NamesInv
  <2>3. PICK x, y \in Names : ((x = u /\ y = w) \/ (x = w /\ y = u)) /\ Joined(z, x, "@", y)
    <3>1. \E x, y \in Names : /\ (x = u /\ y = w) \/ (x = w /\ y = u)
                              /\ Joined(Ids!GetFakeChannelIDWith(u, w), x, "@", y)
      BY <2>2, Fake
    <3>. QED BY <2>2, <3>1
  <2>4. PICK p, q \in Names : ((p = f /\ q = g) \/ (p = g /\ q = f)) /\ Joined(z, p, "@", q)
    <3>1. \E p, q \in Names : /\ (p = f /\ q = g) \/ (p = g /\ q = f)
                              /\ Joined(Ids!GetFakeChannelIDWith(f, g), p, "@", q)
      BY <2>2, Fake
    <3>. QED BY <2>2, <3>1
  <2>5. <<"ht">> \notin {x, y, p, q}
    BY <1>2, <2>1, <2>3, <2>4
  <2>6. x = p /\ y = q
    BY <2>3, <2>4, <2>5, SameParts
  <2>7. {u, w} = {f, g}
    BY <2>3, <2>4, <2>6
  <2>. QED BY <2>1, <2>7
<1>3. ASSUME NEW a \in opened
      PROVE  LET visitor == Ids!Contains(a.from, "@") \/ Ids!Contains(a.to, "@")
             IN /\ Ids!GetToChannelIDWithFakeChannelID(a.id, a.from) = IF visitor THEN a.id ELSE a.to
                /\ Ids!GetToChannelIDWithFakeChannelID(a.id, a.to) = IF visitor THEN a.id ELSE a.from
  <2>1. PICK u, w, z : u = a.from /\ w = a.to /\ z = a.id
    OBVIOUS
  <2>2. u \in Names /\ w \in Names /\ z = Ids!GetFakeChannelIDWith(u, w)
    BY <2>1 DEF NamesInv
  <2>3. PICK x, y \in Names : ((x = u /\ y = w) \/ (x = w /\ y = u)) /\ Joined(z, x, "@", y)
    BY <2>2, Fake
  <2>4. PICK s : s = Ids!Split(z, "@")
    OBVIOUS
  <2>5. /\ ~Ids!Contains(x, "@") => s[1] = x
        /\ ~Ids!Contains(x, "@") /\ ~Ids!Contains(y, "@") => Len(s) = 2 /\ s[2] = y
        /\ Ids!Contains(x, "@") \/ Ids!Contains(y, "@") => Len(s) # 2
    BY <2>3, <2>4, Uid, Separators, SplitJoined
  <2>6. \A v : Ids!GetToChannelIDWithFakeChannelID(z, v) = IF Len(s) # 2 THEN z ELSE IF s[1] = v THEN s[2] ELSE s[1]
    BY <2>4 DEF Ids!GetToChannelIDWithFakeChannelID
  <2>7. CASE Ids!Contains(u, "@") \/ Ids!Contains(w, "@")
    <3>1. Len(s) # 2
      BY <2>3, <2>5, <2>7
    <3>2. Ids!GetToChannelIDWithFakeChannelID(z, u) = z /\ Ids!GetToChannelIDWithFakeChannelID(z, w) = z
      BY <2>6, <3>1
    <3>. QED BY <2>1, <2>7, <3>2
  <2>8. CASE ~(Ids!Contains(u, "@") \/ Ids!Contains(w, "@"))
    <3>1. ~Ids!Contains(x, "@") /\ ~Ids!Contains(y, "@")
      BY <2>3, <2>8
    <3>2. Len(s) = 2 /\ s[1] = x /\ s[2] = y
      BY <2>5, <3>1
    <3>3. Ids!GetToChannelIDWithFakeChannelID(z, u) = w /\ Ids!GetToChannelIDWithFakeChannelID(z, w) = u
      BY <2>3, <2>6, <3>2
    <3>. QED BY <2>1, <2>8, <3>3
  <2>. QED BY <2>7, <2>8
<1>. QED BY <1>1, <1>2, <1>3 DEF Ids!OneConversation

\* A desk's id leads back to its parts.
LEMMA DesksAreFound ==
    ASSUME NamesInv
    PROVE  Ids!DeskFound
<1>1. ASSUME NEW d \in desks, ~Ids!Contains(d.visitor, "|")
      PROVE  /\ Ids!GetCustomerServiceVisitorUID(d.id) = [name |-> d.visitor, ok |-> TRUE]
             /\ ~Ids!Contains(d.channel, "|") =>
                   Ids!GetCustomerServiceChannelID(d.id) = [name |-> d.channel, ok |-> TRUE]
  <2>1. PICK v, c, z : v = d.visitor /\ c = d.channel /\ z = d.id
    OBVIOUS
  <2>2. v \in Names /\ c \in Seq(Pieces) /\ z = v \o <<"|">> \o c
    BY <2>1 DEF NamesInv, Ids!ComposeCustomerServiceChannelID
  <2>3. v \in Seq(Pieces) /\ "|" \in Pieces
    BY <2>2, Uid, Separators
  <2>4. Joined(z, v, "|", c)
    BY <2>2, <2>3, JoinedNames
  <2>5. /\ Ids!Contains(z, "|") /\ Ids!Split(z, "|")[1] = v
        /\ ~Ids!Contains(c, "|") => Ids!Split(z, "|")[2] = c
    BY <1>1, <2>1, <2>2, <2>3, <2>4, SplitJoined
  <2>. QED BY <2>1, <2>5 DEF Ids!GetCustomerServiceVisitorUID, Ids!GetCustomerServiceChannelID
<1>2. ASSUME NEW a \in opened, ~Ids!Contains(a.from, "|"), ~Ids!Contains(a.to, "|")
      PROVE  ~Ids!GetCustomerServiceVisitorUID(a.id).ok /\ ~Ids!GetCustomerServiceChannelID(a.id).ok
  <2>1. PICK u, w, z : u = a.from /\ w = a.to /\ z = a.id
    OBVIOUS
  <2>2. u \in Names /\ w \in Names /\ z = Ids!GetFakeChannelIDWith(u, w)
    BY <2>1 DEF NamesInv
  <2>3. PICK x, y \in Names : ((x = u /\ y = w) \/ (x = w /\ y = u)) /\ Joined(z, x, "@", y)
    BY <2>2, Fake
  <2>4. ~Ids!Contains(x, "|") /\ ~Ids!Contains(y, "|")
    BY <1>2, <2>1, <2>3
  <2>5. x \in Seq(Pieces) /\ y \in Seq(Pieces)
    BY Uid
  <2>6. ASSUME NEW i \in 1 .. Len(z) PROVE z[i] # "|"
    <3>1. /\ Len(x) \in Nat /\ Len(y) \in Nat /\ Len(z) = Len(x) + 1 + Len(y)
          /\ \A j \in 1 .. Len(x) : z[j] = x[j]
          /\ z[Len(x) + 1] = "@"
          /\ \A j \in 1 .. Len(y) : z[Len(x) + 1 + j] = y[j]
      BY <2>3 DEF Joined
    <3>2. /\ \A j \in 1 .. Len(x) : x[j] # "|"
          /\ \A j \in 1 .. Len(y) : y[j] # "|"
      <4>1. DOMAIN x = 1 .. Len(x) /\ DOMAIN y = 1 .. Len(y)
        BY <2>5, LenProperties
      <4>. QED BY <2>4, <4>1 DEF Ids!Contains, Ids!Cuts
    <3>3. CASE i \in 1 .. Len(x)
      BY <3>1, <3>2, <3>3
    <3>4. CASE i = Len(x) + 1
      BY <3>1, <3>4
    <3>5. CASE i > Len(x) + 1
      <4>1. PICK j \in 1 .. Len(y) : i = Len(x) + 1 + j
        <5>1. i - (Len(x) + 1) \in 1 .. Len(y) /\ i = Len(x) + 1 + (i - (Len(x) + 1))
          BY <3>1, <3>5
        <5>. QED BY <5>1
      <4>. QED BY <3>1, <3>2, <4>1
    <3>. QED BY <3>1, <3>3, <3>4, <3>5
  <2>7. ~Ids!Contains(z, "|")
    <3>1. DOMAIN z = 1 .. Len(z)
      BY <2>3, LenProperties DEF Joined
    <3>. QED BY <2>6, <3>1 DEF Ids!Contains, Ids!Cuts
  <2>. QED BY <2>1, <2>7 DEF Ids!GetCustomerServiceVisitorUID, Ids!GetCustomerServiceChannelID
<1>. QED BY <1>1, <1>2 DEF Ids!DeskFound

\* The key of an object: four pieces, its number, and a tail that says what it is.
Assembled(z, dir, f, no, t) == z = <<dir, "/", f, "/">> \o no \o t

LEMMA PathAndTail ==
    ASSUME NEW dir \in Pieces, NEW f \in Pieces, NEW no \in Seq(Pieces), NEW t \in Seq(Pieces),
           NEW z, Assembled(z, dir, f, no, t)
    PROVE  /\ Len(no) \in Nat /\ Len(t) \in Nat /\ Len(z) = 4 + Len(no) + Len(t)
           /\ z[1] = dir
           /\ \A i \in 1 .. Len(no) : z[4 + i] = no[i]
           /\ \A i \in 1 .. Len(t) : z[4 + Len(no) + i] = t[i]
<1> DEFINE h == <<dir, "/", f, "/">>
           a == h \o no
<1>1. h \in Seq(Pieces)
  BY Separators
<1>2. Len(h) = 4 /\ h[1] = dir
  OBVIOUS
<1> HIDE DEF h
<1>3. /\ a \in Seq(Pieces) /\ Len(no) \in Nat /\ Len(a) = Len(h) + Len(no)
      /\ \A i \in 1 .. Len(h) : a[i] = h[i]
      /\ \A i \in 1 .. Len(no) : a[Len(h) + i] = no[i]
  BY <1>1, Concatenated
<1> HIDE DEF a
<1>4. /\ z \in Seq(Pieces) /\ Len(t) \in Nat /\ Len(z) = Len(a) + Len(t)
      /\ \A i \in 1 .. Len(a) : z[i] = a[i]
      /\ \A i \in 1 .. Len(t) : z[Len(a) + i] = t[i]
  <2>1. z = a \o t
    BY DEF Assembled, a, h
  <2>2. /\ a \o t \in Seq(Pieces) /\ Len(t) \in Nat /\ Len(a \o t) = Len(a) + Len(t)
        /\ \A i \in 1 .. Len(a) : (a \o t)[i] = a[i]
        /\ \A i \in 1 .. Len(t) : (a \o t)[Len(a) + i] = t[i]
    BY <1>3, Concatenated
  <2>. QED BY <2>1, <2>2, Zenon
<1>5. Len(a) = 4 + Len(no)
  BY <1>2, <1>3
<1>6. z[1] = dir
  <2>1. 1 \in 1 .. Len(h) /\ 1 \in 1 .. Len(a)
    BY <1>2, <1>3, <1>5
  <2>. QED BY <1>2, <1>3, <1>4, <2>1
<1>7. ASSUME NEW i \in 1 .. Len(no) PROVE z[4 + i] = no[i]
  <2>1. 4 + i \in 1 .. Len(a)
    BY <1>3, <1>5
  <2>2. a[4 + i] = no[i]
    BY <1>2, <1>3
  <2>. QED BY <1>4, <2>1, <2>2
<1>. QED BY <1>3, <1>4, <1>5, <1>6, <1>7

\* What tells keys apart: how long the tail is, where it begins and what comes before its end.
TailLength(kind, v) ==
    IF kind = "cover" THEN IF v > 0 THEN 5 ELSE 2 ELSE IF v > 0 THEN 3 ELSE 1

KeyParts(kind, no, v, z) ==
    /\ kind \in {"group", "community", "cover"} /\ v \in Versions /\ v \in Int
    /\ no \in Seq(Pieces) /\ Len(no) \in Nat
    /\ Len(z) = 4 + Len(no) + TailLength(kind, v)
    /\ z[1] = (IF kind = "group" THEN "group" ELSE "community")
    /\ \A i \in 1 .. Len(no) : z[4 + i] = no[i]
    /\ v > 0 => /\ z[4 + Len(no) + 1] = "/"
                /\ z[Len(z) - 1] = FormatInt[v]
    /\ kind = "cover" /\ ~(v > 0) => z[Len(z) - 1] = "_cover"

\* The same, as the length of the tail says it.
LEMMA KeyFromTail ==
    ASSUME NEW kind \in {"group", "community", "cover"}, NEW no \in Seq(Pieces), NEW v \in Versions, v \in Int,
           NEW f \in Pieces, NEW t \in Seq(Pieces), Len(t) = TailLength(kind, v),
           v > 0 => t[1] = "/" /\ t[TailLength(kind, v) - 1] = FormatInt[v],
           kind = "cover" /\ ~(v > 0) => t[1] = "_cover",
           NEW dir \in Pieces, dir = (IF kind = "group" THEN "group" ELSE "community"),
           NEW z, Assembled(z, dir, f, no, t)
    PROVE  KeyParts(kind, no, v, z)
<1>1. /\ Len(no) \in Nat /\ Len(t) \in Nat /\ Len(z) = 4 + Len(no) + Len(t)
      /\ z[1] = dir
      /\ \A i \in 1 .. Len(no) : z[4 + i] = no[i]
      /\ \A i \in 1 .. Len(t) : z[4 + Len(no) + i] = t[i]
  BY PathAndTail
<1>2. PICK n \in Nat : n = Len(t) /\ n = TailLength(kind, v)
  BY <1>1
<1>3. PICK l \in Nat : l = Len(no)
  BY <1>1
<1>4. /\ v > 0 => n >= 3
      /\ kind = "cover" /\ ~(v > 0) => n = 2
  BY <1>2 DEF TailLength
<1>5. ASSUME v > 0
      PROVE  z[4 + Len(no) + 1] = "/" /\ z[Len(z) - 1] = FormatInt[v]
  <2>0. Len(z) - 1 = 4 + Len(no) + (n - 1)
    <3>1. Len(z) = 4 + l + n
      BY <1>1, <1>2, <1>3
    <3>2. (4 + l + n) - 1 = 4 + l + (n - 1)
      OBVIOUS
    <3>. QED BY <1>3, <3>1, <3>2
  <2>1. 1 \in 1 .. Len(t) /\ n - 1 \in 1 .. Len(t) /\ Len(z) - 1 = 4 + Len(no) + (n - 1)
    BY <1>2, <1>4, <1>5, <2>0
  <2>2. z[4 + Len(no) + 1] = t[1] /\ z[4 + Len(no) + (n - 1)] = t[n - 1]
    BY <1>1, <2>1
  <2>3. t[1] = "/" /\ t[n - 1] = FormatInt[v]
    BY <1>2, <1>5
  <2>. QED BY <2>1, <2>2, <2>3
<1>6. ASSUME kind = "cover", ~(v > 0)
      PROVE  z[Len(z) - 1] = "_cover"
  <2>1. 1 \in 1 .. Len(t) /\ Len(z) - 1 = 4 + Len(no) + 1
    BY <1>1, <1>2, <1>3, <1>4, <1>6
  <2>. QED BY <1>1, <1>6, <2>1
<1>. QED BY <1>1, <1>2, <1>5, <1>6 DEF KeyParts

\* The three formats write such keys.
LEMMA KeysHaveParts ==
    ASSUME NEW kind \in {"group", "community", "cover"}, NEW no \in Numbers, NEW v \in Versions
    PROVE  KeyParts(kind, no, v, Ids!Key(kind, no, v))
<1> DEFINE f == FormatInt[HashCrc32[no] % Partition]
           g == FormatInt[v]
<1>1. no \in Seq(Pieces) /\ v \in Int /\ f \in Pieces /\ g \in Pieces
  <2>1. no \in Seq(STRING) /\ f \in STRING /\ v \in Int /\ g \in STRING
    BY MessagesAssumption DEF Ids!ChannelIdsAssumption
  <2> HIDE DEF f, g
  <2>2. no \in Seq(Pieces)
    BY <2>1 DEF Pieces
  <2>3. f \in Pieces /\ g \in Pieces
    BY <2>1 DEF Pieces
  <2>. QED BY <2>1, <2>2, <2>3
<1> DEFINE dir == IF kind = "group" THEN "group" ELSE "community"
           t == IF kind = "cover" THEN IF v > 0 THEN <<"/", "cover", "/", g, ".png">> ELSE <<"_cover", ".png">>
                ELSE IF v > 0 THEN <<"/", g, ".png">> ELSE <<".png">>
<1>2. Assembled(Ids!Key(kind, no, v), dir, f, no, t)
  <2> HIDE DEF f
  <2>1. CASE kind = "group"
    BY <2>1 DEF Assembled, Ids!Key, Ids!GroupAvatar, Ids!Path, f
  <2>2. CASE kind = "community"
    BY <2>2 DEF Assembled, Ids!Key, Ids!CommunityAvatar, Ids!Path, f
  <2>3. CASE kind = "cover"
    BY <2>3 DEF Assembled, Ids!Key, Ids!CommunityCover, Ids!Path, f
  <2>. QED BY <2>1, <2>2, <2>3
<1>3. dir \in Pieces
  BY Separators
<1>4. /\ t \in Seq(Pieces) /\ Len(t) = TailLength(kind, v)
      /\ v > 0 => t[1] = "/" /\ t[TailLength(kind, v) - 1] = g
      /\ kind = "cover" /\ ~(v > 0) => t[1] = "_cover"
  <2> HIDE DEF g
  <2>1. CASE kind = "cover" /\ v > 0
    <3>1. t = <<"/", "cover", "/", g, ".png">> /\ TailLength(kind, v) = 5
      BY <2>1 DEF TailLength
    <3> HIDE DEF t
    <3>. QED BY <1>1, <2>1, <3>1, Separators
  <2>2. CASE kind = "cover" /\ ~(v > 0)
    <3>1. t = <<"_cover", ".png">> /\ TailLength(kind, v) = 2
      BY <2>2 DEF TailLength
    <3> HIDE DEF t
    <3>. QED BY <1>1, <2>2, <3>1, Separators
  <2>3. CASE kind # "cover" /\ v > 0
    <3>1. t = <<"/", g, ".png">> /\ TailLength(kind, v) = 3
      BY <2>3 DEF TailLength
    <3> HIDE DEF t
    <3>. QED BY <1>1, <2>3, <3>1, Separators
  <2>4. CASE kind # "cover" /\ ~(v > 0)
    <3>1. t = <<".png">> /\ TailLength(kind, v) = 1
      BY <2>4 DEF TailLength
    <3> HIDE DEF t
    <3>. QED BY <1>1, <2>4, <3>1, Separators
  <2>. QED BY <2>1, <2>2, <2>3, <2>4
<1> HIDE DEF t, f
<1>5. dir = (IF kind = "group" THEN "group" ELSE "community")
  OBVIOUS
<1> HIDE DEF dir
<1>. QED BY <1>1, <1>2, <1>3, <1>4, <1>5, KeyFromTail

\* A number that is longer than another one with the same key holds what the other's
\* key says after its number: a "/", or "_cover" at the end.
LEMMA NoLongerNumber ==
    ASSUME NEW kind, NEW no, NEW v, NEW z, KeyParts(kind, no, v, z),
           NEW kind2, NEW no2, NEW v2, KeyParts(kind2, no2, v2, z), Ids!OwnNumber(no2)
    PROVE  ~(Len(no) < Len(no2))
<1> SUFFICES ASSUME Len(no) < Len(no2) PROVE FALSE
  OBVIOUS
<1>1. /\ v \in Int /\ Len(no) \in Nat /\ Len(z) = 4 + Len(no) + TailLength(kind, v)
      /\ v > 0 => z[4 + Len(no) + 1] = "/"
      /\ kind = "cover" /\ ~(v > 0) => z[Len(z) - 1] = "_cover"
  BY DEF KeyParts
<1>2. /\ v2 \in Int /\ no2 \in Seq(Pieces) /\ Len(no2) \in Nat /\ Len(z) = 4 + Len(no2) + TailLength(kind2, v2)
      /\ \A i \in 1 .. Len(no2) : z[4 + i] = no2[i]
  BY DEF KeyParts
<1>3. \A i \in 1 .. Len(no2) : no2[i] # "/" /\ (i = Len(no2) => no2[i] # "_cover")
  BY <1>2, LenProperties DEF Ids!OwnNumber
<1>4. PICK n, n2 \in {1, 2, 3, 5} : n = TailLength(kind, v) /\ n2 = TailLength(kind2, v2)
  BY DEF TailLength
<1>5. PICK l, l2 \in Nat : l = Len(no) /\ l2 = Len(no2) /\ l < l2 /\ l + n = l2 + n2
  <2>1. 4 + Len(no) + n = 4 + Len(no2) + n2
    BY <1>1, <1>2, <1>4
  <2>2. \A i, j \in Nat : 4 + i + n = 4 + j + n2 => i + n = j + n2
    OBVIOUS
  <2>. QED BY <1>1, <1>2, <2>1, <2>2
<1>6. CASE v > 0
  <2>1. l + 1 \in 1 .. Len(no2) /\ 4 + Len(no) + 1 = 4 + (l + 1)
    BY <1>5
  <2>2. z[4 + (l + 1)] = "/" /\ z[4 + (l + 1)] = no2[l + 1]
    BY <1>1, <1>2, <1>6, <2>1
  <2>. QED BY <1>3, <2>1, <2>2
<1>7. CASE kind = "cover" /\ ~(v > 0)
  <2>1. n = 2
    BY <1>4, <1>7 DEF TailLength
  <2>2. n2 = 1 /\ l2 = l + 1
    BY <1>5, <2>1
  <2>3. l2 \in 1 .. Len(no2) /\ Len(z) - 1 = 4 + l2
    BY <1>2, <1>4, <1>5, <2>2
  <2>4. z[4 + l2] = "_cover" /\ z[4 + l2] = no2[l2]
    BY <1>1, <1>2, <1>7, <2>3
  <2>. QED BY <1>3, <1>5, <2>3, <2>4
<1>8. CASE kind # "cover" /\ ~(v > 0)
  <2>1. n = 1
    BY <1>4, <1>8 DEF TailLength
  <2>. QED BY <1>5, <2>1
<1>. QED BY <1>6, <1>7, <1>8

\* Equal keys are of equal objects.
LEMMA ObjectsAreApart ==
    ASSUME NamesInv
    PROVE  Ids!ObjectsApart
<1>1. ASSUME NEW x \in objects, NEW y \in objects, x.key = y.key
      PROVE  /\ Ids!OwnNumber(x.no) /\ Ids!OwnNumber(y.no) => x.kind = y.kind /\ x.no = y.no
             /\ x.kind = y.kind /\ x.no = y.no =>
                   x.version = y.version \/ (x.version <= 0 /\ y.version <= 0)
             /\ ~(x.kind = "cover" /\ y.kind = "cover" /\ x.version > 0 /\ y.version <= 0)
  <2>1. PICK k, m, v, h, o, w, z :
           k = x.kind /\ m = x.no /\ v = x.version /\ h = y.kind /\ o = y.no /\ w = y.version /\ z = x.key
    OBVIOUS
  <2>2. KeyParts(k, m, v, z) /\ KeyParts(h, o, w, z)
    <3>1. /\ k \in {"group", "community", "cover"} /\ m \in Numbers /\ v \in Versions /\ z = Ids!Key(k, m, v)
          /\ h \in {"group", "community", "cover"} /\ o \in Numbers /\ w \in Versions /\ z = Ids!Key(h, o, w)
      BY <1>1, <2>1 DEF NamesInv
    <3>. QED BY <3>1, KeysHaveParts
  <2>3. /\ k \in {"group", "community", "cover"} /\ v \in Versions /\ v \in Int /\ m \in Seq(Pieces) /\ Len(m) \in Nat
        /\ Len(z) = 4 + Len(m) + TailLength(k, v)
        /\ z[1] = (IF k = "group" THEN "group" ELSE "community")
        /\ \A i \in 1 .. Len(m) : z[4 + i] = m[i]
        /\ v > 0 => z[Len(z) - 1] = FormatInt[v]
        /\ k = "cover" /\ ~(v > 0) => z[Len(z) - 1] = "_cover"
    BY <2>2 DEF KeyParts
  <2>4. /\ h \in {"group", "community", "cover"} /\ w \in Versions /\ w \in Int /\ o \in Seq(Pieces) /\ Len(o) \in Nat
        /\ Len(z) = 4 + Len(o) + TailLength(h, w)
        /\ z[1] = (IF h = "group" THEN "group" ELSE "community")
        /\ \A i \in 1 .. Len(o) : z[4 + i] = o[i]
        /\ w > 0 => z[Len(z) - 1] = FormatInt[w]
        /\ h = "cover" /\ ~(w > 0) => z[Len(z) - 1] = "_cover"
    BY <2>2 DEF KeyParts
  <2>5. PICK n, n2 \in {1, 2, 3, 5} : n = TailLength(k, v) /\ n2 = TailLength(h, w)
    BY DEF TailLength
  <2>6. PICK l, l2 \in Nat : l = Len(m) /\ l2 = Len(o) /\ l + n = l2 + n2
    <3>1. 4 + Len(m) + n = 4 + Len(o) + n2
      BY <2>3, <2>4, <2>5
    <3>2. \A i, j \in Nat : 4 + i + n = 4 + j + n2 => i + n = j + n2
      OBVIOUS
    <3>. QED BY <2>3, <2>4, <3>1, <3>2
  <2>7. l = l2 => n = n2
    BY <2>6
  <2>8. ASSUME Ids!OwnNumber(m), Ids!OwnNumber(o)
        PROVE  k = h /\ m = o
    <3>1. ~(l < l2) /\ ~(l2 < l)
      BY <2>2, <2>6, <2>8, NoLongerNumber
    <3>2. l = l2
      BY <3>1
    <3>3. \A i \in 1 .. Len(m) : m[i] = o[i]
      BY <2>3, <2>4, <2>6, <3>2
    <3>4. m = o
      BY <2>3, <2>4, <2>6, <3>2, <3>3, SeqEqual
    <3>5. k = "cover" <=> h = "cover"
      BY <2>5, <2>7, <3>2 DEF TailLength
    <3>6. k = "group" <=> h = "group"
      BY <2>3, <2>4
    <3>. QED BY <2>3, <2>4, <3>4, <3>5, <3>6
  <2>9. ASSUME k = h, m = o
        PROVE  v = w \/ (v <= 0 /\ w <= 0)
    <3>1. n = n2
      BY <2>6, <2>7, <2>9
    <3>2. v > 0 <=> w > 0
      BY <2>5, <2>9, <3>1 DEF TailLength
    <3>3. v > 0 => v = w
      <4>1. \A i, j \in Versions : FormatInt[i] = FormatInt[j] => i = j
        BY MessagesAssumption DEF Ids!ChannelIdsAssumption
      <4>. QED BY <2>3, <2>4, <3>2, <4>1
    <3>. QED BY <2>3, <2>4, <3>2, <3>3
  <2>10. ~(k = "cover" /\ h = "cover" /\ v > 0 /\ w <= 0)
    <3>1. FormatInt[v] # "_cover"
      BY <2>3, MessagesAssumption DEF Ids!ChannelIdsAssumption
    <3>2. w <= 0 => ~(w > 0)
      BY <2>4
    <3>. QED BY <2>3, <2>4, <3>1, <3>2
  <2>. QED BY <2>1, <2>8, <2>9, <2>10
<1>. QED BY <1>1, Zenon DEF Ids!ObjectsApart

\* Names are made by the formats only.
LEMMA StepNamesInv ==
    ASSUME NamesInv, [AllNext]_AllVars
    PROVE  NamesInv'
<1>1. CASE UNCHANGED <<opened, desks, objects>>
  BY <1>1 DEF NamesInv
<1>2. ASSUME NEW from \in Names, NEW to \in Names, Ids!Talk(from, to)
      PROVE  NamesInv'
  BY <1>2 DEF NamesInv, Ids!Talk
<1>3. ASSUME NEW v \in Names, NEW c \in Seq(Pieces), Ids!Desk(v, c)
      PROVE  NamesInv'
  BY <1>3 DEF NamesInv, Ids!Desk
<1>4. ASSUME NEW k \in {"group", "community", "cover"}, NEW no \in Numbers, NEW v \in Versions, Ids!Upload(k, no, v)
      PROVE  NamesInv'
  BY <1>4 DEF NamesInv, Ids!Upload
<1>5. ASSUME Ids!Next
      PROVE  NamesInv'
  <2>1. ASSUME NEW u \in Names, NEW w \in Names
        PROVE  /\ u \in Seq(Pieces) /\ Ids!GetFakeChannelIDWith(u, w) \in Seq(Pieces)
               /\ Ids!ComposeCustomerServiceChannelID(u, w) \in Seq(Pieces)
    <3>1. u \in Seq(Pieces) /\ w \in Seq(Pieces) /\ "|" \in Pieces
      BY Uid, Separators
    <3>2. Joined(u \o <<"|">> \o w, u, "|", w)
      BY <3>1, JoinedNames
    <3>3. Ids!GetFakeChannelIDWith(u, w) \in Seq(Pieces)
      BY Fake DEF Joined
    <3>. QED BY <3>1, <3>2, <3>3 DEF Joined, Ids!ComposeCustomerServiceChannelID
  <2>. QED BY <1>2, <1>3, <1>4, <1>5, <2>1 DEF Ids!Next
<1>. QED BY <1>1, <1>5 DEF AllNext, AllVars, idVars

\* GetFakeChannelIDWith, ComposeCustomerServiceChannelID and the object paths, for
\* any checksums, any numbers, and any names whose only "@" is a visitor's: an id is
\* that of its two users and of no others but for a user called "ht", a desk's id
\* leads back to its parts as far as they hold no "|", and an upload overwrites
\* nothing else unless a number holds what the paths write themselves.
THEOREM NamesAreUnique == AllSpec => []NamesLeadBack
<1>1. AllInit => NamesInv
  BY DEF AllInit, Ids!Init, NamesInv
<1>2. NamesInv => NamesLeadBack
  BY ConversationsAreOne, DesksAreFound, ObjectsAreApart DEF NamesLeadBack
<1>. QED BY <1>1, <1>2, StepNamesInv, PTL DEF AllSpec

-----------------------------------------------------------------------------
(* Rich text                                                               *)

\* The payload as the server stores it.
Kept == LET blocks == Rich!Unmarshal(received).content
        IN [content |-> [kind |-> "blocks", blocks |-> blocks], plain |-> Rich!BuildRichTextPlain(blocks)]

\* Only a payload that was found valid is taken further, once its text was measured.
RichInv ==
    /\ received \in [content : Rich!Contents, plain : Rich!Plains]
    /\ checked # <<>> => Rich!ValidateRichTextPayload(received) /\ checked = <<Rich!Unmarshal(received)>>
    /\ \A p \in stored : /\ Rich!ValidateRichTextPayload(received) /\ p = Kept
                         /\ Rich!Size(p) <= RichTextMaxPayloadBytes
    /\ \A s \in shown : s.payload \in stored /\ s.text = Rich!GetRichTextDisplayText(s.payload)

LEMMA KeptIsEncoded ==
    ASSUME Rich!ValidateRichTextPayload(received), received \in [content : Rich!Contents, plain : Rich!Plains]
    PROVE  Rich!Encoded(Rich!FillPlain(Rich!Unmarshal(received))) = Kept
<1>1. received.content.kind \in {"none", "blocks", "string"}
  BY DEF Rich!ValidateRichTextPayload, Rich!Contents
<1>2. PICK c, t : Rich!Unmarshal(received) = [content |-> c, plain |-> t]
  BY <1>1, Zenon DEF Rich!Unmarshal
<1>3. [content |-> c, plain |-> t].content = c
  OBVIOUS
<1>4. Rich!FillPlain([content |-> c, plain |-> t]) = [content |-> c, plain |-> Rich!BuildRichTextPlain(c)]
  BY <1>3 DEF Rich!FillPlain
<1>. QED BY <1>2, <1>3, <1>4 DEF Rich!Encoded, Kept

LEMMA InitRichInv == AllInit => RichInv
  BY DEF AllInit, Rich!Init, RichInv

LEMMA StepRichInv ==
    ASSUME RichInv, [AllNext]_AllVars
    PROVE  RichInv'
<1>1. CASE UNCHANGED <<received, checked, stored, shown>>
  BY <1>1 DEF RichInv, Kept
<1>2. CASE Rich!Validate
  <2>1. /\ UNCHANGED <<received, stored, shown>> /\ Rich!ValidateRichTextPayload(received)
        /\ checked' = <<Rich!Unmarshal(received)>>
    BY <1>2 DEF Rich!Validate
  <2>. QED BY <2>1 DEF RichInv, Kept
<1>3. CASE Rich!Store
  <2>1. /\ UNCHANGED <<received, shown>> /\ checked # <<>> /\ checked' = <<>>
        /\ stored' = stored \cup {Rich!Encoded(Rich!FillPlain(checked[1]))}
        /\ Rich!Size(Rich!Encoded(Rich!FillPlain(checked[1]))) <= RichTextMaxPayloadBytes
    BY <1>3 DEF Rich!Store, Rich!FillPlainBounded
  <2>2. Rich!ValidateRichTextPayload(received) /\ checked[1] = Rich!Unmarshal(received)
    BY <2>1 DEF RichInv
  <2>3. Rich!Encoded(Rich!FillPlain(checked[1])) = Kept
    BY <2>2, KeptIsEncoded DEF RichInv
  <2>. QED BY <2>1, <2>2, <2>3 DEF RichInv, Kept
<1>4. ASSUME NEW p \in stored, Rich!Display(p)
      PROVE  RichInv'
  <2>1. /\ UNCHANGED <<received, checked, stored>>
        /\ shown' = shown \cup {[payload |-> p, text |-> Rich!GetRichTextDisplayText(p)]}
    BY <1>4 DEF Rich!Display
  <2>. QED BY <2>1 DEF RichInv, Kept
<1>. QED BY <1>1, <1>2, <1>3, <1>4 DEF AllNext, AllVars, richVars, Rich!Next

LEMMA ImagesAreLoadable ==
    ASSUME RichInv
    PROVE  Rich!ImagesLoadable
<1> SUFFICES ASSUME NEW p \in stored, NEW b \in Rich!Range(p.content.blocks), b.type = "image"
             PROVE  b.url = "http://host" /\ b.sized
  BY DEF Rich!ImagesLoadable
<1>1. PICK blocks : blocks = Rich!Unmarshal(received).content
  OBVIOUS
<1>2. p.content.blocks = blocks /\ Rich!ValidateRichTextBlocks(blocks)
  BY <1>1 DEF RichInv, Kept, Rich!ValidateRichTextPayload
<1>3. PICK i \in DOMAIN blocks : b = blocks[i]
  BY <1>2 DEF Rich!Range
<1>. QED BY <1>2, <1>3 DEF Rich!ValidateRichTextBlocks, Rich!isAllowedImageURLScheme

\* FillPlainBounded measures what is stored, not what came in, and validation has
\* seen every image of it: for payloads of any length and any limit.
THEOREM StoredWasMeasured == AllSpec => [](Rich!StoredBounded /\ Rich!ImagesLoadable)
<1>1. RichInv => Rich!StoredBounded /\ Rich!ImagesLoadable
  BY ImagesAreLoadable DEF RichInv, Rich!StoredBounded
<1>. QED BY <1>1, InitRichInv, StepRichInv, PTL DEF AllSpec

\* The client's plain is not in the payload that is stored, so what is shown is
\* the text of the blocks, or the fixed name if there is none.
LEMMA ShownIsBuilt ==
    ASSUME RichInv, NEW s \in shown
    PROVE  /\ s.payload \in stored
           /\ ~Rich!IsBlank(Rich!BuildRichTextPlain(s.payload.content.blocks)) =>
                s.text = Rich!BuildRichTextPlain(s.payload.content.blocks)
<1>1. PICK p, blocks : p = s.payload /\ blocks = Rich!Unmarshal(received).content
  OBVIOUS
<1>2. p \in stored /\ s.text = Rich!GetRichTextDisplayText(p)
  BY <1>1 DEF RichInv
<1>3. p = [content |-> [kind |-> "blocks", blocks |-> blocks], plain |-> Rich!BuildRichTextPlain(blocks)]
  BY <1>1, <1>2 DEF RichInv, Kept
<1>4. p.content.kind = "blocks" /\ p.content.blocks = blocks /\ p.plain = Rich!BuildRichTextPlain(blocks)
  BY <1>3
<1>5. Rich!Unmarshal(p) = [content |-> blocks, plain |-> Rich!BuildRichTextPlain(blocks)]
  BY <1>4 DEF Rich!Unmarshal
<1>6. Rich!Unmarshal(p).plain = Rich!BuildRichTextPlain(blocks)
  BY <1>5
<1>7. ~Rich!IsBlank(Rich!BuildRichTextPlain(blocks)) => Rich!GetRichTextDisplayText(p) = Rich!BuildRichTextPlain(blocks)
  BY <1>4, <1>6 DEF Rich!GetRichTextDisplayText
<1>. QED BY <1>1, <1>2, <1>4, <1>7

\* Induction, as the least element of the set of counterexamples.
LEMMA Induct ==
    ASSUME NEW A, 0 \in A, \A n \in Nat : n \in A => n + 1 \in A
    PROVE  \A n \in Nat : n \in A
<1> DEFINE B == Nat \ A
<1> SUFFICES ASSUME B # {} PROVE FALSE
  OBVIOUS
<1>1. PICK x \in B : \A y \in B : ~ (<<y, x>> \in OpToRel(<, Nat))
  <2>1. B \subseteq Nat
    OBVIOUS
  <2>. HIDE DEF B
  <2>. QED BY <2>1, NatLessThanWellFounded, WFMin
<1>2. \A y \in B : ~(y < x)
  BY <1>1 DEF OpToRel
<1>3. x - 1 \in Nat /\ x - 1 < x /\ x = (x - 1) + 1
  OBVIOUS
<1>. QED BY <1>2, <1>3

\* A sequence with one more element.
LEMMA OneMore ==
    ASSUME NEW W, NEW k \in Nat, NEW w \in [1 .. k + 1 -> W]
    PROVE  [j \in 1 .. k |-> w[j]] \o <<w[k + 1]>> = [j \in 1 .. k + 1 |-> w[j]]
<1> DEFINE s == [j \in 1 .. k |-> w[j]]
           t == <<w[k + 1]>>
           z == s \o t
<1>1. s \in Seq(W) /\ Len(s) = k /\ \A j \in 1 .. k : s[j] = w[j]
  <2>1. s \in [1 .. k -> W]
    OBVIOUS
  <2>. QED BY <2>1
<1>2. t \in Seq(W) /\ Len(t) = 1 /\ t[1] = w[k + 1]
  OBVIOUS
<1> HIDE DEF s, t
<1>3. Len(z) = k + 1 /\ \A j \in 1 .. k + 1 : z[j] = IF j <= k THEN s[j] ELSE t[j - k]
  <2>1. /\ Len(z) = Len(s) + Len(t)
        /\ \A j \in 1 .. Len(s) + Len(t) : z[j] = IF j <= Len(s) THEN s[j] ELSE t[j - Len(s)]
    BY <1>1, <1>2, ConcatProperties
  <2>2. Len(s) = k /\ Len(t) = 1
    BY <1>1, <1>2
  <2> HIDE DEF z
  <2>. QED BY <2>1, <2>2
<1>4. z \in Seq(W)
  BY <1>1, <1>2, ConcatProperties
<1> HIDE DEF z
<1>5. z = [j \in 1 .. k + 1 |-> z[j]]
  BY <1>3, <1>4, LenProperties
<1>6. ASSUME NEW j \in 1 .. k + 1 PROVE z[j] = w[j]
  <2>1. CASE j <= k
    BY <1>1, <1>3, <2>1
  <2>2. CASE ~(j <= k)
    <3>1. j = k + 1 /\ j - k = 1
      BY <2>2
    <3>. QED BY <1>2, <1>3, <2>2, <3>1
  <2>. QED BY <2>1, <2>2
<1>. QED BY <1>5, <1>6 DEF z, s, t

\* FlattenSeq of sequences of one element each: one after the other.
LEMMA FlattenOnes ==
    ASSUME NEW W, NEW n \in Nat \ {0}, NEW w \in [1 .. n -> W],
           NEW s, s = [i \in 1 .. n |-> <<w[i]>>]
    PROVE  Rich!FlattenSeq(s) = w
<1> DEFINE Flattens(f) == f = [i \in 1 .. n |-> IF i = 1 THEN s[i] ELSE f[i - 1] \o s[i]]
           g == [i \in 1 .. n |-> [j \in 1 .. i |-> w[j]]]
<1>1. Flattens(g)
  <2>1. g[1] = s[1]
    <3>1. g[1] = [j \in 1 .. 1 |-> w[j]]
      OBVIOUS
    <3>2. s[1] = <<w[1]>>
      OBVIOUS
    <3>3. [j \in 1 .. 1 |-> w[j]] = <<w[1]>>
      OBVIOUS
    <3>. QED BY <3>1, <3>2, <3>3
  <2>2. ASSUME NEW i \in 1 .. n, i # 1 PROVE g[i] = g[i - 1] \o s[i]
    <3>1. PICK k \in Nat : i = k + 1 /\ k \in 1 .. n
      BY <2>2
    <3>2. [j \in 1 .. k |-> w[j]] \o <<w[k + 1]>> = [j \in 1 .. k + 1 |-> w[j]]
      <4>1. PICK v : v = [j \in 1 .. k + 1 |-> w[j]]
        OBVIOUS
      <4>2. v \in [1 .. k + 1 -> W] /\ \A j \in 1 .. k + 1 : v[j] = w[j]
        BY <3>1, <4>1
      <4>3. [j \in 1 .. k |-> v[j]] \o <<v[k + 1]>> = [j \in 1 .. k + 1 |-> v[j]]
        BY <4>2, OneMore
      <4>4. [j \in 1 .. k |-> v[j]] = [j \in 1 .. k |-> w[j]] /\ v[k + 1] = w[k + 1]
        BY <4>2
      <4>. QED BY <4>1, <4>2, <4>3, <4>4
    <3>3. g[i] = [j \in 1 .. k + 1 |-> w[j]] /\ g[i - 1] = [j \in 1 .. k |-> w[j]] /\ s[i] = <<w[k + 1]>>
      BY <3>1
    <3>. QED BY <3>2, <3>3
  <2>3. g = [i \in 1 .. n |-> g[i]]
    OBVIOUS
  <2> HIDE DEF g
  <2>. QED BY <2>1, <2>2, <2>3
<1>2. Len(s) = n /\ ~(Len(s) = 0)
  OBVIOUS
<1>3. PICK f : Rich!FlattenSeq(s) = f[n] /\ Flattens(f)
  <2> DEFINE e == CHOOSE h : Flattens(h)
  <2>1. Rich!FlattenSeq(s) = e[n]
    BY <1>2, Zenon DEF Rich!FlattenSeq
  <2>2. Flattens(e)
    <3> HIDE DEF Flattens, g
    <3>. QED BY <1>1
  <2> HIDE DEF e, Flattens
  <2>. QED BY <2>1, <2>2
<1>0. ASSUME NEW h, Flattens(h)
      PROVE  h[1] = s[1] /\ \A i \in 1 .. n : i # 1 => h[i] = h[i - 1] \o s[i]
  <2>1. \A i \in 1 .. n : h[i] = IF i = 1 THEN s[i] ELSE h[i - 1] \o s[i]
    BY Zenon, <1>0
  <2>2. 1 \in 1 .. n
    OBVIOUS
  <2>. QED BY Zenon, <2>1, <2>2
<1> HIDE DEF Flattens
<1>4. f[1] = s[1] /\ \A i \in 1 .. n : i # 1 => f[i] = f[i - 1] \o s[i]
  BY Zenon, <1>0, <1>3
<1>5. g[1] = s[1] /\ \A i \in 1 .. n : i # 1 => g[i] = g[i - 1] \o s[i]
  <2> HIDE DEF g
  <2>. QED BY Zenon, <1>0, <1>1
<1>6. g[n] = w
  OBVIOUS
<1> HIDE DEF g, Flattens
<1> DEFINE A == {i \in Nat : i + 1 <= n => f[i + 1] = g[i + 1]}
<1>7. \A i \in Nat : i \in A
  <2>1. 0 \in A
    BY <1>4, <1>5
  <2>2. ASSUME NEW i \in Nat, i \in A PROVE i + 1 \in A
    <3> SUFFICES ASSUME (i + 1) + 1 <= n PROVE f[(i + 1) + 1] = g[(i + 1) + 1]
      OBVIOUS
    <3>1. PICK k \in 1 .. n : k = (i + 1) + 1 /\ k # 1 /\ k - 1 = i + 1
      OBVIOUS
    <3>2. f[k - 1] = g[k - 1]
      BY <2>2, <3>1
    <3>3. f[k] = f[k - 1] \o s[k] /\ g[k] = g[k - 1] \o s[k]
      BY <1>4, <1>5, <3>1
    <3>4. f[k] = g[k]
      BY Zenon, <3>2, <3>3
    <3>. QED BY <3>1, <3>4
  <2> HIDE DEF A
  <2>. QED BY <2>1, <2>2, Induct
<1>8. f[n] = g[n]
  <2>1. PICK i \in Nat : i + 1 = n
    <3>1. n - 1 \in Nat /\ (n - 1) + 1 = n
      OBVIOUS
    <3>. QED BY <3>1
  <2>2. i \in A
    BY <1>7
  <2>3. i + 1 <= n => f[i + 1] = g[i + 1]
    BY Zenon, <2>2
  <2>. QED BY <2>1, <2>3
<1>. QED BY Zenon, <1>3, <1>6, <1>8

\* BuildRichTextPlain writes a word for every block: what a text says, and a
\* placeholder for an image.
LEMMA TextIsBuilt ==
    ASSUME NEW p \in [content : Rich!Contents, plain : Rich!Plains], Rich!ValidateRichTextPayload(p)
    PROVE  ~Rich!IsBlank(Rich!BuildRichTextPlain(Rich!Unmarshal(p).content))
<1> DEFINE W == {"hello", "[image]"}
<1>1. PICK blocks : blocks = Rich!Unmarshal(p).content
  OBVIOUS
<1>2. blocks # <<>> /\ Rich!ValidateRichTextBlocks(blocks)
  BY <1>1 DEF Rich!ValidateRichTextPayload
<1>3. PICK n \in Nat : /\ DOMAIN blocks = 1 .. n
                       /\ \A i \in 1 .. n : blocks[i].text \in Rich!Words
                       /\ n = 0 => blocks = <<>>
  <2>1. CASE p.content.kind = "none"
    <3>1. blocks = <<>>
      BY <1>1, <2>1 DEF Rich!Unmarshal
    <3>. QED BY <1>2, <3>1
  <2>2. CASE p.content.kind = "string"
    <3>1. p.content.text \in Rich!Words
      BY <2>2 DEF Rich!Contents
    <3>2. blocks = <<Rich!TextBlock(p.content.text)>>
      BY <1>1, <2>2 DEF Rich!Unmarshal
    <3>3. Rich!TextBlock(p.content.text).text = p.content.text
      BY DEF Rich!TextBlock
    <3>4. PICK b : b = Rich!TextBlock(p.content.text)
      OBVIOUS
    <3>5. DOMAIN <<b>> = 1 .. 1 /\ <<b>>[1] = b /\ \A i \in 1 .. 1 : i = 1
      OBVIOUS
    <3>6. DOMAIN blocks = 1 .. 1 /\ \A i \in 1 .. 1 : blocks[i].text \in Rich!Words
      BY Zenon, <3>1, <3>2, <3>3, <3>4, <3>5
    <3>7. 1 \in Nat /\ 1 # 0
      OBVIOUS
    <3>. QED BY <3>6, <3>7
  <2>3. CASE p.content.kind = "blocks"
    <3>1. p.content.blocks = blocks
      BY <1>1, <2>3 DEF Rich!Unmarshal
    <3>2. PICK n \in Nat : blocks \in [1 .. n -> Rich!Blocks]
      BY <2>3, <3>1 DEF Rich!Contents
    <3>3. \A b \in Rich!Blocks : b.text \in Rich!Words
      BY DEF Rich!Blocks, Rich!Words
    <3>. QED BY <3>2, <3>3
  <2>. QED BY <2>1, <2>2, <2>3 DEF Rich!ValidateRichTextPayload, Rich!Contents
<1>4. ASSUME NEW i \in 1 .. n
      PROVE  blocks[i].type = "image" \/ blocks[i].text = <<"hello">>
  BY <1>2, <1>3 DEF Rich!ValidateRichTextBlocks, Rich!IsBlank, Rich!Words
<1> DEFINE w == [i \in 1 .. n |-> IF blocks[i].type = "image" THEN "[image]" ELSE "hello"]
<1>5. [i \in DOMAIN blocks |-> IF blocks[i].type = "image" THEN <<Rich!Placeholder>> ELSE blocks[i].text]
      = [i \in 1 .. n |-> <<w[i]>>]
  BY <1>3, <1>4 DEF Rich!Placeholder
<1>6. n # 0 /\ w \in [1 .. n -> W]
  BY <1>2, <1>3
<1>7. 1 \in 1 .. n /\ w[1] # " " /\ DOMAIN w = 1 .. n
  <2>1. 1 \in 1 .. n
    BY <1>6
  <2>2. w[1] = IF blocks[1].type = "image" THEN "[image]" ELSE "hello"
    BY Zenon, <2>1
  <2>3. "[image]" # " " /\ "hello" # " "
    OBVIOUS
  <2>. QED BY Zenon, <2>1, <2>2, <2>3
<1> HIDE DEF w, W
<1>8. Rich!BuildRichTextPlain(blocks) = w
  BY <1>5, <1>6, FlattenOnes DEF Rich!BuildRichTextPlain
<1>9. w # <<>> /\ w # <<" ">>
  <2>1. DOMAIN <<>> = {} /\ <<" ">>[1] = " "
    OBVIOUS
  <2>. QED BY Zenon, <1>7, <2>1
<1>. QED BY <1>1, <1>8, <1>9 DEF Rich!IsBlank

\* ValidateRichTextPayload and FillPlainBounded, for payloads of any length and
\* any limit: what is stored was measured as it is stored, its images can be
\* loaded, and what is shown is its own text, which is not blank.
THEOREM RichTextIsSound == AllSpec => []RichTextSound
<1>1. RichInv => RichTextSound
  <2> SUFFICES ASSUME RichInv PROVE RichTextSound
    OBVIOUS
  <2>1. Rich!StoredBounded
    BY DEF RichInv, Rich!StoredBounded
  <2>2. Rich!ImagesLoadable
    BY ImagesAreLoadable
  <2>3. ASSUME NEW s \in shown
        PROVE  s.text = Rich!BuildRichTextPlain(s.payload.content.blocks) /\ ~Rich!IsBlank(s.text)
    <3>1. s.payload \in stored
      BY ShownIsBuilt
    <3>2. s.payload.content.blocks = Rich!Unmarshal(received).content
      BY <3>1 DEF RichInv, Kept
    <3>3. ~Rich!IsBlank(Rich!BuildRichTextPlain(s.payload.content.blocks))
      BY <3>1, <3>2, TextIsBuilt DEF RichInv
    <3>. QED BY <3>3, ShownIsBuilt
  <2>. QED BY <2>1, <2>2, <2>3 DEF RichTextSound, Rich!ShownIsContent
<1>. QED BY <1>1, InitRichInv, StepRichInv, PTL DEF AllSpec
=============================================================================
