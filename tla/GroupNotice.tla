----------------------------- MODULE GroupNotice -----------------------------
(***************************************************************************)
(* From the senders of config/msg_group.go to the search index.  A sender  *)
(* builds a notice and posts it to the IM server; the indexer extracts its *)
(* visibility from the stored payload and either indexes it or puts it     *)
(* into the dead letter queue.  The reader lets everybody find a document  *)
(* whose whitelist is empty.                                               *)
(*                                                                         *)
(* Of a notice only the key visibles is kept: whom it is meant for.  The   *)
(* storage, the delivery to the indexer and the reader are not part of the *)
(* library; they are as visibility.go and searchmsg.go describe them.      *)
(***************************************************************************)
EXTENDS Visibility, Integers, Sequences

CONSTANTS MaxNotices  \* bound of the model: messages on the server

ASSUME NoticeAssumption == MaxNotices \in Nat

VARIABLES
    store,  \* messages on the IM server; the position is the message id
    index,  \* documents of the search index
    dlq     \* ids in the dead letter queue

vars == <<store, index, dlq>>

\* A []string argument: nil is encoded as null, an empty slice as [].
Lists == {[json |-> "null", uids |-> {}]}
         \cup [json : {"array"}, uids : SUBSET (Uids \cup {Empty})]

Messages ==
    [sent     : Payloads,      \* the payload as posted
     payload  : Payloads,      \* the payload the indexer will read
     audience : SUBSET Uids]   \* who is meant to see it

Documents == [id : 1 .. MaxNotices, space : Spaces \cup {Empty}, visibles : SUBSET Uids]

\* What is stored, indexed and dead-lettered has the shape the contract gives it:
\* no document carries an empty or non-string uid.
TypeOK ==
    /\ store \in Seq(Messages)
    /\ index \subseteq Documents
    /\ dlq \subseteq 1 .. MaxNotices

Init == store = <<>> /\ index = {} /\ dlq = {}

-----------------------------------------------------------------------------
\* SendMessage: on an error the IM server may have the message or not.
SendMessage(m) ==
    /\ Len(store) < MaxNotices
    /\ store' = Append(store, m) \/ store' = store
    /\ UNCHANGED <<index, dlq>>

\* A notice without the key visibles is meant for the whole group.
Broadcast == [sent |-> Plain, payload |-> Plain, audience |-> Uids]

ListPayload(list) == [Plain EXCEPT !.visibles = list.json, !.elems = list.uids]

Directed(list) == [sent     |-> ListPayload(list),
                   payload  |-> ListPayload(list),
                   audience |-> list.uids \cap Uids]

SendGroupCreate == SendMessage(Broadcast)
SendUnableAddDestoryAccountInGroup == SendMessage(Broadcast)
SendGroupUpdate == SendMessage(Broadcast)
SendGroupMemberAdd == SendMessage(Broadcast)
SendGroupUpgrade == SendMessage(Broadcast)
SendGroupMemberRemove == SendMessage(Broadcast)
SendGroupMemberScanJoin == SendMessage(Broadcast)
SendGroupTransferGrouper == SendMessage(Broadcast)
SendGroupMemberUpdate == SendMessage(Broadcast)

\* Nothing is sent without members; a member with an empty UID counts.
SendGroupMemberBeRemove(uids) ==
    /\ uids # {}
    /\ SendMessage(Directed([json |-> "array", uids |-> uids]))

SendGroupMemberInviteReq(list) == SendMessage(Directed(list))

SendGroupExit(list) == SendMessage(Directed(list))

-----------------------------------------------------------------------------
\* What a payload can decay to on its way: cut off or overwritten, followed by
\* data, or with a whitelist that lost elements or its shape - but not its key.
Cut(p)     == {[p EXCEPT !.top = t] : t \in {"null", "other", "broken"}}
Trailed(p) == {[p EXCEPT !.tail = "data"]}
Emptied(p) == {[p EXCEPT !.visibles = v, !.elems = {}] : v \in {"null", "other"}}
Thinned(p) == {[p EXCEPT !.elems = e] : e \in SUBSET (p.elems \cup {NonString})}

Damaged(p) ==
    Cut(p) \cup Trailed(p)
    \cup (IF p.visibles # "missing" THEN Emptied(p) ELSE {})
    \cup (IF p.visibles = "array" THEN Thinned(p) ELSE {})

\* A message decays at most once.
Damage(n) ==
    /\ store[n].payload = store[n].sent
    /\ \E p \in Damaged(store[n].sent) : store' = [store EXCEPT ![n].payload = p]
    /\ UNCHANGED <<index, dlq>>

\* The indexer takes message n, for the first time or again; the id of a
\* document is the id of its message.
Extracted(n) == ExtractVisibility(store[n].payload)

Indexed(n) ==
    /\ Extracted(n).err = "none"
    /\ index' = {d \in index : d.id # n}
                \cup {[id |-> n, space |-> Extracted(n).space, visibles |-> Extracted(n).visibles]}
    /\ UNCHANGED <<store, dlq>>

DeadLettered(n) ==
    /\ Extracted(n).err # "none"
    /\ dlq' = dlq \cup {n}
    /\ UNCHANGED <<store, index>>

Next ==
    \/ SendGroupCreate \/ SendUnableAddDestoryAccountInGroup \/ SendGroupUpdate
    \/ SendGroupMemberAdd \/ SendGroupUpgrade \/ SendGroupMemberRemove
    \/ SendGroupMemberScanJoin \/ SendGroupTransferGrouper \/ SendGroupMemberUpdate
    \/ \E s \in SUBSET (Uids \cup {Empty}) : SendGroupMemberBeRemove(s)
    \/ \E l \in Lists : SendGroupMemberInviteReq(l) \/ SendGroupExit(l)
    \/ \E n \in 1 .. Len(store) : Damage(n) \/ Indexed(n) \/ DeadLettered(n)

Spec == Init /\ [][Next]_vars

-----------------------------------------------------------------------------
(* Properties                                                              *)

\* The reader: an empty whitelist lets every member of the channel through.
Searchable(d, u) == d.visibles = {} \/ u \in d.visibles

\* ExtractVisibility, "fail-closed": whatever happened to a payload short of
\* losing the key visibles, nobody finds a notice not meant for him.
NoLeak == \A d \in index : \A u \in Uids : Searchable(d, u) => u \in store[d.id].audience

\* ... but ordinary messages are not swept into the dead letter queue: what is
\* there was damaged or named nobody from the start.
DLQJustified ==
    \A n \in dlq : store[n].payload # store[n].sent \/ store[n].audience = {}

\* Whatever reaches the indexer, intact or damaged, and is the payload of one of
\* the shared vectors, is given the result this vector expects.
VectorsHold ==
    \A n \in DOMAIN store, u, w \in Uids, s \in Spaces :
        \A v \in FailClosedVisibilityVectors(u, w, s) :
            store[n].payload = v.payload => Extracted(n) = v.want

\* Case 3 of ExtractVisibility: the list behind the key visibles is not empty
\* when a directed notice is sent.
WhitelistSent ==
    \A n \in DOMAIN store : store[n].sent.visibles # "missing" => store[n].sent.elems # {}
=============================================================================
