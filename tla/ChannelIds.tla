----------------------------- MODULE ChannelIds -----------------------------
(***************************************************************************)
(* The names other systems know things by: the channel of two users        *)
(* (common/msg.go), that of a visitor and a customer service, and the      *)
(* object keys of avatars and covers (config/config.go).  A name is the    *)
(* sequence of its pieces; what a format writes, separators and numbers,   *)
(* is a piece of its own wherever it occurs in a name, so that names are   *)
(* equal when the strings are.                                             *)
(***************************************************************************)
EXTENDS Integers, Sequences, FiniteSets

CONSTANTS Uids,
          Numbers,    \* of groups and communities
          HashCrc32,  \* uid or number -> checksum
          FormatInt,  \* integer -> the piece %d writes
          Partition,  \* Config.Avatar.Partition
          Versions,   \* what callers pass: 0 for none
          MaxNames    \* bound of the model: names of a kind that are in use

VARIABLES opened,     \* conversations: [from, to, id]
          desks,      \* customer service channels: [visitor, channel, id]
          objects     \* uploads: [kind, no, version, key]

idVars == <<opened, desks, objects>>

\* A uid holds no "@" but that of a visitor's "@ht" at its end.  %d writes
\* different numbers differently, and no number as "_cover".
ChannelIdsAssumption ==
    /\ \A u \in Uids : /\ u \in Seq(STRING) /\ HashCrc32[u] \in Nat
                       /\ \A i \in DOMAIN u : u[i] = "@" => i = Len(u) - 1 /\ u[Len(u)] = "ht"
    /\ \A no \in Numbers : no \in Seq(STRING) /\ FormatInt[HashCrc32[no] % Partition] \in STRING
    /\ Versions \subseteq Int
    /\ \A v, w \in Versions : /\ FormatInt[v] \in STRING /\ FormatInt[v] # "_cover"
                              /\ FormatInt[v] = FormatInt[w] => v = w

Init == opened = {} /\ desks = {} /\ objects = {}

\* strings.Contains and strings.Split: the pieces between one cut and the next.
Cuts(s, sep)     == {i \in DOMAIN s : s[i] = sep}
Contains(s, sep) == Cuts(s, sep) # {}
Cut(s, sep, k) ==
    CASE k = 0 -> 0
      [] k = Cardinality(Cuts(s, sep)) + 1 -> Len(s) + 1
      [] OTHER -> CHOOSE i \in Cuts(s, sep) : Cardinality({j \in Cuts(s, sep) : j <= i}) = k
Split(s, sep) ==
    [k \in 1 .. Cardinality(Cuts(s, sep)) + 1 |-> SubSeq(s, Cut(s, sep, k - 1) + 1, Cut(s, sep, k) - 1)]

-----------------------------------------------------------------------------
(* Channels                                                                *)

\* Fault: the order in which they speak.
GetFakeChannelIDWith_Ordered(from, to) == from \o <<"@">> \o to

\* Whose checksum is larger comes first; equal checksums are only logged.
GetFakeChannelIDWith(from, to) ==
    IF HashCrc32[from] > HashCrc32[to] THEN from \o <<"@">> \o to ELSE to \o <<"@">> \o from

GetToChannelIDWithFakeChannelID(id, uid) ==
    LET ids == Split(id, "@")
    IN IF Len(ids) # 2 THEN id ELSE IF ids[1] = uid THEN ids[2] ELSE ids[1]

Talk(from, to) ==
    /\ Cardinality(opened) < MaxNames
    /\ opened' = opened \cup {[from |-> from, to |-> to, id |-> GetFakeChannelIDWith(from, to)]}
    /\ UNCHANGED <<desks, objects>>

ComposeCustomerServiceChannelID(vid, channel) == vid \o <<"|">> \o channel

GetCustomerServiceChannelID(id) ==
    IF Contains(id, "|") THEN [name |-> Split(id, "|")[2], ok |-> TRUE] ELSE [name |-> <<>>, ok |-> FALSE]
GetCustomerServiceVisitorUID(id) ==
    IF Contains(id, "|") THEN [name |-> Split(id, "|")[1], ok |-> TRUE] ELSE [name |-> <<>>, ok |-> FALSE]

Desk(visitor, channel) ==
    /\ Cardinality(desks) < MaxNames
    /\ desks' = desks \cup {[visitor |-> visitor, channel |-> channel,
                             id |-> ComposeCustomerServiceChannelID(visitor, channel)]}
    /\ UNCHANGED <<opened, objects>>

-----------------------------------------------------------------------------
(* Object keys                                                             *)

Path(dir, no) == <<dir, "/", FormatInt[HashCrc32[no] % Partition], "/">> \o no

GroupAvatar(no, v) ==
    Path("group", no) \o (IF v > 0 THEN <<"/", FormatInt[v], ".png">> ELSE <<".png">>)
CommunityAvatar(no, v) ==
    Path("community", no) \o (IF v > 0 THEN <<"/", FormatInt[v], ".png">> ELSE <<".png">>)
CommunityCover(no, v) ==
    Path("community", no) \o (IF v > 0 THEN <<"/", "cover", "/", FormatInt[v], ".png">>
                                       ELSE <<"_cover", ".png">>)

Key(kind, no, v) ==
    CASE kind = "group" -> GroupAvatar(no, v)
      [] kind = "community" -> CommunityAvatar(no, v)
      [] kind = "cover" -> CommunityCover(no, v)

Upload(kind, no, v) ==
    /\ Cardinality(objects) < MaxNames
    /\ objects' = objects \cup {[kind |-> kind, no |-> no, version |-> v, key |-> Key(kind, no, v)]}
    /\ UNCHANGED <<opened, desks>>

\* The channel of a desk is a user's, or that of two users, or a desk's again.
Next ==
    \/ objects = {} /\ desks = {} /\ \E from, to \in Uids : Talk(from, to)
    \/ objects = {} /\ opened = {} /\ \E v, u, w \in Uids :
          \/ Desk(v, u) \/ Desk(v, GetFakeChannelIDWith(u, w))
          \/ Desk(v, ComposeCustomerServiceChannelID(u, w))
    \/ opened = {} /\ desks = {}
       /\ \E k \in {"group", "community", "cover"}, no \in Numbers, v \in Versions : Upload(k, no, v)

Spec == Init /\ [][Next]_idVars

-----------------------------------------------------------------------------
(* Properties                                                              *)

\* Two users whose checksums differ have one channel, whoever speaks first; no
\* other pair has it, visitors included, but for a user who is called "ht".  From
\* the channel's id each finds the other, or the id itself when one of them is a
\* visitor, and never a third one.
OneConversation ==
    /\ \A a, b \in opened : a.from = b.to /\ a.to = b.from /\ HashCrc32[a.from] # HashCrc32[a.to] =>
          a.id = b.id
    /\ \A a, b \in opened : a.id = b.id /\ <<"ht">> \notin {a.from, a.to, b.from, b.to} =>
          {a.from, a.to} = {b.from, b.to}
    /\ \A a \in opened :
          LET visitor == Contains(a.from, "@") \/ Contains(a.to, "@")
          IN /\ GetToChannelIDWithFakeChannelID(a.id, a.from) = IF visitor THEN a.id ELSE a.to
             /\ GetToChannelIDWithFakeChannelID(a.id, a.to) = IF visitor THEN a.id ELSE a.from

\* A desk's id leads back to its visitor, whatever the channel, and to a channel
\* that is not a desk itself; and the channel of two users is not taken for a desk.
DeskFound ==
    /\ \A d \in desks : ~Contains(d.visitor, "|") =>
          /\ GetCustomerServiceVisitorUID(d.id) = [name |-> d.visitor, ok |-> TRUE]
          /\ ~Contains(d.channel, "|") =>
                GetCustomerServiceChannelID(d.id) = [name |-> d.channel, ok |-> TRUE]
    /\ \A a \in opened : ~Contains(a.from, "|") /\ ~Contains(a.to, "|") =>
          ~GetCustomerServiceVisitorUID(a.id).ok /\ ~GetCustomerServiceChannelID(a.id).ok

\* No upload overwrites the object of something else, as long as no number holds
\* a "/" or ends in "_cover"; whatever the number, every version has an object of
\* its own - a cache that ignores the query string never shows an old picture as the
\* new one - and no versioned cover is a cover of the old form.
OwnNumber(no) == \A i \in DOMAIN no : no[i] # "/" /\ (i = Len(no) => no[i] # "_cover")
ObjectsApart ==
    \A x, y \in objects : x.key = y.key =>
        /\ OwnNumber(x.no) /\ OwnNumber(y.no) => x.kind = y.kind /\ x.no = y.no
        /\ x.kind = y.kind /\ x.no = y.no =>
              x.version = y.version \/ (x.version <= 0 /\ y.version <= 0)
        /\ ~(x.kind = "cover" /\ y.kind = "cover" /\ x.version > 0 /\ y.version <= 0)
=============================================================================
