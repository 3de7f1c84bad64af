------------------------------ MODULE IMClient ------------------------------
(***************************************************************************)
(* config/msg.go, msg_channel.go, msg_personal.go, msg_rtc.go, stream.go   *)
(* and pkg/network/network.go: the client of the IM server.  Every call is *)
(* one HTTP request; what the caller is told depends on the answer and on  *)
(* how the call judges it.  The IM server is external: it accepts or       *)
(* refuses a request, and its answer may be lost, replaced by a gateway's  *)
(* or damaged.  A request whose connection broke may still arrive.         *)
(***************************************************************************)
EXTENDS Integers, FiniteSets

CONSTANTS Callers,
          MaxRequests   \* bound of the model: calls that are made

VARIABLES testing,   \* Config.Test
          rpc,       \* per caller: the call under way, or [st |-> "idle"]
          sentCalls, \* calls so far: their numbers
          late,      \* requests on a broken connection
          applied,   \* IM: [n, req] of the requests it has executed
          inbox,     \* IM: the messages it has accepted, as the request says
          streams,   \* IM: stream numbers opened, [no, n, open]
          results,   \* what the callers were told: [n, req, ok, value]
          payload,   \* per caller: the payload map it reuses, key -> value
          streamOf   \* per caller: the stream number it was given

imVars == <<testing, rpc, sentCalls, late, applied, inbox, streams, results, payload, streamOf>>

Idle == [st |-> "idle"]

\* make(map[string]interface{})
NoKeys == [k \in {} |-> ""]

Init ==
    /\ testing \in BOOLEAN
    /\ rpc = [c \in Callers |-> Idle]
    /\ sentCalls = 0
    /\ late = {} /\ applied = {} /\ inbox = {} /\ streams = {} /\ results = {}
    /\ payload = [c \in Callers |-> NoKeys]
    /\ streamOf = [c \in Callers |-> 0]

-----------------------------------------------------------------------------
(* Calls.  A request is its path and how its answer is judged; that of a   *)
(* message carries the message, that of a stream its number.               *)

Request(api, judge) == [api |-> api, judge |-> judge]

Post(c, req) ==
    /\ rpc[c] = Idle /\ sentCalls < MaxRequests
    /\ sentCalls' = sentCalls + 1
    /\ rpc' = [rpc EXCEPT ![c] = [st |-> "sent", n |-> sentCalls + 1, req |-> req]]
    /\ UNCHANGED <<testing, late, applied, inbox, streams, results>>

Call(c, req) == Post(c, req) /\ UNCHANGED <<payload, streamOf>>

UpdateIMToken(c)            == Call(c, Request("user/token", "parsed"))
QuitUserDevice(c)           == Call(c, Request("user/device_quit", "status"))
SendMessageBatch(c)         == Call(c, Request("message/sendbatch", "handled"))
IMCreateOrUpdateChannel(c)  == \E a \in {"channel/info", "channel"} : Call(c, Request(a, "handled"))
IMBlacklist(c)              == \E a \in {"blacklist_add", "blacklist_set", "blacklist_remove"} :
                                  Call(c, Request(a, "handled"))
IMWhitelist(c)              == \E a \in {"whitelist_add", "whitelist_set", "whitelist_remove"} :
                                  Call(c, Request(a, "handled"))
IMAddSubscriber(c)          == Call(c, Request("subscriber_add", "status"))
IMRemoveSubscriber(c)       == Call(c, Request("subscriber_remove", "handled"))
IMGetConversations(c)       == Call(c, Request("conversations", "parsed"))
IMClearConversation(c)      == \E a \in {"setUnread", "delete"} : Call(c, Request(a, "handled"))
IMSyncUserConversation(c)   == Call(c, Request("conversation/sync", "parsed"))
IMGetChannelMaxSeq(c)       == Call(c, Request("max_message_seq", "parsed"))
IMGetWithChannelAndSeqs(c)  == Call(c, Request("messages of seqs", "parsed"))
IMSearchMessages(c)         == Call(c, Request("messages", "parsed"))
IMSyncChannelMessage(c)     == Call(c, Request("channel/messagesync", "parsed"))
IMSyncMessage(c)            == Call(c, Request("message/sync", "parsed"))
IMSyncMessageAck(c)         == Call(c, Request("message/syncack", "handled"))
IMRevokeMessage(c)          == Call(c, Request("message/revoke", "handled"))
IMDelChannel(c)             == Call(c, Request("channel/delete", "handled"))
IMSearchUserMessages(c)     == Call(c, Request("usersearch", "parsed"))

\* In test mode the answer is nil without a request.
IMSOnlineStatus(c) ==
    \/ ~testing /\ Call(c, Request("onlinestatus", "parsed"))
    \/ /\ testing /\ rpc[c] = Idle /\ sentCalls < MaxRequests
       /\ sentCalls' = sentCalls + 1
       /\ results' = results \cup {[n |-> sentCalls + 1, req |-> Request("onlinestatus", "test"),
                                   ok |-> TRUE, value |-> 0]}
       /\ UNCHANGED <<testing, rpc, late, applied, inbox, streams, payload, streamOf>>

\* A Setting is packed into a byte: receipt, no conversation update, signal.
Bit(b) == IF b THEN 1 ELSE 0

ToUint8(s) == 128 * Bit(s.receipt) + 64 * Bit(s.noUpdate) + 32 * Bit(s.signal)

SettingFromUint8(v) ==
    [receipt |-> (v \div 128) % 2 > 0, noUpdate |-> (v \div 64) % 2 > 0, signal |-> (v \div 32) % 2 > 0]

NoSetting == [receipt |-> FALSE, noUpdate |-> FALSE, signal |-> FALSE]

Message(kind, redDot, syncOnce, noPersist, setting) ==
    [kind |-> kind, redDot |-> redDot, syncOnce |-> syncOnce, noPersist |-> noPersist,
     setting |-> ToUint8(setting)]

\* SendMessage is SendMessageWithResult without the result.
SendMessage(c, msg) ==
    Call(c, [api |-> "message/send", judge |-> "picked", msg |-> msg])

SendFriendApply(c) == SendMessage(c, Message("friendApply", 0, 1, 0, NoSetting))
SendFriendSure(c)  == SendMessage(c, Message("friendSure", 0, 1, 0, NoSetting))
SendRTCCallResult(c) == SendMessage(c, Message("rtc", 1, 0, 0, NoSetting))

SendCMD(c, cmd, noPersist) ==
    SendMessage(c, Message("cmd", 0, 1, noPersist, [NoSetting EXCEPT !.noUpdate = TRUE]))

SendFriendDelete(c)  == SendCMD(c, "friendDeleted", 0)
SendRevoke(c)        == SendCMD(c, "messageRevoke", 0)
SendTyping(c)        == SendCMD(c, "typing", 1)
SendChannelUpdate(c) == SendCMD(c, "channelUpdate", 0)

\* payload[key] = value and delete(payload, key).
SetKey(map, key, value) == [k \in DOMAIN map \cup {key} |-> IF k = key THEN value ELSE map[k]]
DeleteKey(map, key)     == [k \in DOMAIN map \ {key} |-> map[k]]

\* Fault: nothing is done without a space of the sender's.
NewPersonalMsgSendReq_KeepsSpace(map, senderSpaceID) ==
    IF senderSpaceID # "" THEN SetKey(map, "space_id", senderSpaceID) ELSE map

\* The server's space_id or none, whatever the map holds.
NewPersonalMsgSendReq(map, senderSpaceID) ==
    IF senderSpaceID # "" THEN SetKey(map, "space_id", senderSpaceID) ELSE DeleteKey(map, "space_id")

\* The request carries the JSON of the map.  `sender` and `given`: what the builder
\* was given, for the properties.
Personal(given, senderSpaceID) ==
    [api |-> "message/send", judge |-> "picked", msg |-> Message("personal", 0, 0, 0, NoSetting),
     json |-> NewPersonalMsgSendReq(given, senderSpaceID), sender |-> senderSpaceID, given |-> given]

\* The maps of a dispatcher: the one it used before, as the builder left it, or one
\* that a client's message has filled, with a space_id of its own or without.
Maps(c) ==
    LET text == SetKey(NoKeys, "content", "text")
    IN {payload[c], text, SetKey(text, "space_id", "forged")}

\* The builder changes the dispatcher's map in place.
SendPersonal(c, senderSpaceID, given) ==
    /\ Post(c, Personal(given, senderSpaceID))
    /\ payload' = [payload EXCEPT ![c] = NewPersonalMsgSendReq(given, senderSpaceID)]
    /\ UNCHANGED streamOf

\* Without a map, it changes one of its own.
SendPersonalNil(c, senderSpaceID) == Call(c, Personal(NoKeys, senderSpaceID))

IMStreamStart(c) == Call(c, Request("streammessage/start", "stream"))

IMStreamEnd(c) ==
    /\ streamOf[c] # 0
    /\ Post(c, [api |-> "streammessage/end", judge |-> "handled", no |-> streamOf[c]])
    /\ streamOf' = [streamOf EXCEPT ![c] = 0]
    /\ UNCHANGED payload

-----------------------------------------------------------------------------
(* The IM server and the way to it.                                        *)

\* The server executes a request; the new stream is numbered by its call.
Execute(n, req) ==
    /\ applied' = applied \cup {[n |-> n, req |-> req]}
    /\ inbox' = IF req.judge = "picked" THEN inbox \cup {[n |-> n, req |-> req]} ELSE inbox
    /\ streams' =
         CASE req.judge = "stream" -> streams \cup {[no |-> n, n |-> n, open |-> TRUE]}
           [] req.api = "streammessage/end" ->
                {[s EXCEPT !.open = @ /\ s.no # req.no] : s \in streams}
           [] OTHER -> streams

Answer(c, status, body) ==
    rpc' = [rpc EXCEPT ![c] = [st |-> "answered", n |-> @.n, req |-> @.req,
                               status |-> status, body |-> body]]

\* A body that nobody reads is as good as any other.
\* "empty": the stream_no is there and says nothing.
Bodies == {"good", "null", "lacking", "garbage"}
BodiesRead(judge) ==
    CASE judge \in {"status", "handled"} -> {"good"}
      [] judge = "stream" -> Bodies \cup {"empty"}
      [] OTHER -> Bodies

Accept(c) ==
    /\ rpc[c].st = "sent"
    /\ Execute(rpc[c].n, rpc[c].req)
    /\ \E body \in BodiesRead(rpc[c].req.judge) : Answer(c, 200, body)
    /\ UNCHANGED <<testing, sentCalls, late, results, payload, streamOf>>

\* Refused with a reason, or by a server or gateway that is in trouble.
Refuse(c) ==
    /\ rpc[c].st = "sent"
    /\ \/ Answer(c, 500, "garbage")
       \/ \E body \in {"good", "lacking", "garbage"} : Answer(c, 400, body)
    /\ UNCHANGED <<testing, sentCalls, late, applied, inbox, streams, results, payload, streamOf>>

Tell(c, ok, value) ==
    /\ results' = results \cup {[n |-> rpc[c].n, req |-> rpc[c].req, ok |-> ok, value |-> value]}
    /\ rpc' = [rpc EXCEPT ![c] = Idle]

\* rest.API returns an error: the request may still be on its way, or the
\* answer was lost.
NetworkError(c) ==
    /\ rpc[c] # Idle
    /\ late' = IF rpc[c].st = "sent" THEN late \cup {[n |-> rpc[c].n, req |-> rpc[c].req]} ELSE late
    /\ Tell(c, FALSE, 0)
    /\ UNCHANGED <<testing, sentCalls, applied, inbox, streams, payload, streamOf>>

Arrives(x) ==
    /\ x \in late
    /\ late' = late \ {x}
    /\ Execute(x.n, x.req)
    /\ UNCHANGED <<testing, rpc, sentCalls, results, payload, streamOf>>

\* Fault: a 400 without a reason is no error.
handlerIMError_NeedsMsg(status, body) == status = 500 \/ (status = 400 /\ body # "lacking")

\* With status 400 the body is read for its msg; the outcome is an error all the same.
handlerIMError(status, body) == status # 200

\* Decoded: nothing, any JSON, or an object with a string stream_no is needed.
\* gjson takes what there is.
Decoded(judge, body) ==
    CASE judge \in {"status", "handled", "picked"} -> TRUE
      [] judge = "parsed" -> body # "garbage"
      [] judge = "stream" -> body \in {"good", "empty"}

\* The caller goes on with the answer.  Fields that are missing read as zero.
Return(c) ==
    /\ rpc[c].st = "answered"
    /\ LET ok == /\ ~handlerIMError(rpc[c].status, rpc[c].body)
                 /\ Decoded(rpc[c].req.judge, rpc[c].body)
           value == IF ok /\ rpc[c].body = "good" THEN rpc[c].n ELSE 0
       IN /\ Tell(c, ok, value)
          /\ streamOf' = IF ok /\ rpc[c].req.judge = "stream"
                         THEN [streamOf EXCEPT ![c] = value] ELSE streamOf
    /\ UNCHANGED <<testing, sentCalls, late, applied, inbox, streams, payload>>

-----------------------------------------------------------------------------
Manage(c) ==
    \/ UpdateIMToken(c) \/ QuitUserDevice(c) \/ SendMessageBatch(c)
    \/ IMCreateOrUpdateChannel(c) \/ IMBlacklist(c) \/ IMWhitelist(c)
    \/ IMAddSubscriber(c) \/ IMRemoveSubscriber(c) \/ IMClearConversation(c)
    \/ IMSyncMessageAck(c) \/ IMRevokeMessage(c) \/ IMDelChannel(c)

Read(c) ==
    \/ IMGetConversations(c) \/ IMSyncUserConversation(c) \/ IMGetChannelMaxSeq(c)
    \/ IMGetWithChannelAndSeqs(c) \/ IMSearchMessages(c)
    \/ IMSyncChannelMessage(c) \/ IMSyncMessage(c)
    \/ IMSearchUserMessages(c) \/ IMSOnlineStatus(c)

Send(c) ==
    \/ SendFriendApply(c) \/ SendFriendSure(c) \/ SendRTCCallResult(c)
    \/ SendFriendDelete(c) \/ SendRevoke(c) \/ SendTyping(c) \/ SendChannelUpdate(c)
    \/ \E senderSpaceID \in {"", "space"} :
          SendPersonalNil(c, senderSpaceID) \/ \E map \in Maps(c) : SendPersonal(c, senderSpaceID, map)
    \/ IMStreamStart(c) \/ IMStreamEnd(c)

Next ==
    \/ \E c \in Callers : \/ Manage(c) \/ Read(c) \/ Send(c)
                          \/ Accept(c) \/ Refuse(c) \/ NetworkError(c) \/ Return(c)
    \/ \E x \in late : Arrives(x)

Spec == Init /\ [][Next]_imVars

-----------------------------------------------------------------------------
(* Properties                                                              *)

\* A caller that is told of success had its request executed, and no request is
\* executed for nobody: what is not in somebody's hands was reported as an error.
SuccessApplied ==
    /\ \A r \in results : r.ok /\ r.req.judge # "test" => \E a \in applied : a.n = r.n /\ a.req = r.req
    /\ \A a \in applied : \/ \E r \in results : r.n = a.n
                          \/ \E c \in Callers : rpc[c] # Idle /\ rpc[c].n = a.n

\* A personal message the IM accepts, be it late, carries the space_id of its own
\* send or none when that send had none: never one a client wrote into the map, or
\* an earlier send left there.  All its other fields are those it was given.
SpaceAuthoritative ==
    \A m \in inbox : m.req.msg.kind = "personal" =>
        LET r == m.req IN
        /\ "space_id" \in DOMAIN r.json => r.sender # "" /\ r.json["space_id"] = r.sender
        /\ r.sender # "" => "space_id" \in DOMAIN r.json
        /\ DeleteKey(r.json, "space_id") = DeleteKey(r.given, "space_id")

\* The flags of a message reach the IM: whatever the Setting, its byte reads back
\* as the same one.
SettingsSurvive ==
    \A s \in [receipt : BOOLEAN, noUpdate : BOOLEAN, signal : BOOLEAN] : SettingFromUint8(ToUint8(s)) = s

\* A stream number is one the IM opened for this caller's own call, so that no
\* caller ends another's stream; a stream nobody can end is one whose start was
\* reported as an error, or with an empty number.
StreamsOwned ==
    /\ \A c \in Callers : streamOf[c] # 0 => \E s \in streams : s.no = streamOf[c]
    /\ \A r \in results : r.ok /\ r.req.judge = "stream" /\ r.value # 0 =>
          \E s \in streams : s.no = r.value /\ s.n = r.n
=============================================================================
