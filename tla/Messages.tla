------------------------------ MODULE Messages -------------------------------
(***************************************************************************)
(* The way of messages: the notices of groups and their search index, the  *)
(* calls to the IM server, the rich text payloads, and the names of        *)
(* channels and objects.  These parts have no state in common; a behaviour *)
(* is one of one part, its scene, while the others stay as they are at the *)
(* start.                                                                  *)
(***************************************************************************)
EXTENDS GroupNotice

CONSTANTS Callers, MaxRequests,                                   \* IMClient
          RichTextMaxPayloadBytes, MaxBlocks,                     \* RichText
          Names, Numbers, HashCrc32, FormatInt, Partition, Versions, MaxNames  \* ChannelIds

VARIABLES scene,
          testing, rpc, sentCalls, late, applied, inbox, streams, results, payload, streamOf,
          received, checked, stored, shown,
          opened, desks, objects

IM == INSTANCE IMClient
Rich == INSTANCE RichText
Ids == INSTANCE ChannelIds WITH Uids <- Names

ASSUME MessagesAssumption == Ids!ChannelIdsAssumption

imVars   == <<testing, rpc, sentCalls, late, applied, inbox, streams, results, payload, streamOf>>
richVars == <<received, checked, stored, shown>>
idVars   == <<opened, desks, objects>>

AllInit ==
    /\ scene \in {"notice", "client", "richtext", "names"}
    /\ Init /\ IM!Init /\ Rich!Init /\ Ids!Init
    /\ scene # "client" => testing
    /\ scene # "richtext" => received = [content |-> [kind |-> "none"], plain |-> <<>>]

AllNext ==
    /\ UNCHANGED scene
    /\ \/ scene = "notice" /\ Next /\ UNCHANGED <<imVars, richVars, idVars>>
       \/ scene = "client" /\ IM!Next /\ UNCHANGED <<vars, richVars, idVars>>
       \/ scene = "richtext" /\ Rich!Next /\ UNCHANGED <<vars, imVars, idVars>>
       \/ scene = "names" /\ Ids!Next /\ UNCHANGED <<vars, imVars, richVars>>

AllVars == <<scene, vars, imVars, richVars, idVars>>

AllSpec == AllInit /\ [][AllNext]_AllVars

-----------------------------------------------------------------------------
(* Properties: NoLeak, and what each part promises, from the properties it *)
(* states.                                                                 *)

\* ExtractVisibility: what is dead-lettered was damaged or named nobody, and the
\* payloads of the shared vectors get the results the vectors expect.
ContractKept == TypeOK /\ DLQJustified /\ VectorsHold

\* handlerIMError and the decoding of answers: a caller that is told of success
\* had its request executed, what was executed was reported to somebody, and a
\* stream number is one the IM opened for this caller's call.
AnswersTrue == IM!SuccessApplied /\ IM!StreamsOwned

\* NewPersonalMsgSendReq and Setting.ToUint8: what reaches the IM is what was meant,
\* a personal message with its own sender's space and with the fields it was given,
\* a message with the flags of its Setting.
RequestsAsMeant == IM!SpaceAuthoritative /\ IM!SettingsSurvive

\* ValidateRichTextPayload and FillPlainBounded: what is stored is within the
\* limit, its images can be loaded, and the text shown is that of the blocks.
RichTextSound == Rich!StoredBounded /\ Rich!ShownIsContent /\ Rich!ImagesLoadable

\* GetFakeChannelIDWith, ComposeCustomerServiceChannelID and the object paths: two
\* users have one channel of their own and find each other in it, a desk's id leads
\* back to its parts, and an object's key is that of one object in one version.
NamesLeadBack == Ids!OneConversation /\ Ids!DeskFound /\ Ids!ObjectsApart
=============================================================================
