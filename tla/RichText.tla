------------------------------ MODULE RichText ------------------------------
(***************************************************************************)
(* common/richtext.go: the way of a rich text message - the bytes a client *)
(* sends are validated, the server writes plain, the payload is stored and *)
(* its text is shown.  A text is a sequence of words, " " being blank; the *)
(* size of a payload counts words, images and the text in plain.           *)
(***************************************************************************)
EXTENDS Integers, Sequences, SequencesExt

CONSTANTS RichTextMaxPayloadBytes,
          MaxBlocks       \* bound of the model: blocks of a payload

VARIABLES received,  \* the bytes sent by the client, decoded: [content, plain]
          checked,   \* what ValidateRichTextPayload returned, <<>> for nothing
          stored,    \* payloads that were stored, encoded again
          shown      \* [payload, text]: what was displayed of the stored ones

richVars == <<received, checked, stored, shown>>

Placeholder == "[image]"
TextBlock(t) == [type |-> "text", text |-> t, url |-> "", sized |-> FALSE]
Words  == {<<>>, <<" ">>, <<"hello">>}
URLs   == {"", "http://host", "data:", "http://"}
Blocks == [type : {"text"}, text : Words, url : {""}, sized : {FALSE}]
          \cup [type : {"image"}, text : {<<>>}, url : URLs, sized : BOOLEAN]
          \cup [type : {"later"}, text : Words, url : {""}, sized : {FALSE}]

\* content as it is in the JSON: nothing (absent or null), a list of blocks, the
\* string of an old client, or something else.
Contents == [kind : {"none", "other"}]
            \cup [kind : {"string"}, text : Words]
            \cup [kind : {"blocks"}, blocks : UNION {[1 .. n -> Blocks] : n \in 0 .. MaxBlocks}]
Plains == {<<>>, <<"forged">>}

IsBlank(t) == t \in {<<>>, <<" ">>}
Count(blocks) == FoldLeft(LAMBDA n, b : n + (IF b.type = "image" THEN 2 ELSE 1 + Len(b.text)), 0, blocks)
Size(p) == Len(p.plain) + (CASE p.content.kind = "blocks" -> Count(p.content.blocks)
                             [] p.content.kind = "string" -> Len(p.content.text)
                             [] OTHER -> 0)

\* UnmarshalJSON: an old string becomes one text block, and plain if there is none.
Unmarshal(p) ==
    CASE p.content.kind = "none"   -> [content |-> <<>>, plain |-> p.plain]
      [] p.content.kind = "blocks" -> [content |-> p.content.blocks, plain |-> p.plain]
      [] p.content.kind = "string" ->
           [content |-> <<TextBlock(p.content.text)>>,
            plain |-> IF p.plain = <<>> THEN p.content.text ELSE p.plain]

BuildRichTextPlain(blocks) ==
    FlattenSeq([i \in DOMAIN blocks |->
                  IF blocks[i].type = "image" THEN <<Placeholder>> ELSE blocks[i].text])

isAllowedImageURLScheme(url) == url = "http://host"

ValidateRichTextBlocks(blocks) ==
    \A i \in DOMAIN blocks :
        LET b == blocks[i] IN
        CASE b.type = "text"  -> ~IsBlank(b.text)
          [] b.type = "image" -> b.url # "" /\ isAllowedImageURLScheme(b.url) /\ b.sized
          [] OTHER -> FALSE

\* Only what came in is measured here.
ValidateRichTextPayload(p) ==
    /\ Size(p) <= RichTextMaxPayloadBytes
    /\ p.content.kind # "other"
    /\ Unmarshal(p).content # <<>>
    /\ ValidateRichTextBlocks(Unmarshal(p).content)

FillPlain(p) == [p EXCEPT !.plain = BuildRichTextPlain(p.content)]

Encoded(p) == [content |-> [kind |-> "blocks", blocks |-> p.content], plain |-> p.plain]

\* Fault: FillPlain alone, which does not measure again.
FillPlainBounded_NoSize(p) == TRUE

FillPlainBounded(p) == Size(Encoded(FillPlain(p))) <= RichTextMaxPayloadBytes

\* Bytes that cannot be decoded, and content that is not ours, fall back to a
\* fixed name; so does a message without text.
GetRichTextDisplayText(p) ==
    IF p.content.kind = "other" THEN <<"rich text">>
    ELSE LET q == Unmarshal(p)
             built == BuildRichTextPlain(q.content)
         IN IF ~IsBlank(q.plain) THEN q.plain ELSE IF built # <<>> THEN built ELSE <<"rich text">>

-----------------------------------------------------------------------------
Init ==
    /\ received \in [content : Contents, plain : Plains]
    /\ checked = <<>> /\ stored = {} /\ shown = {}

Validate ==
    /\ checked = <<>> /\ stored = {}
    /\ ValidateRichTextPayload(received)
    /\ checked' = <<Unmarshal(received)>>
    /\ UNCHANGED <<received, stored, shown>>

Store ==
    /\ checked # <<>>
    /\ FillPlainBounded(checked[1])
    /\ stored' = stored \cup {Encoded(FillPlain(checked[1]))}
    /\ checked' = <<>>
    /\ UNCHANGED <<received, shown>>

Display(p) ==
    /\ shown' = shown \cup {[payload |-> p, text |-> GetRichTextDisplayText(p)]}
    /\ UNCHANGED <<received, checked, stored>>

Next == Validate \/ Store \/ \E p \in stored : Display(p)

Spec == Init /\ [][Next]_richVars

-----------------------------------------------------------------------------
(* Properties                                                              *)

\* What is stored is within the limit, although the server itself makes the
\* payload longer after it was measured.
StoredBounded == \A p \in stored : Size(p) <= RichTextMaxPayloadBytes

\* The text that is shown is the text of the blocks; a plain the client made up
\* is never shown, and nothing is shown as blank.
ShownIsContent ==
    \A s \in shown : s.text = BuildRichTextPlain(s.payload.content.blocks) /\ ~IsBlank(s.text)

\* An image that is stored has an address a browser may load, and a size.
ImagesLoadable ==
    \A p \in stored : \A b \in Range(p.content.blocks) :
        b.type = "image" => b.url = "http://host" /\ b.sized
=============================================================================
