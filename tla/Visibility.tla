----------------------------- MODULE Visibility -----------------------------
(***************************************************************************)
(* contract/searchmsg/visibility.go: ExtractVisibility reads who may find  *)
(* a message from its raw payload, and fails closed.                       *)
(*                                                                         *)
(* A payload is what the JSON decoder tells apart.  Of the array visibles  *)
(* only the set of its elements matters: order and repetition are not      *)
(* observed by anybody.                                                    *)
(***************************************************************************)
CONSTANTS Uids,       \* non-empty strings
          Spaces,     \* non-empty strings
          Empty,      \* the empty string, which JSON null decodes to as well
          NonString,  \* an element or a field of another JSON type
          Missing     \* a key that is absent

ASSUME VisibilityAssumption ==
    /\ Empty \notin Uids /\ NonString \notin Uids
    /\ Empty \notin Spaces /\ NonString \notin Spaces /\ Missing \notin Spaces

Elements == Uids \cup {Empty, NonString}

Payloads ==
    [top      : {"object", "null", "other", "broken"},  \* the first JSON value
     tail     : {"none", "data"},                       \* what follows it
     space    : Spaces \cup {Empty, NonString, Missing},
     visibles : {"missing", "null", "other", "array"},
     elems    : SUBSET Elements]

\* A message of one JSON object, without the keys that matter here.
Plain == [top |-> "object", tail |-> "none", space |-> Missing,
          visibles |-> "missing", elems |-> {}]

\* The elements that decode to a non-empty string.
ValidUids(elems) == elems \cap Uids

SpaceID(p) == IF p.space \in Spaces THEN p.space ELSE Empty

\* Fault: data after the object goes unnoticed, as with dec.More.
OneObject_NoTail(p) == p.top = "object"

\* The payload is exactly one JSON object.
OneObject(p) == p.top = "object" /\ p.tail = "none"

\* Fault: an empty list counts as a broadcast.
Resolvable_EmptyIsBroadcast(p) == p.visibles \in {"missing", "array"}

\* The key visibles is absent, or its value names at least one uid.
Resolvable(p) == \/ p.visibles = "missing"
                 \/ p.visibles = "array" /\ ValidUids(p.elems) # {}

FailClosed == [err |-> "fail-closed", space |-> Empty, visibles |-> {}]

ExtractVisibility(p) ==
    IF OneObject(p) /\ Resolvable(p)
       THEN [err      |-> "none",
             space    |-> SpaceID(p),
             visibles |-> IF p.visibles = "array" THEN ValidUids(p.elems) ELSE {}]
       ELSE FailClosed

-----------------------------------------------------------------------------
(* The test vectors shared by the repositories that use ExtractVisibility,  *)
(* for two uids and a space, with the result each of them expects.          *)

Pass(p, space, uids) == [payload |-> p, want |-> [err |-> "none", space |-> space, visibles |-> uids]]
Stop(p) == [payload |-> p, want |-> FailClosed]

WithList(elems) == [Plain EXCEPT !.visibles = "array", !.elems = elems]

FailClosedVisibilityVectors(u, w, s) ==
    {Pass(Plain, Empty, {}),
     Pass([Plain EXCEPT !.space = s], s, {}),
     Pass(WithList({u}), Empty, {u}),
     Pass([WithList({u, w}) EXCEPT !.space = s], s, {u, w}),
     Pass([WithList({u, w}) EXCEPT !.space = NonString], Empty, {u, w}),
     Pass(WithList({u, NonString, Empty, w}), Empty, {u, w})}
    \cup {Stop([Plain EXCEPT !.top = t]) : t \in {"broken", "other", "null"}}
    \cup {Stop([Plain EXCEPT !.tail = "data"])}
    \cup {Stop([Plain EXCEPT !.visibles = v]) : v \in {"other", "null"}}
    \cup {Stop(WithList(elems)) : elems \in {{}, {NonString, Empty}, {Empty}}}
=============================================================================
