----------------------------- MODULE MCLibrary ------------------------------
(* Amounts, texts and symmetry of the runs of Library. *)
EXTENDS Library, Sequences, TLC

\* Half a unit, five cents, minus 3.4: ties at three scales.
SomeAmounts == {[v |-> 5, e |-> -1], [v |-> 5, e |-> -2], [v |-> -34, e |-> -1],
                [v |-> 1, e |-> 0], [v |-> 15, e |-> -3]}

\* A UUID as it is printed: dashes between groups of hexadecimal digits; and the prefix
\* "urn:uuid:".
Printed == [i \in 1 .. 36 |-> IF i \in {9, 14, 19, 24} THEN "-" ELSE "h"]
Urn == [i \in 1 .. 9 |-> "u"]

\* The documented forms, cut short after every character, with a character of
\* another kind in every place, or with something behind them.
SomeTexts ==
    {p \o SubSeq(Printed, 1, n) \o t :
        p \in {<<>>, Urn, <<"open">>}, n \in 0 .. 36, t \in {<<>>, <<"close">>, <<"h">>, <<"close", "close">>}}
    \cup {p \o [Printed EXCEPT ![k] = c] \o t :
        p \in {<<>>, Urn, <<"open">>}, k \in 1 .. 36, c \in {"-", "h", "x"}, t \in {<<>>, <<"close">>}}

InStep == [w \in Workers |-> 0]
FourElements == <<"e1", "e2", "e3", "e4">>
Address == <<"10.0.0.1">>

Symmetry == Permutations(Procs) \cup Permutations(Clients)
=============================================================================
