----------------------------- MODULE MCMessages ------------------------------
(* Names, checksums and symmetry of the run of Messages. *)
EXTENDS Messages, TLC

\* Two users, a visitor, a user and a visitor with an awkward name.
SomeNames == {<<"u1">>, <<"u2">>, <<"w", "@", "ht">>, <<"ht">>, <<"ht", "@", "ht">>}

\* A number, and three that other keys could be mistaken for.
SomeNumbers == {<<"n">>, <<"n", "_cover">>, <<"n", "/", "1">>, <<"n", "/", "cover">>}
SomeVersions == {-1, 0, 1, 2}
SomeDigits == [i \in -1 .. 9 |-> ToString(i)]

\* The two users have one checksum; the numbers are in one partition but for one.
SomeChecksums ==
    (<<"u1">> :> 5) @@ (<<"u2">> :> 5) @@ (<<"w", "@", "ht">> :> 7) @@ (<<"ht">> :> 3) @@ (<<"ht", "@", "ht">> :> 9)
    @@ [no \in SomeNumbers |-> IF no = <<"n", "/", "cover">> THEN 4 ELSE 3]

Symmetry == Permutations(Callers) \cup Permutations(Uids)
=============================================================================
