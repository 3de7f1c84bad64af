----------------------------- MODULE MCProcess ------------------------------
(* Pools and modules of the run of Process. *)
EXTENDS Process, TLC

CONSTANTS event, push

\* A pool of one worker and a pool of two.
Sizes == (event :> 1) @@ (push :> 2)

\* Event jobs send offline pushes; push jobs send nothing.
Acyclic == {<<event, push>>}

\* Two modules; the one added first brings the migration with the larger id.
TwoModules == <<"user", "group">>
SomeFiles == ("user" :> <<3, 1>>) @@ ("group" :> <<2>>)
=============================================================================
