---------------------------- MODULE MCRateLimit -----------------------------
(* Clocks of the processes in the runs of RateLimit. *)
EXTENDS RateLimit

\* All processes agree with the Redis server.
InStep == [w \in Workers |-> 0]
=============================================================================
