--------------------------- MODULE MCSeqAllocator ----------------------------
(* Who asks for which flag in the runs of SeqAllocator. *)
EXTENDS SeqAllocator, TLC

CONSTANTS i1, i2, f1, f2

\* Each flag is used by one process.
UsesOwn == (i1 :> {f1}) @@ (i2 :> {f2})

\* Both processes ask for the same flag: two replicas of one service.
UsesShared == (i1 :> {f1}) @@ (i2 :> {f1})
=============================================================================
