------------------------------- MODULE MCRunner -------------------------------
(***************************************************************************)
(* An instance of Runner: two cache files that exceed the byte budget only *)
(* together, and a build that fills both pipes and exceeds the log limit   *)
(* on one of them.                                                         *)
(***************************************************************************)
EXTENDS Runner

CONSTANTS r1, i1, i2, small, large

Sizes == [file \in CacheFiles |-> IF file = large THEN 2 ELSE 1]

Outputs == [s \in Streams |-> IF s = "stdout" THEN 3 ELSE 2]
===============================================================================
