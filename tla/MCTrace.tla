------------------------------- MODULE MCTrace -------------------------------
(***************************************************************************)
(* A lockfile, the declared output and a temporary file, whose name in     *)
(* another directory may read as that of the output.                       *)
(***************************************************************************)
EXTENDS TraceReducer, TLC

CONSTANTS p1, p2, p3, lockfile, temporary, artifact

Kinds == [file \in Files |-> CASE file = lockfile -> "dependency"
                               [] file = artifact -> "output"
                               [] OTHER -> "plain"]

Names == [file \in Files |-> IF file = temporary THEN {temporary, artifact} ELSE {file}]

Children == Permutations({p2, p3})
===============================================================================
