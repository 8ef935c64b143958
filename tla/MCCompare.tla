------------------------------ MODULE MCCompare ------------------------------
(***************************************************************************)
(* Worlds for model checking Compare: every deterministic response of a    *)
(* build that succeeds in the known-good environment, and builds that may  *)
(* have any outcome at any time.                                           *)
(***************************************************************************)
EXTENDS Compare

CONSTANTS a, b, f    \* two artifact signatures and a failure signature

Noise == [applied \in Subsets |-> Outcomes]

FixedOutcome(choice) == [applied \in Subsets |-> {choice[applied]}]

DeterministicWorlds ==
    {FixedOutcome(choice) : choice \in {g \in [Subsets -> Outcomes] : g[{}] = a}}

AllWorlds == DeterministicWorlds \cup {Noise}
===============================================================================
