--------------------------- MODULE OneMinimalSearch ---------------------------
(***************************************************************************)
(* What `ddmin::minimize` promises its callers, with the search strategy   *)
(* left out: starting from every item, it only ever moves to a non-empty   *)
(* proper subset that was observed to reproduce the failure, and it only   *)
(* stops when removing any single item from the kept set was observed not  *)
(* to reproduce it (or when one item, or none, is left).                   *)
(***************************************************************************)
EXTENDS Naturals

CONSTANT N    \* the number of items given to the search

VARIABLES
    best,     \* the set of item positions kept so far
    refuted,  \* subsets of `best` observed not to reproduce the failure
    status    \* "running", "done" or "failed" (the predicate returned an error)

vars == <<best, refuted, status>>

\* Dropping any one item of `kept` gives the empty set or one in `rejected`.
OneMinimal(kept, rejected) ==
    \A item \in kept : kept = {item} \/ kept \ {item} \in rejected

Init ==
    /\ best = 1..N
    /\ refuted = {}
    /\ status = IF N < 2 THEN "done" ELSE "running"

Candidates == (SUBSET best) \ {{}, best}

\* The search may stop only with a one-minimal result.
Settle ==
    \/ status' = "running"
    \/ status' = "done" /\ OneMinimal(best', refuted')

Accept ==
    /\ status = "running"
    /\ \E subset \in Candidates : best' = subset
    /\ refuted' = {}
    /\ Settle

Reject ==
    /\ status = "running"
    /\ \E subset \in Candidates : refuted' = refuted \cup {subset}
    /\ best' = best
    /\ Settle

Fail ==
    /\ status = "running"
    /\ status' = "failed"
    /\ UNCHANGED <<best, refuted>>

Next == Accept \/ Reject \/ Fail

Spec == Init /\ [][Next]_vars
===============================================================================
