------------------------------- MODULE MCDdmin -------------------------------
(***************************************************************************)
(* Model checking Ddmin: the partition arithmetic against a definition by  *)
(* concatenation.                                                          *)
(***************************************************************************)
EXTENDS Ddmin, SequencesExt

\* The list of parts as `partition` returns it.
PartList == [i \in 1..Parts |-> Part(current, Parts, i - 1)]

\* partition's slices cover every item once and in order, no slice is empty,
\* widths differ by one at most, and a complement is what `complement` says:
\* the other slices flattened.  An offset that is off by one loses or repeats
\* an item of the build configuration without any test run failing.
PartitionExact ==
    Searching =>
        /\ FlattenSeq(PartList) = current
        /\ \A i, j \in 1..Parts :
              Len(PartList[i]) >= 1 /\ Len(PartList[i]) <= Len(PartList[j]) + 1
        /\ \A i \in 1..Parts :
              Complement(current, Parts, i - 1) = FlattenSeq(RemoveAt(PartList, i))
===============================================================================
