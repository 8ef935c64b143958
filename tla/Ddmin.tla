-------------------------------- MODULE Ddmin --------------------------------
(***************************************************************************)
(* The delta-debugging minimiser of src/engine/ddmin.rs, one step per call *)
(* of the caller's predicate.  Items are the positions 1..N of the slice   *)
(* given to `minimize`; what an item is never matters to the search.       *)
(*                                                                         *)
(* The predicate runs real builds, so its verdict is not a function of the *)
(* subset: each call may answer true, answer false or fail.                *)
(***************************************************************************)
EXTENDS Naturals, Sequences

CONSTANT N    \* items.len()

ASSUME NAssumption == N \in Nat

VARIABLES
    current,      \* the subset kept so far, in slice order
    granularity,  \* number of parts `current` is cut into
    phase,        \* which loop body runs: "subsets" or "complements";
                  \* "done" and "failed" are the two returns
    index,        \* the part under test (0-based, as in the code)
    tests,        \* predicate calls so far
    refuted       \* history: candidates answered false since `current` was set

vars == <<current, granularity, phase, index, tests, refuted>>

Least(a, b) == IF a <= b THEN a ELSE b
Greatest(a, b) == IF a >= b THEN a ELSE b

-------------------------------------------------------------------------------
\* partition: `parts` slices, the first `n % parts` of them one item longer.

PartCount(n, g) == Least(Greatest(g, 1), n)

\* Faulty: the `n % parts` items left over belong to no part.
StartWithoutRemainder(n, g, i) == i * (n \div g)

\* Offset of part i in a slice of n items cut into g parts.
Start(n, g, i) == i * (n \div g) + Least(i, n % g)

Part(s, g, i) == SubSeq(s, Start(Len(s), g, i) + 1, Start(Len(s), g, i + 1))

\* Faulty: the two ends are joined in the wrong order.
CutSwapped(s, a, b) == SubSeq(s, b + 1, Len(s)) \o SubSeq(s, 1, a)

\* `s` without its items a+1 .. b.
Cut(s, a, b) == SubSeq(s, 1, a) \o SubSeq(s, b + 1, Len(s))

\* Every part but part i, concatenated in order.
Complement(s, g, i) ==
    Cut(s, Start(Len(s), g, i), Start(Len(s), g, i + 1))

-------------------------------------------------------------------------------
Parts == PartCount(Len(current), granularity)

\* The argument of the next predicate call.
Candidate ==
    IF phase = "subsets"
    THEN Part(current, Parts, index)
    ELSE Complement(current, Parts, index)

Searching == phase \in {"subsets", "complements"}

\* `while current.len() >= 2`
LoopPhase(s) == IF Len(s) >= 2 THEN "subsets" ELSE "done"

Init ==
    /\ current = [i \in 1..N |-> i]
    /\ granularity = Least(2, N)
    /\ phase = LoopPhase(current)
    /\ index = 0
    /\ tests = 0
    /\ refuted = {}

\* Faulty: `granularity - 1` without its `max(2)`.
AfterComplementToOne(s) == Least(granularity - 1, Len(s))

\* Faulty: complements restart from two parts as subsets do.
AfterComplementRestart(s) == Least(2, Len(s))

\* The granularity the loop restarts with after `current` shrank to s.
AfterSubset(s) == Least(2, Len(s))
AfterComplement(s) == Least(Greatest(granularity - 1, 2), Len(s))

\* The predicate answered true: keep the candidate and restart the loop.
ReduceTo(s, g) ==
    /\ current' = s
    /\ granularity' = g
    /\ phase' = LoopPhase(s)
    /\ index' = 0
    /\ tests' = tests + 1
    /\ refuted' = {}

KeepSubset ==
    /\ phase = "subsets"
    /\ ReduceTo(Candidate, AfterSubset(Candidate))

KeepComplement ==
    /\ phase = "complements"
    /\ ReduceTo(Candidate, AfterComplement(Candidate))

\* The predicate answered false.
Refute ==
    /\ Searching
    /\ tests' = tests + 1
    /\ refuted' = refuted \cup {Candidate}
    /\ UNCHANGED current

\* ... and the running `for` loop has another part to try,
NextPart ==
    /\ Refute
    /\ index + 1 < Parts
    /\ index' = index + 1
    /\ UNCHANGED <<granularity, phase>>

\* ... or every subset was tried and the complements come next,
SubsetsExhausted ==
    /\ phase = "subsets"
    /\ Refute
    /\ index + 1 = Parts
    /\ phase' = "complements"
    /\ index' = 0
    /\ UNCHANGED granularity

\* ... or every complement was too, and the parts become smaller,
Refine ==
    /\ phase = "complements"
    /\ Refute
    /\ index + 1 = Parts
    /\ granularity < Len(current)
    /\ granularity' = Least(granularity * 2, Len(current))
    /\ phase' = "subsets"
    /\ index' = 0

\* Faulty: the search stops one item short of single-item parts,
FinishEarly ==
    /\ phase = "complements"
    /\ Refute
    /\ index + 1 = Parts
    /\ granularity + 1 >= Len(current)
    /\ phase' = "done"
    /\ UNCHANGED <<granularity, index>>

\* ... or at the first complement that is refused.
FinishAtOnce ==
    /\ phase = "complements"
    /\ Refute
    /\ granularity >= Len(current)
    /\ phase' = "done"
    /\ UNCHANGED <<granularity, index>>

\* ... unless they already hold one item each.
Finish ==
    /\ phase = "complements"
    /\ Refute
    /\ index + 1 = Parts
    /\ granularity >= Len(current)
    /\ phase' = "done"
    /\ UNCHANGED <<granularity, index>>

\* The predicate returned an error, which `?` hands to the caller.
PredicateError ==
    /\ Searching
    /\ phase' = "failed"
    /\ tests' = tests + 1
    /\ UNCHANGED <<current, granularity, index, refuted>>

Next ==
    \/ KeepSubset
    \/ KeepComplement
    \/ NextPart
    \/ SubsetsExhausted
    \/ Refine
    \/ Finish
    \/ PredicateError

Spec == Init /\ [][Next]_vars

-------------------------------------------------------------------------------
(***************************************************************************)
(* What the search guarantees.                                             *)
(***************************************************************************)

\* `s` without its k-th item.
Without(s, k) == Cut(s, k - 1, k)

\* Type invariant.
TypeOK ==
    /\ current \in Seq(1..N)
    /\ granularity \in Nat
    /\ phase \in {"subsets", "complements", "done", "failed"}
    /\ index \in Nat
    /\ tests \in Nat
    /\ refuted \subseteq Seq(1..N)

\* "Return a 1-minimal failure-inducing subset" (the doc comment of
\* `minimize`), for a predicate that may change its mind: when the search
\* returns two items or more, every set with exactly one of them removed was
\* itself tested after the result was adopted, and answered false.
ResultOneMinimal ==
    phase = "done" /\ Len(current) >= 2
        => \A k \in 1..Len(current) : Without(current, k) \in refuted

\* No predicate call is spent on the empty set or on the set already known to
\* reproduce: every candidate is a non-empty proper part of `current`.  This is
\* also why `minimize`'s test for an empty complement never fires.
CandidateProper ==
    Searching => Len(Candidate) \in 1..(Len(current) - 1)

\* Cutting, dropping and concatenating slices never reorders or repeats an
\* item, so a later stage may match the result against the original list.
OrderPreserved ==
    \A i, j \in 1..Len(current) : i < j => current[i] < current[j]

\* Predicate calls are builds, so their number is a cost the user pays.  The worst
\* verdicts are refusals up to single-item parts and then, at each size, a
\* complement that reproduces last of all: this bound is reached for 2, 3, 5, 9 ...
\* items.  Every step is a call, so it is also why `minimize` returns.
MostTests(n) == IF n < 2 THEN 0 ELSE n * n + 5 * n - 10

TestsBounded == tests <= MostTests(N)

\* The loops stay inside their slices: while the search runs, `granularity` is
\* a number of parts `current` can really be cut into.
LoopBounds ==
    Searching =>
        /\ granularity \in 2..Len(current)
        /\ index < granularity

\* The complements loop's progress: all complements before `index` were refused.
ComplementsRefuted ==
    phase = "complements"
        => \A i \in 0..(index - 1) :
              Complement(current, granularity, i) \in refuted

\* The inductive strengthening behind ResultOneMinimal.
SearchInv ==
    /\ TypeOK
    /\ LoopBounds
    /\ ComplementsRefuted
    /\ ResultOneMinimal

\* The search as an implementation of OneMinimalSearch, which says what callers
\* may rely on and nothing of parts and granularity: it moves only to non-empty
\* proper subsets that reproduced, and stops only with a one-minimal result.
Items(s) == {s[i] : i \in 1..Len(s)}

Promise == INSTANCE OneMinimalSearch WITH
    best <- Items(current),
    refuted <- {Items(s) : s \in refuted},
    status <- IF Searching THEN "running" ELSE phase

ImplementsOneMinimalSearch == Promise!Spec
===============================================================================
