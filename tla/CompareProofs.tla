---------------------------- MODULE CompareProofs ----------------------------
(***************************************************************************)
(* The inductive invariant of Compare, and what a "minimized" and an       *)
(* "equivalent" verdict stand on, for every delta, every set of outcomes   *)
(* and every number of attempts.                                           *)
(***************************************************************************)
EXTENDS Compare, SequenceTheorems, TLAPS

\* The minimiser's proofs, for the positions of the delta as items.
DP == INSTANCE DdminProofs WITH N <- MaxDelta

\* What is proved of DdminProofs' minimiser is proved of the one embedded here:
\* their invariants and their steps are the same.
LEMMA SameSearchInv == D!SearchInv <=> DP!SearchInv
  BY DEF D!SearchInv, DP!SearchInv, D!TypeOK, DP!TypeOK, D!LoopBounds,
         DP!LoopBounds, D!ComplementsRefuted, DP!ComplementsRefuted,
         D!ResultOneMinimal, DP!ResultOneMinimal, D!Searching,
         DP!Searching, D!Without, DP!Without, D!Complement, DP!Complement,
         D!Cut, DP!Cut, D!Start, DP!Start, D!Least, DP!Least

LEMMA SameSteps == [D!Next]_ddminVars <=> [DP!Next]_DP!vars
  BY DEF ddminVars, D!Next, DP!Next, D!vars, DP!vars, D!KeepSubset, DP!KeepSubset,
         D!KeepComplement, DP!KeepComplement, D!NextPart, DP!NextPart,
         D!SubsetsExhausted, DP!SubsetsExhausted, D!Refine, DP!Refine,
         D!Finish, DP!Finish, D!PredicateError, DP!PredicateError,
         D!Refute, DP!Refute, D!ReduceTo, DP!ReduceTo, D!Candidate,
         DP!Candidate, D!Part, DP!Part, D!Parts, DP!Parts, D!PartCount,
         DP!PartCount, D!Greatest, DP!Greatest, D!AfterSubset,
         DP!AfterSubset, D!AfterComplement, DP!AfterComplement,
         D!LoopPhase, DP!LoopPhase, D!Searching, DP!Searching, D!Without,
         DP!Without, D!Complement, DP!Complement, D!Cut, DP!Cut, D!Start,
         DP!Start, D!Least, DP!Least

\* The minimiser embedded here keeps its invariant and never runs out of items.
LEMMA MinimiserStep ==
    D!SearchInv /\ [D!Next]_ddminVars /\ current # <<>>
        => D!SearchInv' /\ current' # <<>>
<1>0. MaxDelta \in Nat
  BY CompareAssumption
<1>1. DP!SearchInv /\ [DP!Next]_DP!vars => DP!SearchInv'
  BY <1>0, DP!SearchInvStep
<1>2. DP!SearchInv /\ [DP!Next]_DP!vars /\ current # <<>> => current' # <<>>
  BY <1>0, DP!NonEmptyStep
<1>3. D!SearchInv' <=> DP!SearchInv'
  BY SameSearchInv, PTL
<1> QED
  BY <1>1, <1>2, <1>3, SameSearchInv, SameSteps

\* ... and it starts with a non-empty list of items.
LEMMA MinimiserStarts ==
    ASSUME MinimizationStarts, TypeOK, index = 0, tests = 0, refuted = {}
    PROVE  /\ D!SearchInv' /\ current' # <<>>
           /\ phase' \in {"subsets", "done"}
<1>1. /\ delta \in Nat /\ 1 <= delta /\ delta <= MaxDelta /\ MaxDelta \in Nat
  BY CompareAssumption DEF MinimizationStarts, TypeOK
<1>2. current' = [i \in 1..delta |-> i]
  BY DEF MinimizationStarts
<1>3. current' \in Seq(1..MaxDelta) /\ Len(current') = delta
  BY <1>1, <1>2
<1>4. current' # <<>>
  BY <1>1, <1>3
<1>5. /\ granularity' = D!Least(2, delta) /\ phase' = D!LoopPhase(current')
      /\ index' = 0 /\ tests' = 0 /\ refuted' = {}
  BY DEF MinimizationStarts
<1>6. phase' = IF delta >= 2 THEN "subsets" ELSE "done"
  BY <1>3, <1>5 DEF D!LoopPhase
<1>7. granularity' \in Nat /\ (delta >= 2 => granularity' = 2)
  BY <1>1, <1>5 DEF D!Least
<1>8. D!TypeOK'
  BY <1>3, <1>5, <1>6, <1>7 DEF D!TypeOK
<1>9. D!LoopBounds'
  BY <1>1, <1>3, <1>5, <1>6, <1>7 DEF D!LoopBounds, D!Searching
<1>10. D!ComplementsRefuted' /\ D!ResultOneMinimal'
  BY <1>1, <1>3, <1>6 DEF D!ComplementsRefuted, D!ResultOneMinimal
<1> QED
  BY <1>4, <1>6, <1>8, <1>9, <1>10 DEF D!SearchInv

\* The verdict of a batch, if it has one, is a step of the minimiser.
LEMMA VerdictIsStep == SubsetVerdict => [D!Next]_ddminVars
  BY DEF SubsetVerdict, D!Next

-------------------------------------------------------------------------------
(***************************************************************************)
(* Types.                                                                  *)
(***************************************************************************)

LEMMA TypeStep == CompareInv /\ [Next]_vars => TypeOK'
<1> SUFFICES ASSUME CompareInv, [Next]_vars PROVE TypeOK'
  OBVIOUS
<1> USE DEF inputVars, endpointVars, resultVars, vars
<1>t. TypeOK /\ StageOrder
  BY DEF CompareInv
<1>o. ordinal \in Nat \ {0} => ordinal + 1 \in Nat \ {0}
  OBVIOUS
<1>d. UNCHANGED ddminVars => (phase = "idle" \/ D!TypeOK)'
  BY <1>t DEF TypeOK, ddminVars, D!TypeOK
<1>1. CASE GoodAttempt
  BY <1>1, <1>t, <1>o, <1>d DEF GoodAttempt, Attempt, TypeOK
<1>2. CASE BadAttempt
  BY <1>2, <1>t, <1>o, <1>d DEF BadAttempt, Attempt, TypeOK
<1>3. CASE EndpointsInconclusive
  BY <1>3, <1>t, <1>d DEF EndpointsInconclusive, Decided, TypeOK
<1>4. CASE EndpointsEquivalent
  BY <1>4, <1>t, <1>d DEF EndpointsEquivalent, Decided, TypeOK
<1>5. CASE DifferenceUnexplained
  BY <1>5, <1>t, <1>d DEF DifferenceUnexplained, Decided, TypeOK
<1>6. CASE MinimizationStarts
  <2>1. index = 0 /\ tests = 0 /\ refuted = {}
    BY <1>6, <1>t DEF MinimizationStarts, EndpointsComplete, StageOrder
  <2>2. D!TypeOK'
    BY <2>1, <1>6, <1>t, MinimiserStarts DEF D!SearchInv
  <2> QED
    BY <1>6, <1>t, <2>2 DEF MinimizationStarts, TypeOK
<1>7. CASE SubsetAttempt
  BY <1>7, <1>t, <1>o, <1>d DEF SubsetAttempt, Attempt, TypeOK
<1>8. CASE SubsetVerdict
  <2>1. D!SearchInv /\ current # <<>>
    BY <1>8, <1>t DEF SubsetVerdict, StageOrder
  <2>2. D!TypeOK'
    BY <2>1, <1>8, VerdictIsStep, MinimiserStep DEF D!SearchInv
  <2> QED
    BY <1>8, <1>t, <2>2 DEF SubsetVerdict, TypeOK
<1>9. CASE FinalWithoutReversion
  BY <1>9, <1>t, <1>d DEF FinalWithoutReversion, Decided, StatusOf, TypeOK
<1>10. CASE FinalWithReversion
  BY <1>10, <1>t, <1>d DEF FinalWithReversion, TypeOK
<1>11. CASE Reversion
  BY <1>11, <1>t, <1>d DEF Reversion, StatusOf, TypeOK
<1>12. CASE Finished
  BY <1>12, <1>t, <1>d DEF Finished, TypeOK
<1>13. CASE Abort
  <2>1. CASE pc = "minimize"
    <3>1. D!SearchInv /\ current # <<>> /\ [D!Next]_ddminVars
      BY <1>13, <2>1, <1>t DEF Abort, StageOrder, D!Next
    <3>2. D!TypeOK'
      BY <3>1, MinimiserStep DEF D!SearchInv
    <3> QED
      BY <1>13, <1>t, <3>2 DEF Abort, TypeOK
  <2>2. CASE pc # "minimize"
    BY <1>13, <2>2, <1>t, <1>d DEF Abort, TypeOK
  <2> QED
    BY <2>1, <2>2
<1>14. CASE Drift
  <2>1. response' \in Responses
    BY <1>14, CompareAssumption DEF Drift, Always, Responses
  <2> QED
    BY <1>14, <2>1, <1>t, <1>d DEF Drift, TypeOK
<1>15. CASE UNCHANGED vars
  BY <1>15, <1>t, <1>d DEF TypeOK
<1> QED
  BY <1>1, <1>2, <1>3, <1>4, <1>5, <1>6, <1>7, <1>8, <1>9, <1>10, <1>11, <1>12,
     <1>13, <1>14, <1>15 DEF Next, Steps

-------------------------------------------------------------------------------
(***************************************************************************)
(* The stages.                                                             *)
(***************************************************************************)

\* A minimiser that runs or ran is not idle, and owns a list of items.
LEMMA MinimiserUnchanged ==
    ASSUME StageOrder, UNCHANGED ddminVars
    PROVE  (IF phase = "idle"
            THEN index = 0 /\ tests = 0 /\ refuted = {}
            ELSE D!SearchInv /\ current # <<>>)'
  BY DEF StageOrder, ddminVars, D!SearchInv, D!TypeOK, D!LoopBounds,
         D!ComplementsRefuted, D!ResultOneMinimal, D!Searching, D!Without,
         D!Complement, D!Cut, D!Start, D!Least

LEMMA StageOrderStep == CompareInv /\ [Next]_vars => StageOrder'
<1> SUFFICES ASSUME CompareInv, [Next]_vars PROVE StageOrder'
  OBVIOUS
<1> USE DEF inputVars, endpointVars, resultVars, vars
<1>t. TypeOK /\ StageOrder /\ TypeOK'
  BY TypeStep DEF CompareInv
<1>r. EndpointRuns \in Nat \ {0} /\ SubsetRuns \in Nat \ {0}
  BY CompareAssumption
<1>s. /\ good \in Seq(Outcomes) /\ bad \in Seq(Outcomes)
      /\ batch \in Seq(Outcomes)
      /\ Len(good) \in Nat /\ Len(bad) \in Nat /\ Len(batch) \in Nat
  BY <1>t DEF TypeOK
<1>d. UNCHANGED ddminVars
        => (IF phase = "idle"
            THEN index = 0 /\ tests = 0 /\ refuted = {}
            ELSE D!SearchInv /\ current # <<>>)'
  BY <1>t, MinimiserUnchanged
<1>p. UNCHANGED ddminVars => phase' = phase
  BY DEF ddminVars
<1>1. CASE GoodAttempt
  <2>1. PICK outcome \in Outcomes : good' = Append(good, outcome)
    BY <1>1 DEF GoodAttempt
  <2>2. Len(good') = Len(good) + 1
    BY <2>1, <1>s
  <2> QED
    BY <1>1, <1>t, <1>r, <1>s, <1>d, <1>p, <2>2 DEF GoodAttempt, StageOrder
<1>2. CASE BadAttempt
  <2>1. PICK outcome \in Outcomes : bad' = Append(bad, outcome)
    BY <1>2 DEF BadAttempt
  <2>2. Len(bad') = Len(bad) + 1
    BY <2>1, <1>s
  <2> QED
    BY <1>2, <1>t, <1>r, <1>s, <1>d, <1>p, <2>2 DEF BadAttempt, StageOrder
<1>3. CASE EndpointsInconclusive \/ EndpointsEquivalent \/ DifferenceUnexplained
  BY <1>3, <1>t, <1>r, <1>s, <1>d, <1>p
     DEF EndpointsInconclusive, EndpointsEquivalent, DifferenceUnexplained,
         EndpointsComplete, Decided, StageOrder
<1>4. CASE MinimizationStarts
  <2>1. index = 0 /\ tests = 0 /\ refuted = {}
    BY <1>4, <1>t DEF MinimizationStarts, EndpointsComplete, StageOrder
  <2>2. /\ D!SearchInv' /\ current' # <<>>
        /\ phase' \in {"subsets", "done"}
    BY <2>1, <1>4, <1>t, MinimiserStarts
  <2>3. /\ (delta > 0 /\ EndpointsUsable /\ good[1] # bad[1])'
        /\ Len(good') = EndpointRuns /\ Len(bad') = EndpointRuns
        /\ batch' = <<>> /\ status' = "none" /\ reverted' = "none"
        /\ pc' = IF phase' = "done" THEN "final" ELSE "minimize"
    BY <1>4, <1>t
       DEF MinimizationStarts, EndpointsComplete, EndpointsUsable, Stable,
           StageOrder
  <2> QED
    BY <2>2, <2>3, <1>r DEF StageOrder
<1>5. CASE SubsetAttempt
  <2>1. PICK outcome \in Outcomes : batch' = Append(batch, outcome)
    BY <1>5 DEF SubsetAttempt
  <2>2. Len(batch') = Len(batch) + 1
    BY <2>1, <1>s
  <2>3. (EndpointsUsable /\ good[1] # bad[1])'
    BY <1>5, <1>t DEF SubsetAttempt, StageOrder, EndpointsUsable, Stable
  <2> QED
    BY <1>5, <1>t, <1>r, <1>s, <1>d, <1>p, <2>2, <2>3
       DEF SubsetAttempt, BatchFull, StageOrder
<1>6. CASE SubsetVerdict
  <2>1. D!SearchInv /\ current # <<>>
    BY <1>6, <1>t DEF SubsetVerdict, StageOrder
  <2>2. D!SearchInv' /\ current' # <<>>
    BY <2>1, <1>6, VerdictIsStep, MinimiserStep
  <2>3. phase' \in {"subsets", "complements", "done"}
    BY <1>6
       DEF SubsetVerdict, D!KeepSubset, D!KeepComplement, D!ReduceTo, D!LoopPhase,
           D!NextPart, D!SubsetsExhausted, D!Refine, D!Finish, D!Refute,
           D!Searching
  <2>4. /\ (delta > 0 /\ EndpointsUsable /\ good[1] # bad[1])'
        /\ Len(good') = EndpointRuns /\ Len(bad') = EndpointRuns
        /\ batch' = <<>> /\ status' = "none" /\ reverted' = "none"
        /\ pc' = IF phase' = "done" THEN "final" ELSE "minimize"
    BY <1>6, <1>t DEF SubsetVerdict, StageOrder, EndpointsUsable, Stable
  <2> QED
    BY <2>2, <2>3, <2>4, <1>r DEF StageOrder
<1>7. CASE FinalWithoutReversion
  BY <1>7, <1>t, <1>r, <1>s, <1>d, <1>p
     DEF FinalWithoutReversion, Decided, BatchFull, StageOrder
<1>8. CASE FinalWithReversion
  <2>1. (EndpointsUsable /\ good[1] # bad[1])'
    BY <1>8, <1>t DEF FinalWithReversion, StageOrder, EndpointsUsable, Stable
  <2> QED
    BY <1>8, <1>t, <1>r, <1>s, <1>d, <1>p, <2>1
       DEF FinalWithReversion, BatchFull, StageOrder
<1>9. CASE Reversion
  BY <1>9, <1>t, <1>r, <1>s, <1>d, <1>p DEF Reversion, StageOrder
<1>10. CASE Finished
  BY <1>10, <1>t, <1>r, <1>s, <1>d, <1>p DEF Finished, StageOrder
<1>11. CASE Abort
  <2>1. (IF phase = "idle"
         THEN index = 0 /\ tests = 0 /\ refuted = {}
         ELSE D!SearchInv /\ current # <<>>)'
    <3>1. CASE pc = "minimize"
      <4>1. D!SearchInv /\ current # <<>> /\ [D!Next]_ddminVars
        BY <1>11, <3>1, <1>t DEF Abort, StageOrder, D!Next
      <4>2. phase' # "idle"
        BY <1>11, <3>1 DEF Abort, D!PredicateError
      <4> QED
        BY <4>1, <4>2, MinimiserStep
    <3>2. CASE pc # "minimize"
      BY <1>11, <3>2, <1>d DEF Abort
    <3> QED
      BY <3>1, <3>2
  <2> QED
    BY <1>11, <2>1, <1>t, <1>r, <1>s DEF Abort, StageOrder
<1>12. CASE Drift \/ UNCHANGED vars
  <2>1. UNCHANGED <<pc, endpointVars, batch, resultVars, ddminVars>>
    BY <1>12 DEF Drift
  <2>2. EndpointsUsable' = EndpointsUsable
    BY <2>1 DEF EndpointsUsable, Stable
  <2> QED
    BY <2>1, <2>2, <1>t, <1>d, <1>p DEF StageOrder, BatchFull
<1> QED
  BY <1>1, <1>2, <1>3, <1>4, <1>5, <1>6, <1>7, <1>8, <1>9, <1>10, <1>11, <1>12
     DEF Next, Steps

-------------------------------------------------------------------------------
(***************************************************************************)
(* The verdicts.                                                           *)
(***************************************************************************)

\* Only the four decisions write a status, and none of them twice.
LEMMA StatusWrittenOnce ==
    ASSUME CompareInv, [Next]_vars
    PROVE  \/ EndpointsInconclusive \/ EndpointsEquivalent
           \/ DifferenceUnexplained
           \/ FinalWithoutReversion \/ Reversion
           \/ /\ status' = status /\ status = "none"
           \/ /\ UNCHANGED <<inputVars, good, bad, batch, resultVars>>
              /\ UNCHANGED current /\ UNCHANGED refuted
<1> USE DEF inputVars, endpointVars, resultVars, ddminVars, vars
<1>1. StageOrder
  BY DEF CompareInv
<1>2. CASE GoodAttempt \/ BadAttempt
  BY <1>1, <1>2 DEF GoodAttempt, BadAttempt, StageOrder
<1>3. CASE MinimizationStarts \/ SubsetAttempt \/ SubsetVerdict
  BY <1>1, <1>3
     DEF MinimizationStarts, EndpointsComplete, SubsetAttempt, SubsetVerdict,
         StageOrder
<1>4. CASE FinalWithReversion \/ Finished \/ Drift \/ UNCHANGED vars
  BY <1>4 DEF FinalWithReversion, Finished, Drift
<1>5. CASE Abort
  BY <1>5 DEF Abort, D!PredicateError
<1> QED
  BY <1>2, <1>3, <1>4, <1>5 DEF Next, Steps

\* Both endpoints repeated themselves when the delta is being minimised.
LEMMA EndpointsRepeat ==
    ASSUME TypeOK, EndpointsUsable, Len(good) = EndpointRuns,
           Len(bad) = EndpointRuns
    PROVE  /\ \A i \in 1..EndpointRuns : good[i] = good[1] /\ bad[i] = bad[1]
           /\ good[1] \in Artifacts
<1>1. EndpointRuns \in Nat \ {0}
  BY CompareAssumption
<1>2. DOMAIN good = 1..EndpointRuns /\ DOMAIN bad = 1..EndpointRuns
  BY DEF TypeOK
<1>3. 1 \in 1..EndpointRuns
  BY <1>1
<1> QED
  BY <1>2, <1>3 DEF EndpointsUsable, Stable

\* A decision taken on a complete batch of the minimal subset.
LEMMA DecidedOnBatch ==
    ASSUME CompareInv, pc \in {"final", "revert"}, BatchFull,
           UNCHANGED <<endpointVars, batch, ddminVars>>,
           status' = StatusOf(reverted'),
           reverted' = "none" => confirmation_runs = 0,
           reverted' = "yes" => confirmation_runs = 1,
           reverted' \in {"none", "yes", "no"}
    PROVE  (MinimizedIsWitnessed /\ MinimizedIsIrreducible
            /\ EquivalentIsWitnessed)'
<1> USE DEF inputVars, endpointVars, ddminVars
<1>1. TypeOK /\ StageOrder
  BY DEF CompareInv
<1>2. /\ EndpointsUsable /\ good[1] # bad[1]
      /\ Len(good) = EndpointRuns /\ Len(bad) = EndpointRuns
      /\ D!SearchInv /\ current # <<>> /\ phase = "done"
  BY <1>1 DEF StageOrder
<1>3. status' \in {"minimized", "inconclusive"}
  BY DEF StatusOf
<1>4. status' = "minimized" => Reproduces(batch) /\ reverted' # "no"
  BY DEF StatusOf
<1>5. Reproduces(batch)' = Reproduces(batch)
  BY DEF Reproduces
<1>6. MinimizedIsWitnessed'
  <2>1. /\ \A i \in 1..EndpointRuns : good[i] = good[1] /\ bad[i] = bad[1]
        /\ good[1] \in Artifacts
    BY <1>1, <1>2, EndpointsRepeat
  <2>2. Reproduces(batch) => (\A i \in DOMAIN batch' : batch'[i] = bad'[1])
    BY DEF Reproduces
  <2> QED
    BY <1>2, <1>4, <2>1, <2>2 DEF MinimizedIsWitnessed, BatchFull, Reproduces
<1>7. MinimizedIsIrreducible'
  BY <1>2
     DEF MinimizedIsIrreducible, D!SearchInv, D!ResultOneMinimal, D!Without,
         D!Cut
<1>8. EquivalentIsWitnessed'
  BY <1>3 DEF EquivalentIsWitnessed
<1> QED
  BY <1>6, <1>7, <1>8

LEMMA VerdictStep ==
    CompareInv /\ [Next]_vars
        => (MinimizedIsWitnessed /\ MinimizedIsIrreducible
            /\ EquivalentIsWitnessed)'
<1> SUFFICES ASSUME CompareInv, [Next]_vars
             PROVE  (MinimizedIsWitnessed /\ MinimizedIsIrreducible
                     /\ EquivalentIsWitnessed)'
  OBVIOUS
<1> USE DEF inputVars, endpointVars, resultVars
<1>t. /\ TypeOK /\ StageOrder
      /\ MinimizedIsWitnessed /\ MinimizedIsIrreducible
      /\ EquivalentIsWitnessed
  BY DEF CompareInv
<1>1. CASE EndpointsInconclusive \/ DifferenceUnexplained
  BY <1>1
     DEF EndpointsInconclusive, DifferenceUnexplained, Decided,
         MinimizedIsWitnessed, MinimizedIsIrreducible, EquivalentIsWitnessed
<1>2. CASE EndpointsEquivalent
  <2>1. /\ EndpointsUsable /\ good[1] = bad[1]
        /\ Len(good) = EndpointRuns /\ Len(bad) = EndpointRuns
    BY <1>2, <1>t DEF EndpointsEquivalent, EndpointsComplete, StageOrder
  <2>2. /\ \A i \in 1..EndpointRuns : good[i] = good[1] /\ bad[i] = bad[1]
        /\ good[1] \in Artifacts
    BY <2>1, <1>t, EndpointsRepeat
  <2> QED
    BY <1>2, <2>1, <2>2
       DEF EndpointsEquivalent, Decided, MinimizedIsWitnessed,
           MinimizedIsIrreducible, EquivalentIsWitnessed
<1>3. CASE FinalWithoutReversion
  <2>1. reverted = "none"
    BY <1>3, <1>t DEF FinalWithoutReversion, StageOrder
  <2> QED
    BY <1>3, <2>1, DecidedOnBatch DEF FinalWithoutReversion, Decided
<1>4. CASE Reversion
  <2>1. BatchFull /\ confirmation_runs = 1
    BY <1>4, <1>t DEF Reversion, StageOrder
  <2> QED
    BY <1>4, <2>1, DecidedOnBatch DEF Reversion
<1>5. CASE status' = status /\ status = "none"
  BY <1>5 DEF MinimizedIsWitnessed, MinimizedIsIrreducible, EquivalentIsWitnessed
<1>6. CASE /\ UNCHANGED <<inputVars, good, bad, batch, resultVars>>
           /\ UNCHANGED current /\ UNCHANGED refuted
  BY <1>6, <1>t
     DEF MinimizedIsWitnessed, MinimizedIsIrreducible, EquivalentIsWitnessed,
         Reproduces, D!Without, D!Cut
<1> QED
  BY <1>1, <1>2, <1>3, <1>4, <1>5, <1>6, StatusWrittenOnce

LEMMA CompareInvInit == Init => CompareInv
<1> SUFFICES ASSUME Init PROVE CompareInv
  OBVIOUS
<1>1. EndpointRuns \in Nat \ {0} /\ SubsetRuns \in Nat \ {0}
  BY CompareAssumption
<1>2. TypeOK
  BY CompareAssumption DEF Init, TypeOK
<1>3. StageOrder
  BY <1>1 DEF Init, StageOrder
<1> QED
  BY <1>2, <1>3
     DEF Init, CompareInv, MinimizedIsWitnessed, MinimizedIsIrreducible,
         EquivalentIsWitnessed

\* The inductive invariant, whose last three parts say that a verdict of
\* `compare` rests on builds that were observed.
THEOREM CompareInvariant == Spec => []CompareInv
<1>1. CompareInv /\ [Next]_vars => CompareInv'
  BY TypeStep, StageOrderStep, VerdictStep DEF CompareInv
<1> QED
  BY <1>1, CompareInvInit, PTL DEF Spec

\* "minimized" is claimed only for a subset that was seen to give the known-bad
\* outcome each time, and to need every one of its entries.
THEOREM MinimizedDeltasAreExplained ==
    Spec => [](MinimizedIsWitnessed /\ MinimizedIsIrreducible)
<1>1. CompareInv => MinimizedIsWitnessed /\ MinimizedIsIrreducible
  BY DEF CompareInv
<1> QED
  BY <1>1, CompareInvariant, PTL

-------------------------------------------------------------------------------
(***************************************************************************)
(* A machine that changes during a comparison.                             *)
(***************************************************************************)

\* If nothing in the environment matters, the attempts before the change agree,
\* and the known-bad attempts come after the known-good ones: once one of these
\* saw the change, so did every known-bad one.
DriftShows ==
    /\ \A outcome \in Outcomes \ {Drifted} : response = Always(outcome) =>
          /\ \A i \in DOMAIN good : good[i] = outcome
          /\ \A i \in DOMAIN bad : bad[i] = outcome
    /\ response = Always(Drifted) /\ (\E i \in DOMAIN good : good[i] = Drifted)
          => \A i \in DOMAIN bad : bad[i] = Drifted

LEMMA AlwaysDiffers ==
    ASSUME NEW one, NEW other, one # other
    PROVE  Always(one) # Always(other)
<1>1. {} \in Subsets
  BY DEF Subsets
<1>2. Always(one)[{}] = {one} /\ Always(other)[{}] = {other}
  BY <1>1 DEF Always
<1> QED
  BY <1>2

\* In such a world every attempt has the one outcome.
LEMMA OnlyOutcome ==
    ASSUME NEW one, NEW applied \in Subsets, response = Always(one),
           NEW outcome, outcome \in response[applied]
    PROVE  outcome = one
  BY DEF Always

LEMMA AppendedIs ==
    ASSUME NEW S, NEW s \in Seq(S), NEW e \in S, NEW i \in DOMAIN Append(s, e)
    PROVE  (i \in DOMAIN s /\ Append(s, e)[i] = s[i]) \/ Append(s, e)[i] = e
  OBVIOUS

LEMMA DriftShowsStep ==
    CompareInv /\ DriftShows /\ [Next]_vars => DriftShows'
<1> SUFFICES ASSUME CompareInv, DriftShows, [Next]_vars PROVE DriftShows'
  OBVIOUS
<1> USE DEF inputVars, endpointVars, resultVars
<1>t. /\ good \in Seq(Outcomes) /\ bad \in Seq(Outcomes)
      /\ delta \in 0..MaxDelta /\ MaxDelta \in Nat
      /\ pc = "good" => bad = <<>>
  BY CompareAssumption DEF CompareInv, TypeOK, StageOrder
<1>s. {} \in Subsets /\ 1..delta \in Subsets
  BY <1>t DEF Subsets
<1>1. CASE GoodAttempt
  <2>1. PICK outcome \in Outcomes : /\ outcome \in response[{}]
                                    /\ good' = Append(good, outcome)
    BY <1>1 DEF GoodAttempt, Attempt
  <2>2. bad = <<>> /\ bad' = bad /\ response' = response
    BY <1>1, <1>t DEF GoodAttempt
  <2>3. ASSUME NEW one, response = Always(one),
               \A i \in DOMAIN good : good[i] = one
        PROVE  \A i \in DOMAIN good' : good'[i] = one
    <3>1. outcome = one
      BY <2>1, <2>3, <1>s, OnlyOutcome
    <3> QED
      BY <3>1, <2>1, <2>3, <1>t, AppendedIs
  <2> QED
    BY <2>2, <2>3 DEF DriftShows
<1>2. CASE BadAttempt
  <2>1. PICK outcome \in Outcomes : /\ outcome \in response[1..delta]
                                    /\ bad' = Append(bad, outcome)
    BY <1>2 DEF BadAttempt, Attempt
  <2>2. good' = good /\ response' = response
    BY <1>2 DEF BadAttempt
  <2>3. ASSUME NEW one, response = Always(one),
               \A i \in DOMAIN bad : bad[i] = one
        PROVE  \A i \in DOMAIN bad' : bad'[i] = one
    <3>1. outcome = one
      BY <2>1, <2>3, <1>s, OnlyOutcome
    <3> QED
      BY <3>1, <2>1, <2>3, <1>t, AppendedIs
  <2> QED
    BY <2>2, <2>3 DEF DriftShows
<1>3. CASE Drift
  <2>1. PICK one \in Outcomes \ {Drifted} : response = Always(one)
    BY <1>3 DEF Drift
  <2>2. \A i \in DOMAIN good : good[i] = one
    BY <2>1 DEF DriftShows
  <2>3. good' = good /\ bad' = bad /\ response' = Always(Drifted)
    BY <1>3 DEF Drift
  <2>4. \A outcome \in Outcomes \ {Drifted} : response' # Always(outcome)
    BY <2>3, AlwaysDiffers
  <2> QED
    BY <2>1, <2>2, <2>3, <2>4 DEF DriftShows
<1>4. CASE UNCHANGED <<good, bad, response>>
  BY <1>4 DEF DriftShows
<1> QED
  BY <1>1, <1>2, <1>3, <1>4
     DEF Next, Steps, EndpointsInconclusive, EndpointsEquivalent,
         DifferenceUnexplained, MinimizationStarts, Decided, SubsetAttempt,
         SubsetVerdict, FinalWithoutReversion, FinalWithReversion, Reversion,
         Finished, Abort, vars

\* The known-good environment does not give its artifacts back after the change,
\* and before it there is no difference to minimise.
LEMMA DriftNotRecovered ==
    ASSUME CompareInv, DriftShows, Reversion,
           NEW one \in Outcomes, response = Always(one)
    PROVE  status' # "minimized"
<1>1. /\ EndpointsUsable /\ good[1] # bad[1]
      /\ Len(good) = EndpointRuns /\ Len(bad) = EndpointRuns
      /\ good \in Seq(Outcomes) /\ bad \in Seq(Outcomes)
  BY DEF Reversion, CompareInv, TypeOK, StageOrder
<1>2. 1 \in DOMAIN good /\ 1 \in DOMAIN bad
  BY <1>1, CompareAssumption
<1>3. one = Drifted /\ good[1] # Drifted
  BY <1>1, <1>2 DEF DriftShows
<1>4. \A outcome \in response[{}] : outcome = one
  BY OnlyOutcome DEF Subsets
<1>5. reverted' = "no"
  BY <1>3, <1>4 DEF Reversion
<1> QED
  BY <1>5 DEF Reversion, StatusOf

\* A change of the machine while a confirmed comparison runs is never explained
\* by entries of the environment delta.
THEOREM DriftIsNeverMinimized == Spec => []DriftIsNotMinimized
<1> DEFINE Inv == CompareInv /\ DriftShows /\ DriftIsNotMinimized
<1>1. Init => Inv
  BY CompareInvInit DEF Init, DriftShows, DriftIsNotMinimized
<1>2. Inv /\ [Next]_vars => Inv'
  <2> SUFFICES ASSUME Inv, [Next]_vars PROVE Inv'
    OBVIOUS
  <2>1. CompareInv' /\ DriftShows'
    BY TypeStep, StageOrderStep, VerdictStep, DriftShowsStep DEF CompareInv
  <2>2. ASSUME NEW one \in Outcomes, response' = Always(one),
               confirmation_runs' = 1
        PROVE  status' # "minimized"
    <3>1. confirmation_runs = 1
      BY <2>2
         DEF Next, Steps, GoodAttempt, BadAttempt, EndpointsInconclusive,
             EndpointsEquivalent, DifferenceUnexplained, MinimizationStarts,
             Decided, SubsetAttempt, SubsetVerdict, FinalWithoutReversion,
             FinalWithReversion, Reversion, Finished, Abort, Drift, vars,
             endpointVars, inputVars
    <3>2. CASE Reversion
      BY <2>2, <3>2, DriftNotRecovered DEF Reversion
    <3>3. CASE Drift
      BY <3>1, <3>3 DEF Drift, DriftIsNotMinimized, resultVars
    <3>4. CASE UNCHANGED vars
      BY <2>2, <3>1, <3>4 DEF vars, resultVars, DriftIsNotMinimized
    <3>5. CASE EndpointsInconclusive \/ EndpointsEquivalent
               \/ DifferenceUnexplained
      BY <3>5
         DEF EndpointsInconclusive, EndpointsEquivalent, DifferenceUnexplained,
             Decided
    <3>6. CASE FinalWithoutReversion
      BY <3>1, <3>6 DEF FinalWithoutReversion
    <3>7. CASE UNCHANGED <<status, response>>
      BY <2>2, <3>1, <3>7 DEF DriftIsNotMinimized
    <3> QED
      BY <3>2, <3>3, <3>4, <3>5, <3>6, <3>7
         DEF Next, Steps, GoodAttempt, BadAttempt, MinimizationStarts,
             SubsetAttempt, SubsetVerdict, FinalWithReversion, Finished, Abort,
             resultVars
  <2> QED
    BY <2>1, <2>2 DEF DriftIsNotMinimized
<1>3. Inv => DriftIsNotMinimized
  OBVIOUS
<1> QED
  BY <1>1, <1>2, <1>3, PTL DEF Spec

-------------------------------------------------------------------------------
(***************************************************************************)
(* The cost of a comparison.                                               *)
(***************************************************************************)

\* Every attempt that was numbered is an endpoint's, one of a full batch that had
\* a verdict, or in the running batch; and the verdicts are within the minimiser's
\* bound for the entries of the delta.
Spending ==
    /\ ordinal - 1 <= Len(good) + Len(bad) + SubsetRuns * tests + Len(batch)
    /\ Len(good) <= EndpointRuns /\ Len(bad) <= EndpointRuns
    /\ phase # "idle" => DP!CallsWithin(DP!MostTests(delta))

LEMMA SpendingStarts ==
    ASSUME MinimizationStarts, CompareInv
    PROVE  DP!CallsWithin(DP!MostTests(delta))'
<1>1. /\ delta \in Nat /\ delta > 0 /\ delta' = delta /\ MaxDelta \in Nat
      /\ index = 0 /\ tests = 0
  BY CompareAssumption
     DEF CompareInv, TypeOK, StageOrder, MinimizationStarts, EndpointsComplete,
         endpointVars, inputVars
<1>2. Len(current') = delta
  BY <1>1 DEF MinimizationStarts
<1>3. /\ granularity' = DP!Least(2, delta) /\ index' = 0 /\ tests' = 0
      /\ phase' = IF delta >= 2 THEN "subsets" ELSE "done"
  BY <1>1, <1>2 DEF MinimizationStarts, D!Least, DP!Least, D!LoopPhase
<1>4. /\ DP!CallsLeft(delta, DP!Least(2, delta)) <= DP!MostTests(delta)
      /\ DP!MostTests(delta) \in Nat
  BY <1>1, DP!CallsAtStart, DP!MostTestsTyped
<1>5. DP!CallsLeft(delta, DP!Least(2, delta)) \in Int
  BY <1>1 DEF DP!CallsLeft, DP!Least
<1>6. DP!MostTests(delta)' = DP!MostTests(delta)
  BY <1>1 DEF DP!MostTests
<1> QED
  BY <1>2, <1>3, <1>4, <1>5, <1>6 DEF DP!CallsWithin, DP!Searching

LEMMA SpendingKept ==
    ASSUME D!SearchInv, [D!Next]_ddminVars, delta \in Nat, delta' = delta,
           DP!CallsWithin(DP!MostTests(delta))
    PROVE  DP!CallsWithin(DP!MostTests(delta))'
<1> SUFFICES ASSUME NEW most \in Nat, most = DP!MostTests(delta)
             PROVE  DP!CallsWithin(DP!MostTests(delta))'
  BY DP!MostTestsTyped, CompareAssumption
<1>1. MaxDelta \in Nat
  BY CompareAssumption
<1>2. DP!CallsWithin(most)
  BY DEF DP!CallsWithin
<1>3. DP!CallsWithin(most)'
  BY <1>1, <1>2, SameSearchInv, SameSteps, DP!CallsStep
<1>4. DP!MostTests(delta)' = most
  BY DEF DP!MostTests
<1> QED
  BY <1>3, <1>4 DEF DP!CallsWithin

LEMMA SpendingStep == CompareInv /\ Spending /\ [Next]_vars => Spending'
<1> SUFFICES ASSUME CompareInv, Spending, [Next]_vars PROVE Spending'
  OBVIOUS
<1>t. /\ TypeOK /\ StageOrder
      /\ ordinal \in Nat /\ delta \in Nat /\ SubsetRuns \in Nat
      /\ good \in Seq(Outcomes) /\ bad \in Seq(Outcomes) /\ batch \in Seq(Outcomes)
      /\ Len(good) \in Nat /\ Len(bad) \in Nat /\ Len(batch) \in Nat
  BY CompareAssumption DEF CompareInv, TypeOK
<1>d. delta' = delta
  BY DEF Next, Steps, GoodAttempt, BadAttempt, EndpointsInconclusive,
         EndpointsEquivalent, DifferenceUnexplained, Decided, MinimizationStarts,
         SubsetAttempt, SubsetVerdict, FinalWithoutReversion, FinalWithReversion,
         Reversion, Finished, Abort, Drift, vars, endpointVars, inputVars
<1>1. ASSUME UNCHANGED ddminVars
      PROVE  (phase # "idle" => DP!CallsWithin(DP!MostTests(delta)))' /\ tests' = tests
  BY <1>1, <1>d
     DEF Spending, ddminVars, DP!CallsWithin, DP!Searching, DP!MostTests
<1>2. ASSUME UNCHANGED <<ordinal, good, bad, batch, ddminVars>> PROVE Spending'
  BY <1>1, <1>2 DEF Spending
<1>p. SubsetRuns * tests \in Nat
  BY <1>t DEF StageOrder, D!SearchInv, D!TypeOK
<1>q. ASSUME UNCHANGED ddminVars, ordinal' = ordinal + 1,
             Len(good') \in Nat, Len(bad') \in Nat, Len(batch') \in Nat,
             Len(good') <= EndpointRuns, Len(bad') <= EndpointRuns,
             Len(good') + Len(bad') + Len(batch') = Len(good) + Len(bad) + Len(batch) + 1
      PROVE  Spending'
  <2>1. SubsetRuns * tests' = SubsetRuns * tests
    BY <1>1, <1>q
  <2>2. ordinal' - 1 <= Len(good') + Len(bad') + SubsetRuns * tests' + Len(batch')
    BY <1>p, <1>q, <1>t, <2>1 DEF Spending
  <2> QED
    BY <1>1, <1>q, <2>2 DEF Spending
<1>e. EndpointRuns \in Nat
  BY CompareAssumption
<1>3. CASE GoodAttempt
  <2>1. PICK outcome \in Outcomes : good' = Append(good, outcome)
    BY <1>3 DEF GoodAttempt
  <2>2. Len(good') = Len(good) + 1 /\ Len(good) < EndpointRuns
    BY <1>3, <1>t, <2>1 DEF GoodAttempt, StageOrder
  <2>3. UNCHANGED <<bad, batch, ddminVars>> /\ ordinal' = ordinal + 1
    BY <1>3 DEF GoodAttempt, Attempt
  <2>4. Len(bad) <= EndpointRuns
    BY DEF Spending
  <2> QED
    BY <1>e, <1>q, <1>t, <2>2, <2>3, <2>4
<1>4. CASE BadAttempt
  <2>1. PICK outcome \in Outcomes : bad' = Append(bad, outcome)
    BY <1>4 DEF BadAttempt
  <2>2. Len(bad') = Len(bad) + 1 /\ Len(bad) < EndpointRuns
    BY <1>4, <1>t, <2>1 DEF BadAttempt
  <2>3. UNCHANGED <<good, batch, ddminVars>> /\ ordinal' = ordinal + 1
    BY <1>4 DEF BadAttempt, Attempt
  <2>4. Len(good) <= EndpointRuns
    BY DEF Spending
  <2> QED
    BY <1>e, <1>q, <1>t, <2>2, <2>3, <2>4
<1>5. CASE MinimizationStarts
  BY <1>5, SpendingStarts DEF MinimizationStarts, endpointVars, Spending
<1>6. CASE SubsetAttempt
  <2>1. PICK outcome \in Outcomes : batch' = Append(batch, outcome)
    BY <1>6 DEF SubsetAttempt
  <2>2. Len(batch') = Len(batch) + 1
    BY <1>t, <2>1
  <2>3. UNCHANGED <<good, bad, ddminVars>> /\ ordinal' = ordinal + 1
    BY <1>6 DEF SubsetAttempt, Attempt, endpointVars
  <2>4. Len(good) <= EndpointRuns /\ Len(bad) <= EndpointRuns
    BY DEF Spending
  <2> QED
    BY <1>e, <1>q, <1>t, <2>2, <2>3, <2>4
<1>7. CASE SubsetVerdict
  <2>1. D!SearchInv /\ phase # "idle" /\ tests \in Nat /\ Len(batch) = SubsetRuns
    BY <1>7, <1>t DEF SubsetVerdict, StageOrder, BatchFull, D!SearchInv, D!TypeOK
  <2>2. DP!CallsWithin(DP!MostTests(delta))'
    BY <1>7, <1>d, <1>t, <2>1, VerdictIsStep, SpendingKept DEF Spending
  <2>3. /\ tests' = tests + 1 /\ batch' = <<>>
        /\ UNCHANGED <<ordinal, good, bad>>
    BY <1>7
       DEF SubsetVerdict, endpointVars, D!KeepSubset, D!KeepComplement, D!ReduceTo,
           D!NextPart, D!SubsetsExhausted, D!Refine, D!Finish, D!Refute
  <2>4. SubsetRuns * (tests + 1) = SubsetRuns * tests + SubsetRuns
    BY <1>t, <2>1
  <2>5. Len(batch') = 0
    BY <2>3
  <2> QED
    BY <1>t, <2>1, <2>2, <2>3, <2>4, <2>5 DEF Spending
<1>8. CASE Abort
  <2>1. UNCHANGED <<ordinal, good, bad, batch>>
    BY <1>8 DEF Abort, endpointVars
  <2>2. CASE pc = "minimize"
    <3>1. D!SearchInv /\ phase # "idle" /\ tests \in Nat /\ D!PredicateError
      BY <1>8, <1>t, <2>2 DEF Abort, StageOrder, D!SearchInv, D!TypeOK
    <3>2. DP!CallsWithin(DP!MostTests(delta))'
      BY <1>d, <1>t, <3>1, SpendingKept DEF Spending, D!Next
    <3>3. tests' = tests + 1
      BY <3>1 DEF D!PredicateError
    <3>4. SubsetRuns * (tests + 1) = SubsetRuns * tests + SubsetRuns
      BY <1>t, <3>1
    <3>5. SubsetRuns * tests \in Nat
      BY <1>t, <3>1
    <3> QED
      BY <1>t, <2>1, <3>2, <3>3, <3>4, <3>5 DEF Spending
  <2>3. CASE pc # "minimize"
    BY <1>2, <1>8, <2>1, <2>3 DEF Abort
  <2> QED
    BY <2>2, <2>3
<1>9. CASE EndpointsInconclusive \/ EndpointsEquivalent \/ DifferenceUnexplained
           \/ FinalWithoutReversion
  BY <1>2, <1>9
     DEF EndpointsInconclusive, EndpointsEquivalent, DifferenceUnexplained,
         FinalWithoutReversion, Decided, endpointVars
<1>10. CASE FinalWithReversion \/ Reversion \/ Finished \/ Drift
  BY <1>2, <1>10 DEF FinalWithReversion, Reversion, Finished, Drift, endpointVars
<1>11. CASE UNCHANGED vars
  BY <1>2, <1>11 DEF vars, endpointVars
<1> QED
  BY <1>3, <1>4, <1>5, <1>6, <1>7, <1>8, <1>9, <1>10, <1>11 DEF Next, Steps

\* For every delta and every pattern of outcomes, a comparison makes no more build
\* attempts than can be told before it starts.
THEOREM AttemptsAreBounded == Spec => []AttemptBudget
<1>1. Init => Spending
  BY CompareAssumption DEF Init, Spending
<1>2. CompareInv /\ Spending => AttemptBudget
  <2> SUFFICES ASSUME CompareInv, Spending PROVE AttemptBudget
    OBVIOUS
  <2>1. /\ ordinal \in Nat /\ delta \in Nat /\ SubsetRuns \in Nat /\ MaxDelta \in Nat
        /\ Len(good) \in Nat /\ Len(bad) \in Nat /\ Len(batch) \in Nat
        /\ EndpointRuns \in Nat /\ Len(batch) <= SubsetRuns
    BY CompareAssumption DEF CompareInv, TypeOK, StageOrder
  <2> DEFINE most == D!MostTests(delta)
  <2>2. most = DP!MostTests(delta) /\ most \in Nat
    <3>1. D!MostTests(delta) = DP!MostTests(delta)
      BY DEF D!MostTests, DP!MostTests
    <3> QED
      BY <2>1, <3>1, DP!MostTestsTyped
  <2>3. tests \in Nat /\ tests <= most
    <3>1. CASE phase = "idle"
      BY <2>2, <3>1 DEF CompareInv, StageOrder
    <3>2. CASE phase # "idle"
      <4>1. DP!SearchInv /\ DP!CallsWithin(DP!MostTests(delta))
        BY <3>2, SameSearchInv DEF CompareInv, StageOrder, Spending
      <4> QED
        BY <2>1, <2>2, <4>1, DP!CallsBound DEF DP!SearchInv, DP!TypeOK
    <3> QED
      BY <3>1, <3>2
  <2> HIDE DEF most
  <2>4. SubsetRuns * tests <= SubsetRuns * most
    <3>1. SubsetRuns * (most - tests) >= 0
      BY <2>1, <2>2, <2>3
    <3> QED
      BY <2>1, <2>2, <2>3, <3>1
  <2>5. SubsetRuns * (most + 1) = SubsetRuns * most + SubsetRuns
    BY <2>1, <2>2
  <2>6. SubsetRuns * most \in Nat /\ SubsetRuns * tests \in Nat
    BY <2>1, <2>2, <2>3
  <2>7. ordinal - 1 <= 2 * EndpointRuns + SubsetRuns * (most + 1)
    BY <2>1, <2>4, <2>5, <2>6 DEF Spending
  <2> QED
    BY <2>7 DEF AttemptBudget, most
<1> QED
  BY <1>1, <1>2, SpendingStep, CompareInvariant, PTL DEF Spec

-------------------------------------------------------------------------------
(***************************************************************************)
(* Builds that are a function of their environment.                        *)
(***************************************************************************)

\* The worlds in which the delta explains something that can be observed.
Explained ==
    /\ Deterministic
    /\ response[{}] \subseteq Artifacts
    /\ response[{}] # response[1..delta]

\* In such a world every attempt has the outcome of its environment, so the kept
\* subset gives the known-bad outcome, every refuted one does not, and no verdict
\* but "minimized" is left.
Exactness ==
    Explained =>
        /\ \A i \in DOMAIN good : good[i] \in response[{}]
        /\ \A i \in DOMAIN bad : bad[i] \in response[1..delta]
        /\ pc \in {"minimize", "final", "revert"} =>
              \A i \in DOMAIN batch : batch[i] \in response[Applied]
        /\ phase # "idle" =>
              /\ DP!Increasing(current)
              /\ response[D!Items(current)] = response[1..delta]
              /\ \A s \in refuted : response[D!Items(s)] # response[1..delta]
        /\ pc \in {"report", "done"} => status = "minimized" /\ phase = "done"

\* The two endpoints are environments like any other.
LEMMA EndpointsAreSubsets ==
    ASSUME CompareInv PROVE {} \in Subsets /\ 1..delta \in Subsets
<1>1. delta \in 0..MaxDelta /\ MaxDelta \in Nat
  BY CompareAssumption DEF CompareInv, TypeOK
<1> QED
  BY <1>1 DEF Subsets

\* Two outcomes of environments that respond alike are one.
LEMMA SameOutcome ==
    ASSUME Deterministic, NEW applied \in Subsets, NEW other \in Subsets,
           NEW one \in response[applied], NEW two \in response[other]
    PROVE  one = two <=> response[applied] = response[other]
<1>1. PICK x \in Outcomes : response[applied] = {x}
  BY DEF Deterministic
<1>2. PICK y \in Outcomes : response[other] = {y}
  BY DEF Deterministic
<1>3. one = x /\ two = y
  BY <1>1, <1>2
<1> QED
  BY <1>1, <1>2, <1>3

\* The items of a list of positions are a subset of the delta.
LEMMA ItemsApply ==
    ASSUME NEW s \in Seq(1..MaxDelta) PROVE D!Items(s) \in Subsets
<1>1. \A i \in 1..Len(s) : s[i] \in 1..MaxDelta
  BY ElementOfSeq
<1> QED
  BY <1>1 DEF D!Items, Subsets

\* While it searches, the minimiser tries positions of the delta in their order.
LEMMA CandidateOrdered ==
    ASSUME D!SearchInv, D!Searching, DP!Increasing(current)
    PROVE  D!Candidate \in Seq(1..MaxDelta) /\ DP!Increasing(D!Candidate)
<1>0. MaxDelta \in Nat
  BY CompareAssumption
<1>1. DP!TypeOK /\ DP!LoopBounds
  BY SameSearchInv DEF DP!SearchInv
<1>2. DP!Searching
  BY DEF D!Searching, DP!Searching
<1>3. DP!Candidate \in Seq(1..MaxDelta) /\ DP!Increasing(DP!Candidate)
  BY <1>0, <1>1, <1>2, DP!CandidateInLoop, DP!CandidateIncreasing
<1>4. DP!Candidate = D!Candidate
  BY DEF D!Candidate, DP!Candidate, D!Part, DP!Part, D!Parts, DP!Parts,
         D!PartCount, DP!PartCount, D!Greatest, DP!Greatest, D!Complement,
         DP!Complement, D!Cut, DP!Cut, D!Start, DP!Start, D!Least, DP!Least
<1> QED
  BY <1>3, <1>4

\* Environments do not change what they do once they explain something: a drift
\* needs a world in which nothing matters.
LEMMA ExplainedBefore ==
    ASSUME CompareInv, [Next]_vars, Explained'
    PROVE  Explained /\ response' = response /\ delta' = delta /\ ~Drift
<1>1. delta' = delta
  BY DEF Next, Steps, GoodAttempt, BadAttempt, EndpointsInconclusive,
         EndpointsEquivalent, DifferenceUnexplained, Decided, MinimizationStarts,
         SubsetAttempt, SubsetVerdict, FinalWithoutReversion, FinalWithReversion,
         Reversion, Finished, Abort, Drift, vars, endpointVars, inputVars
<1>2. {} \in Subsets /\ 1..delta \in Subsets
  BY EndpointsAreSubsets
<1>3. ~Drift
  <2> SUFFICES ASSUME Drift PROVE FALSE
    OBVIOUS
  <2>1. response' = Always(Drifted)
    BY DEF Drift
  <2>2. response'[{}] = response'[1..delta']
    BY <1>1, <1>2, <2>1 DEF Always
  <2> QED
    BY <2>2 DEF Explained
<1>4. response' = response
  BY <1>3
     DEF Next, Steps, GoodAttempt, BadAttempt, EndpointsInconclusive,
         EndpointsEquivalent, DifferenceUnexplained, Decided, MinimizationStarts,
         SubsetAttempt, SubsetVerdict, FinalWithoutReversion, FinalWithReversion,
         Reversion, Finished, Abort, vars
<1> QED
  BY <1>1, <1>3, <1>4 DEF Explained, Deterministic

\* The endpoints repeat themselves and differ, so they are worth minimising.
LEMMA EndpointsDiffer ==
    ASSUME CompareInv, Exactness, Explained,
           Len(good) = EndpointRuns, Len(bad) = EndpointRuns
    PROVE  /\ EndpointsUsable /\ good[1] # bad[1] /\ delta > 0
           /\ good[1] \in response[{}] /\ bad[1] \in response[1..delta]
<1>1. {} \in Subsets /\ 1..delta \in Subsets
  BY EndpointsAreSubsets
<1>2. /\ good \in Seq(Outcomes) /\ bad \in Seq(Outcomes)
      /\ EndpointRuns \in Nat \ {0} /\ delta \in Nat
  BY CompareAssumption DEF CompareInv, TypeOK
<1>3. 1 \in DOMAIN good /\ 1 \in DOMAIN bad
  BY <1>2
<1>4. /\ \A i \in DOMAIN good : good[i] \in response[{}]
      /\ \A i \in DOMAIN bad : bad[i] \in response[1..delta]
  BY DEF Exactness
<1>5. Deterministic /\ response[{}] # response[1..delta] /\ response[{}] \subseteq Artifacts
  BY DEF Explained
<1>6. Stable(good) /\ Stable(bad)
  BY <1>1, <1>4, <1>5, SameOutcome DEF Stable
<1>7. good[1] # bad[1]
  BY <1>1, <1>3, <1>4, <1>5, SameOutcome
<1>8. good[1] \in Artifacts
  BY <1>3, <1>4, <1>5
<1>9. delta # 0
  BY <1>5
<1> QED
  BY <1>2, <1>3, <1>4, <1>6, <1>7, <1>8, <1>9 DEF EndpointsUsable

\* A full batch reproduces the known-bad outcome if its environment does.
LEMMA BatchTells ==
    ASSUME CompareInv, Exactness, Explained, BatchFull,
           pc \in {"minimize", "final", "revert"}, Applied \in Subsets
    PROVE  Reproduces(batch) <=> response[Applied] = response[1..delta]
<1>1. /\ batch \in Seq(Outcomes) /\ Len(batch) = SubsetRuns /\ SubsetRuns \in Nat \ {0}
      /\ Len(good) = EndpointRuns /\ Len(bad) = EndpointRuns
  BY CompareAssumption DEF CompareInv, TypeOK, StageOrder, BatchFull
<1>2. 1 \in DOMAIN batch
  BY <1>1
<1>3. bad[1] \in response[1..delta] /\ 1..delta \in Subsets /\ Deterministic
  BY <1>1, EndpointsDiffer, EndpointsAreSubsets DEF Explained
<1>4. \A i \in DOMAIN batch : batch[i] \in response[Applied]
  BY DEF Exactness
<1>5. \A i \in DOMAIN batch : batch[i] = bad[1] <=> response[Applied] = response[1..delta]
  BY <1>3, <1>4, SameOutcome
<1> QED
  BY <1>2, <1>5 DEF Reproduces

\* The minimal subset that the stages after the search build.
LEMMA FinalReproduces ==
    ASSUME CompareInv, Exactness, Explained, BatchFull, pc \in {"final", "revert"}
    PROVE  Reproduces(batch)
<1>1. current \in Seq(1..MaxDelta) /\ phase # "idle"
  BY DEF CompareInv, StageOrder, D!SearchInv, D!TypeOK
<1>2. Applied = D!Items(current)
  BY DEF Applied
<1>3. Applied \in Subsets
  BY <1>1, <1>2, ItemsApply
<1>4. response[Applied] = response[1..delta]
  BY <1>1, <1>2 DEF Exactness
<1> QED
  BY <1>3, <1>4, BatchTells

\* A verdict keeps a subset that gives the known-bad outcome or refutes one that
\* does not.
LEMMA VerdictIsExact ==
    ASSUME CompareInv, Exactness, Explained, SubsetVerdict,
           response' = response, delta' = delta
    PROVE  /\ DP!Increasing(current')
           /\ response[D!Items(current')] = response[1..delta]
           /\ \A s \in refuted' : response[D!Items(s)] # response[1..delta]
<1>1. /\ D!SearchInv /\ phase # "idle" /\ BatchFull /\ pc = "minimize"
  BY DEF CompareInv, StageOrder, SubsetVerdict
<1>2. D!Searching
  BY DEF SubsetVerdict, D!KeepSubset, D!KeepComplement, D!NextPart,
         D!SubsetsExhausted, D!Refine, D!Finish, D!Refute, D!Searching
<1>3. /\ DP!Increasing(current)
      /\ response[D!Items(current)] = response[1..delta]
      /\ \A s \in refuted : response[D!Items(s)] # response[1..delta]
  BY <1>1 DEF Exactness
<1>4. D!Candidate \in Seq(1..MaxDelta) /\ DP!Increasing(D!Candidate)
  BY <1>1, <1>2, <1>3, CandidateOrdered
<1>5. Applied = D!Items(D!Candidate) /\ Applied \in Subsets
  BY <1>1, <1>4, ItemsApply DEF Applied
<1>6. Reproduces(batch) <=> response[D!Items(D!Candidate)] = response[1..delta]
  BY <1>1, <1>5, BatchTells
<1>7. CASE Reproduces(batch)
  <2>1. current' = D!Candidate /\ refuted' = {}
    BY <1>7 DEF SubsetVerdict, D!KeepSubset, D!KeepComplement, D!ReduceTo
  <2> QED
    BY <1>4, <1>6, <1>7, <2>1
<1>8. CASE ~Reproduces(batch)
  <2>1. current' = current /\ refuted' = refuted \cup {D!Candidate}
    BY <1>8
       DEF SubsetVerdict, D!NextPart, D!SubsetsExhausted, D!Refine, D!Finish,
           D!Refute
  <2> QED
    BY <1>3, <1>6, <1>8, <2>1
<1> QED
  BY <1>7, <1>8

LEMMA ExactnessStep == CompareInv /\ Exactness /\ [Next]_vars => Exactness'
<1> SUFFICES ASSUME CompareInv, Exactness, [Next]_vars, Explained'
             PROVE  /\ \A i \in DOMAIN good' : good'[i] \in response'[{}]
                    /\ \A i \in DOMAIN bad' : bad'[i] \in response'[1..delta']
                    /\ pc' \in {"minimize", "final", "revert"} =>
                          \A i \in DOMAIN batch' : batch'[i] \in response'[Applied']
                    /\ phase' # "idle" =>
                          /\ DP!Increasing(current')
                          /\ response'[D!Items(current')] = response'[1..delta']
                          /\ \A s \in refuted' :
                                response'[D!Items(s)] # response'[1..delta']
                    /\ pc' \in {"report", "done"} => status' = "minimized" /\ phase' = "done"
  BY DEF Exactness, D!Items, DP!Increasing
<1> USE DEF inputVars, endpointVars, resultVars
<1>w. Explained /\ response' = response /\ delta' = delta /\ ~Drift
  BY ExplainedBefore
<1>t. /\ TypeOK /\ StageOrder
      /\ good \in Seq(Outcomes) /\ bad \in Seq(Outcomes) /\ batch \in Seq(Outcomes)
  BY DEF CompareInv, TypeOK
<1>e. /\ \A i \in DOMAIN good : good[i] \in response[{}]
      /\ \A i \in DOMAIN bad : bad[i] \in response[1..delta]
      /\ pc \in {"minimize", "final", "revert"} =>
            \A i \in DOMAIN batch : batch[i] \in response[Applied]
      /\ phase # "idle" =>
            /\ DP!Increasing(current)
            /\ response[D!Items(current)] = response[1..delta]
            /\ \A s \in refuted : response[D!Items(s)] # response[1..delta]
      /\ pc \in {"report", "done"} => status = "minimized" /\ phase = "done"
  BY <1>w DEF Exactness
<1>k. UNCHANGED ddminVars
        => /\ D!Candidate' = D!Candidate /\ D!Items(current)' = D!Items(current)
           /\ current' = current /\ refuted' = refuted /\ phase' = phase
  BY DEF ddminVars, D!Candidate, D!Part, D!Parts, D!PartCount, D!Greatest,
         D!Complement, D!Cut, D!Start, D!Least, D!Items
<1>1. CASE GoodAttempt
  <2>1. PICK outcome \in Outcomes : /\ outcome \in response[{}]
                                    /\ good' = Append(good, outcome)
    BY <1>1 DEF GoodAttempt, Attempt
  <2>2. \A i \in DOMAIN good' : good'[i] \in response[{}]
    BY <2>1, <1>e, <1>t, AppendedIs
  <2>3. pc' \in {"good", "bad"} /\ UNCHANGED <<bad, batch, ddminVars>>
    BY <1>1 DEF GoodAttempt
  <2> QED
    BY <1>e, <1>k, <1>w, <2>2, <2>3
<1>2. CASE BadAttempt
  <2>1. PICK outcome \in Outcomes : /\ outcome \in response[1..delta]
                                    /\ bad' = Append(bad, outcome)
    BY <1>2 DEF BadAttempt, Attempt
  <2>2. \A i \in DOMAIN bad' : bad'[i] \in response[1..delta]
    BY <2>1, <1>e, <1>t, AppendedIs
  <2>3. pc' = "bad" /\ UNCHANGED <<good, batch, ddminVars>>
    BY <1>2 DEF BadAttempt
  <2> QED
    BY <1>e, <1>k, <1>w, <2>2, <2>3
<1>3. CASE EndpointsInconclusive \/ EndpointsEquivalent \/ DifferenceUnexplained
  <2>1. Len(good) = EndpointRuns /\ Len(bad) = EndpointRuns
    BY <1>3, <1>t
       DEF EndpointsInconclusive, EndpointsEquivalent, DifferenceUnexplained,
           EndpointsComplete, StageOrder
  <2>2. EndpointsUsable /\ good[1] # bad[1] /\ delta > 0
    BY <1>w, <2>1, EndpointsDiffer
  <2> QED
    BY <1>3, <2>2
       DEF EndpointsInconclusive, EndpointsEquivalent, DifferenceUnexplained
<1>4. CASE MinimizationStarts
  <2>1. /\ delta \in Nat /\ current' = [i \in 1..delta |-> i] /\ refuted' = refuted
        /\ UNCHANGED <<good, bad, batch>>
        /\ pc' \in {"final", "minimize"}
    BY <1>4, <1>t, CompareAssumption DEF MinimizationStarts, TypeOK
  <2>2. refuted' = {} /\ batch' = <<>>
    BY <1>4, <1>t, <2>1 DEF MinimizationStarts, EndpointsComplete, StageOrder
  <2>3. Len(current') = delta
    BY <2>1
  <2>4. D!Items(current') = 1..delta
    BY <2>1, <2>3 DEF D!Items
  <2>5. DP!Increasing(current')
    BY <2>1, <2>3 DEF DP!Increasing
  <2> QED
    BY <1>e, <1>w, <2>1, <2>2, <2>4, <2>5
<1>5. CASE SubsetAttempt
  <2>1. PICK outcome \in Outcomes : /\ outcome \in response[Applied]
                                    /\ batch' = Append(batch, outcome)
    BY <1>5 DEF SubsetAttempt, Attempt
  <2>2. /\ pc' = pc /\ pc \in {"minimize", "final"}
        /\ UNCHANGED <<good, bad, ddminVars>>
    BY <1>5 DEF SubsetAttempt
  <2>3. Applied' = Applied
    BY <1>k, <2>2 DEF Applied, D!Items
  <2>4. \A i \in DOMAIN batch' : batch'[i] \in response[Applied]
    BY <2>1, <2>2, <1>e, <1>t, AppendedIs
  <2> QED
    BY <1>e, <1>k, <1>w, <2>2, <2>3, <2>4
<1>6. CASE SubsetVerdict
  <2>1. /\ batch' = <<>> /\ pc' \in {"minimize", "final"}
        /\ UNCHANGED <<good, bad>>
    BY <1>6 DEF SubsetVerdict
  <2> QED
    BY <1>6, <1>e, <1>w, <2>1, VerdictIsExact
<1>7. CASE FinalWithoutReversion
  <2>1. /\ phase = "done" /\ BatchFull /\ pc = "final"
        /\ status' = StatusOf("none")
        /\ UNCHANGED <<good, bad, batch, ddminVars>> /\ pc' = "report"
    BY <1>7, <1>t DEF FinalWithoutReversion, Decided, StageOrder
  <2>2. status' = "minimized"
    BY <1>w, <2>1, FinalReproduces DEF StatusOf
  <2> QED
    BY <1>e, <1>k, <1>w, <2>1, <2>2
<1>8. CASE FinalWithReversion
  <2>1. pc = "final" /\ pc' = "revert" /\ UNCHANGED <<good, bad, batch, ddminVars>>
    BY <1>8 DEF FinalWithReversion
  <2>2. Applied' = Applied
    BY <1>k, <2>1 DEF Applied, D!Items
  <2> QED
    BY <1>e, <1>k, <1>w, <2>1, <2>2
<1>9. CASE Reversion
  <2>1. /\ phase = "done" /\ BatchFull /\ pc = "revert"
        /\ Len(good) = EndpointRuns /\ Len(bad) = EndpointRuns
        /\ UNCHANGED <<good, bad, batch, ddminVars>> /\ pc' = "report"
        /\ status' = StatusOf(reverted')
    BY <1>9, <1>t DEF Reversion, StageOrder
  <2>2. PICK outcome \in response[{}] : reverted' = IF outcome = good[1] THEN "yes" ELSE "no"
    BY <1>9 DEF Reversion
  <2>3. outcome = good[1]
    BY <1>w, <2>1, EndpointsDiffer, EndpointsAreSubsets, SameOutcome DEF Explained
  <2>4. status' = "minimized"
    BY <1>w, <2>1, <2>2, <2>3, FinalReproduces DEF StatusOf
  <2> QED
    BY <1>e, <1>k, <1>w, <2>1, <2>4
<1>10. CASE Finished
  <2>1. pc = "report" /\ pc' = "done" /\ UNCHANGED <<good, bad, batch, ddminVars, status>>
    BY <1>10 DEF Finished
  <2> QED
    BY <1>e, <1>k, <1>w, <2>1
<1>11. CASE Abort
  <2>1. pc' = "aborted" /\ UNCHANGED <<good, bad, current, refuted>>
    BY <1>11 DEF Abort, D!PredicateError, ddminVars
  <2>2. phase' # "idle" => phase # "idle"
    BY <1>11, <1>t DEF Abort, D!PredicateError, D!Searching, ddminVars
  <2> QED
    BY <1>e, <1>w, <2>1, <2>2
<1>12. CASE UNCHANGED vars
  <2>1. UNCHANGED <<pc, good, bad, batch, ddminVars, status>>
    BY <1>12 DEF vars
  <2>2. Applied' = Applied
    BY <1>k, <2>1 DEF Applied, D!Items
  <2> QED
    BY <1>e, <1>k, <1>w, <2>1, <2>2
<1> QED
  BY <1>w, <1>1, <1>2, <1>3, <1>4, <1>5, <1>6, <1>7, <1>8, <1>9, <1>10, <1>11, <1>12
     DEF Next, Steps

\* If builds depend on their environment alone, a comparison of environments that
\* differ visibly always explains the difference: its minimal delta is sufficient
\* and each of its entries necessary (compare_environments, ddmin::minimize).
THEOREM DeterminismIsExplained == Spec => []DeterministicIsExact
<1>1. Init => Exactness
  BY DEF Init, Exactness
<1>2. CompareInv /\ Exactness => DeterministicIsExact
  <2> SUFFICES ASSUME CompareInv, Exactness, pc = "done", Explained
               PROVE  /\ status = "minimized"
                      /\ response[D!Items(current)] = response[1..delta]
                      /\ \A entry \in D!Items(current) :
                            response[D!Items(current) \ {entry}] # response[1..delta]
    BY DEF DeterministicIsExact, Explained
  <2>1. /\ status = "minimized" /\ phase = "done"
        /\ DP!Increasing(current)
        /\ response[D!Items(current)] = response[1..delta]
        /\ \A s \in refuted : response[D!Items(s)] # response[1..delta]
    BY DEF Exactness
  <2>2. DP!SearchInv /\ D!SearchInv
    BY <2>1, SameSearchInv DEF CompareInv, StageOrder
  <2>3. current \in Seq(1..MaxDelta) /\ MaxDelta \in Nat
    BY <2>2, CompareAssumption DEF D!SearchInv, D!TypeOK
  <2>4. Len(current) >= 2 => \A k \in 1..Len(current) : DP!Without(current, k) \in refuted
    BY <2>1, <2>2 DEF DP!SearchInv, DP!ResultOneMinimal
  <2>5. DP!Promise!OneMinimal(DP!Items(current), {DP!Items(t) : t \in refuted})
    BY <2>1, <2>3, <2>4, DP!OneMinimalMaps
  <2>6. \A s : DP!Items(s) = D!Items(s)
    BY DEF DP!Items, D!Items
  <2>7. ASSUME NEW entry \in D!Items(current)
        PROVE  response[D!Items(current) \ {entry}] # response[1..delta]
    <3>1. \/ D!Items(current) = {entry}
          \/ D!Items(current) \ {entry} \in {D!Items(t) : t \in refuted}
      BY <2>5, <2>6, <2>7 DEF DP!Promise!OneMinimal
    <3>2. CASE D!Items(current) = {entry}
      BY <3>2 DEF Explained
    <3>3. CASE D!Items(current) \ {entry} \in {D!Items(t) : t \in refuted}
      BY <2>1, <3>3
    <3> QED
      BY <3>1, <3>2, <3>3
  <2> QED
    BY <2>1, <2>7
<1> QED
  BY <1>1, <1>2, ExactnessStep, CompareInvariant, PTL DEF Spec

===============================================================================
