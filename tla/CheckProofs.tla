----------------------------- MODULE CheckProofs -----------------------------
(***************************************************************************)
(* The inductive invariant of Check and the safety properties it carries,  *)
(* for every plan, every set of artifacts and every choice of options.     *)
(***************************************************************************)
EXTENDS Check, FiniteSetTheorems, SequenceTheorems, TLAPS

\* The minimiser's own proofs, for the positions of Plan as items.
DP == INSTANCE DdminProofs WITH N <- Len(Plan)

\* The invariant of the embedded minimiser and its steps are those proved about.
LEMMA SameSearchInv == D!SearchInv <=> DP!SearchInv
BY DEF D!SearchInv, DP!SearchInv, D!TypeOK, DP!TypeOK, D!LoopBounds,
       DP!LoopBounds, D!ComplementsRefuted, DP!ComplementsRefuted,
       D!ResultOneMinimal, DP!ResultOneMinimal, D!Searching,
       DP!Searching, D!Without, DP!Without, D!Complement, DP!Complement,
       D!Cut, DP!Cut, D!Start, DP!Start, D!Least, DP!Least

LEMMA SameSteps == [D!Next]_ddminVars <=> [DP!Next]_DP!vars
BY DEF ddminVars, D!Next, DP!Next, D!vars, DP!vars, D!KeepSubset, DP!KeepSubset,
       D!KeepComplement, DP!KeepComplement, D!NextPart, DP!NextPart,
       D!SubsetsExhausted, DP!SubsetsExhausted, D!Refine, DP!Refine,
       D!Finish, DP!Finish, D!PredicateError, DP!PredicateError,
       D!Refute, DP!Refute, D!ReduceTo, DP!ReduceTo, D!Candidate,
       DP!Candidate, D!Part, DP!Part, D!Parts, DP!Parts, D!PartCount,
       DP!PartCount, D!Greatest, DP!Greatest, D!AfterSubset,
       DP!AfterSubset, D!AfterComplement, DP!AfterComplement,
       D!LoopPhase, DP!LoopPhase, D!Searching, DP!Searching, D!Without,
       DP!Without, D!Complement, DP!Complement, D!Cut, DP!Cut, D!Start,
       DP!Start, D!Least, DP!Least

\* Every step of the embedded minimiser keeps its invariant.
LEMMA DdminStep == D!SearchInv /\ [D!Next]_ddminVars => D!SearchInv'
<1>1. D!SearchInv' <=> DP!SearchInv'
  BY SameSearchInv, PTL
<1> QED
  BY <1>1, SameSearchInv, SameSteps, DP!SearchInvStep

-------------------------------------------------------------------------------
(***************************************************************************)
(* Types.                                                                  *)
(***************************************************************************)

\* Some build differs exactly when the count of those that do is positive.
LEMMA DifferingPositive ==
    ASSUME NEW S, NEW s \in Seq(S)
    PROVE  Differing(s) \in Nat /\ (Differing(s) > 0 <=> AnyDiffer(s))
<1> DEFINE D1 == {i \in DOMAIN s : s[i] # Baseline}
<1>1. Len(s) \in Nat /\ DOMAIN s = 1..Len(s)
  OBVIOUS
<1>2. IsFiniteSet(D1)
  <2>1. IsFiniteSet(1..Len(s))
    BY <1>1, FS_Interval
  <2>2. D1 \subseteq 1..Len(s)
    BY <1>1
  <2> QED
    BY <2>1, <2>2, FS_Subset
<1>3. Cardinality(D1) \in Nat /\ (Cardinality(D1) = 0 <=> D1 = {})
  BY <1>2, FS_CardinalityType, FS_EmptySet
<1> QED
  BY <1>3 DEF Differing, AnyDiffer

\* What execute_intervention returns is a well-formed result.
LEMMA OutcomeTyped ==
    ASSUME TypeOK, NEW reverted \in Option, NEW failed \in BOOLEAN,
           NEW traced \in BOOLEAN
    PROVE  Outcome(reverted, failed, traced) \in Result
<1>1. VariantStable \in Option
  BY DEF VariantStable, YesNo, Option
<1>2. Effect \in {"none", "baseline_unstable", "supported", "not_supported"}
  BY DEF Effect, Classification
<1>3. AnyDiffer(variants) \in BOOLEAN /\ Agree(variants) \in BOOLEAN
  BY DEF AnyDiffer, Agree
<1>4. {failures[i] : i \in DOMAIN failures} \in SUBSET ExitCodes
  BY DEF TypeOK
<1>5. error \in BOOLEAN
  BY DEF TypeOK
<1>6. /\ Len(variants) \in Nat /\ Len(failures) \in Nat
      /\ Differing(variants) \in Nat /\ Differing(references) \in Nat
  BY DifferingPositive DEF TypeOK
<1> QED
  BY <1>1, <1>2, <1>3, <1>4, <1>5, <1>6 DEF Outcome, Result

LEMMA ConcludedTyped ==
    ASSUME TypeOK, Probing, NEW reverted \in Option, NEW failed \in BOOLEAN,
           Concluded(reverted, failed)
    PROVE  /\ results' \in Seq(Result) /\ Len(results') <= Len(Plan)
           /\ references' = <<>> /\ variants' = <<>> /\ failures' = <<>>
           /\ error' \in BOOLEAN
           /\ UNCHANGED <<pc, controls, searchVars, report, yields>>
<1>1. PICK traced \in {FALSE, TraceablyChanged(reverted)} :
         results' = Append(results, Outcome(reverted, failed, traced))
  BY DEF Concluded
<1>2. TraceablyChanged(reverted) \in BOOLEAN
  BY DEF TraceablyChanged, AnyDiffer
<1>7. results \in Seq(Result)
  BY DEF TypeOK
<1>8. Outcome(reverted, failed, traced) \in Result
  BY <1>2, OutcomeTyped
<1>9. Len(results) < Len(Plan) /\ Len(Plan) \in Nat
  BY OptionsAssumption DEF Probing
<1>10. PICK r \in Result : results' = Append(results, r)
  BY <1>1, <1>8
<1>11. results' \in Seq(Result) /\ Len(results') = Len(results) + 1
  BY <1>7, <1>10
<1>12. Len(results') <= Len(Plan)
  BY <1>7, <1>9, <1>11
<1> QED
  BY <1>11, <1>12 DEF Concluded

\* The candidates handed to the minimiser are positions of the plan.
LEMMA CandidatesTyped ==
    ASSUME TypeOK, NEW s \in InPlanOrder(Eligible)
    PROVE  /\ s \in Seq(1..Len(Plan))
           /\ Len(s) = Cardinality(Eligible)
           /\ Cardinality(Eligible) \in Nat
<1>1. /\ results \in Seq(Result) /\ Len(results) <= Len(Plan)
      /\ Len(results) \in Nat /\ Len(Plan) \in Nat
  BY OptionsAssumption DEF TypeOK
<1>2. Eligible \subseteq 1..Len(results)
  BY <1>1 DEF Eligible
<1>3. IsFiniteSet(Eligible)
  <2>1. IsFiniteSet(1..Len(results))
    BY <1>1, FS_Interval
  <2> QED
    BY <1>2, <2>1, FS_Subset
<1>4. Cardinality(Eligible) \in Nat
  BY <1>3, FS_CardinalityType
<1>5. s \in [1..Cardinality(Eligible) -> 1..Len(Plan)]
  <2>1. s \in [1..Cardinality(Eligible) -> Eligible]
    BY DEF InPlanOrder
  <2>2. Eligible \subseteq 1..Len(Plan)
    BY <1>1, <1>2
  <2> QED
    BY <2>1, <2>2
<1> QED
  BY <1>4, <1>5

LEMMA TypeStep == CheckInv /\ [Next]_vars => TypeOK'
<1> SUFFICES ASSUME CheckInv, [Next]_vars PROVE TypeOK'
  OBVIOUS
<1> USE DEF evidenceVars, probeVars, searchVars, vars
<1>t. TypeOK
  BY DEF CheckInv
<1>d. phase = "idle" \/ D!TypeOK
  BY <1>t DEF TypeOK
<1>u. UNCHANGED ddminVars => (phase = "idle" \/ D!TypeOK)'
  BY <1>d DEF ddminVars, D!TypeOK
<1>1. CASE ControlBuild
  BY <1>1, <1>t, <1>u DEF ControlBuild, Recorded, TypeOK, Groups
<1>2. CASE ControlsCompared
  BY <1>2, <1>t, <1>u DEF ControlsCompared, TypeOK
<1>3. CASE ReferenceBuild
  BY <1>3, <1>t, <1>u DEF ReferenceBuild, Recorded, TypeOK, Groups
<1>4. CASE VariantBuild
  BY <1>4, <1>t, <1>u DEF VariantBuild, Recorded, TypeOK, Groups
<1>5. CASE VariantFailure
  BY <1>5, <1>t, <1>u DEF VariantFailure, TypeOK
<1>6. CASE TrialError
  BY <1>6, <1>t, <1>u DEF TrialError, Unrecorded, TypeOK
<1>7. CASE Unconfirmed
  <2>1. Concluded("none", FALSE) /\ Probing /\ "none" \in Option
    BY <1>7 DEF Unconfirmed, Option
  <2>2. /\ results' \in Seq(Result) /\ Len(results') <= Len(Plan)
        /\ references' = <<>> /\ variants' = <<>> /\ failures' = <<>>
        /\ error' \in BOOLEAN
        /\ UNCHANGED <<pc, controls, searchVars, report, yields>>
    BY <2>1, <1>t, ConcludedTyped
  <2> QED
    BY <2>1, <2>2, <1>7, <1>t, <1>u DEF Unconfirmed, TypeOK
<1>8. CASE ConfirmationBuild
  <2>1. PICK a \in yields : /\ Recorded("reversion", a)
                            /\ Concluded(YesNo(a = Baseline), FALSE)
    BY <1>8 DEF ConfirmationBuild
  <2>2. Probing /\ YesNo(a = Baseline) \in Option
    BY <1>8 DEF ConfirmationBuild, YesNo, Option
  <2>3. /\ results' \in Seq(Result) /\ Len(results') <= Len(Plan)
        /\ references' = <<>> /\ variants' = <<>> /\ failures' = <<>>
        /\ error' \in BOOLEAN
        /\ UNCHANGED <<pc, controls, searchVars, report, yields>>
    BY <2>1, <2>2, <1>t, ConcludedTyped
  <2> QED
    BY <2>1, <2>3, <1>t, <1>u DEF Recorded, TypeOK, Groups
<1>9. CASE ConfirmationError
  <2>1. Concluded("none", TRUE) /\ Probing /\ "none" \in Option
    BY <1>9 DEF ConfirmationError, Option
  <2>2. /\ results' \in Seq(Result) /\ Len(results') <= Len(Plan)
        /\ references' = <<>> /\ variants' = <<>> /\ failures' = <<>>
        /\ error' \in BOOLEAN
        /\ UNCHANGED <<pc, controls, searchVars, report, yields>>
    BY <2>1, <1>t, ConcludedTyped
  <2> QED
    BY <2>1, <2>2, <1>9, <1>t, <1>u
       DEF ConfirmationError, Unrecorded, TypeOK
<1>10. CASE SweepOver
  BY <1>10, <1>t, <1>u DEF SweepOver, TypeOK
<1>11. CASE SubsetBuild
  BY <1>11, <1>t, <1>u DEF SubsetBuild, Recorded, TypeOK, Groups
<1>12. CASE FullReproduces
  <2>1. PICK s \in InPlanOrder(Eligible) : current' = s
    BY <1>12 DEF FullReproduces
  <2>2. s \in Seq(1..Len(Plan)) /\ Len(s) \in Nat
    BY <2>1, <1>t, CandidatesTyped
  <2>3. index = 0 /\ tests = 0 /\ refuted = {}
    BY <1>12 DEF FullReproduces, CheckInv, StageOrder
  <2>4. granularity' \in Nat /\ phase' \in {"subsets", "done"}
    BY <1>12, <2>1, <2>2 DEF FullReproduces, D!Least, D!LoopPhase
  <2>5. D!TypeOK'
    BY <1>12, <2>1, <2>2, <2>3, <2>4 DEF FullReproduces, D!TypeOK
  <2> QED
    BY <1>12, <1>t, <2>5 DEF FullReproduces, TypeOK
<1>13. CASE FullDoesNotReproduce
  <2>1. interaction' = [changed |-> AnyDiffer(batch), stable |-> FALSE,
                        minimal |-> <<>>, reverted |-> "none"]
    BY <1>13 DEF FullDoesNotReproduce, NothingFound
  <2>2. AnyDiffer(batch) \in BOOLEAN
    BY DEF AnyDiffer
  <2>3. <<>> \in Seq(1..Len(Plan))
    OBVIOUS
  <2>4. interaction' \in [changed : BOOLEAN, stable : BOOLEAN,
                         minimal : Seq(1..Len(Plan)), reverted : Option]
    BY <2>1, <2>2, <2>3 DEF Option
  <2> QED
    BY <1>13, <1>t, <1>u, <2>4 DEF FullDoesNotReproduce, TypeOK
<1>14. CASE SubsetVerdict
  <2>1. D!SearchInv /\ [D!Next]_ddminVars
    BY <1>14 DEF SubsetVerdict, CheckInv, StageOrder, D!Next
  <2>2. D!TypeOK'
    BY <2>1, DdminStep DEF D!SearchInv
  <2> QED
    BY <1>14, <1>t, <2>2 DEF SubsetVerdict, TypeOK
<1>15. CASE FinalWithoutReversion
  <2>1. current \in Seq(1..Len(Plan))
    BY <1>15, <1>d DEF FinalWithoutReversion, CheckInv, StageOrder, D!TypeOK
  <2> QED
    BY <1>15, <1>t, <1>u, <2>1
       DEF FinalWithoutReversion, SearchEnds, AllDiffer, JointEffect, Agree,
           TypeOK, Option
<1>16. CASE InteractionReversion
  <2>1. current \in Seq(1..Len(Plan))
    BY <1>16, <1>d DEF InteractionReversion, CheckInv, StageOrder, D!TypeOK
  <2>2. PICK a \in yields : /\ Recorded("reversion", a)
                            /\ SearchEnds(TRUE, TRUE, YesNo(a = Baseline))
    BY <1>16 DEF InteractionReversion
  <2> QED
    BY <1>t, <1>u, <2>1, <2>2
       DEF SearchEnds, Recorded, YesNo, Groups, TypeOK, Option
<1>17. CASE SearchError
  <2>1. CASE pc = "minimize"
    <3>1. D!SearchInv /\ [D!Next]_ddminVars
      BY <1>17, <2>1 DEF SearchError, CheckInv, StageOrder, D!Next
    <3>2. D!TypeOK'
      BY <3>1, DdminStep DEF D!SearchInv
    <3> QED
      BY <1>17, <1>t, <3>2 DEF SearchError, TypeOK
  <2>2. CASE pc # "minimize"
    BY <1>17, <2>2, <1>t, <1>u DEF SearchError, TypeOK
  <2> QED
    BY <2>1, <2>2
<1>18. CASE Report
  <2>1. Status \in {"reproducible", "non_reproducible",
                    "uncontrolled_nondeterminism", "inconclusive"}
    BY DEF Status, ClassifyStatus
  <2>2. DOMAIN results \subseteq 1..Len(Plan)
    BY <1>t, OptionsAssumption DEF TypeOK
  <2>3. SingleDiagnoses \subseteq
          [causes : SUBSET (1..Len(Plan)), confidence : {"low", "medium", "high"}]
    BY <2>2 DEF SingleDiagnoses, Confidence
  <2>4. interaction.minimal \in Seq(1..Len(Plan))
    BY <1>t DEF TypeOK
  <2>5. InteractionDiagnoses \subseteq
          [causes : SUBSET (1..Len(Plan)), confidence : {"low", "medium", "high"}]
    BY <2>4 DEF InteractionDiagnoses, InteractionConfidence
  <2> QED
    BY <1>18, <1>t, <1>u, <2>1, <2>3, <2>5 DEF Report, TypeOK
<1>19. CASE Abort
  BY <1>19, <1>t, <1>u DEF Abort, TypeOK
<1>20. CASE Drift
  BY <1>20, <1>t, <1>u, OptionsAssumption DEF Drift, TypeOK
<1>21. CASE UNCHANGED vars
  BY <1>21, <1>t, <1>u DEF TypeOK
<1> QED
  BY <1>1, <1>2, <1>3, <1>4, <1>5, <1>6, <1>7, <1>8, <1>9, <1>10, <1>11, <1>12,
     <1>13, <1>14, <1>15, <1>16, <1>17, <1>18, <1>19, <1>20, <1>21
     DEF Next, Engine, Steps, Errors

-------------------------------------------------------------------------------
(***************************************************************************)
(* The trials of one intervention.                                         *)
(***************************************************************************)

LEMMA RunCountPositive ==
    ASSUME NEW kind
    PROVE  RunCount(kind) \in Nat \ {0}
<1>1. /\ AtLeast(StochasticRuns, InterventionRuns) \in Nat \ {0}
      /\ AtLeast(InterventionRuns, 2) \in Nat \ {0}
      /\ InterventionRuns \in Nat \ {0}
  BY OptionsAssumption DEF AtLeast
<1>2. CASE kind = "cpu"
  BY <1>1, <1>2 DEF RunCount, FailureObservable
<1>3. CASE kind # "cpu"
  BY <1>1, <1>3 DEF RunCount, FailureObservable
<1> QED
  BY <1>2, <1>3

\* The trials of the next intervention start from nothing.
LEMMA FreshProbe ==
    ASSUME TypeOK', references' = <<>>, variants' = <<>>, failures' = <<>>,
           ~error'
    PROVE  ProbeShape'
<1>1. RunCount(Kind') \in Nat
  BY RunCountPositive
<1> QED
  BY <1>1 DEF ProbeShape, TypeOK

LEMMA ProbeShapeStep == CheckInv /\ [Next]_vars => ProbeShape'
<1> SUFFICES ASSUME CheckInv, [Next]_vars PROVE ProbeShape'
  OBVIOUS
<1> USE DEF evidenceVars, probeVars, searchVars, vars
<1>t. TypeOK /\ TypeOK' /\ ProbeShape
  BY TypeStep DEF CheckInv
<1>q. ASSUME UNCHANGED probeVars,
             pc \notin {"sweep", "aborted"} \/ Len(results) = Len(Plan)
      PROVE  ProbeShape'
  BY <1>t, <1>q, FreshProbe DEF ProbeShape
<1>1. CASE ControlBuild
  BY <1>1, <1>q DEF ControlBuild
<1>2. CASE ControlsCompared
  BY <1>2, <1>q DEF ControlsCompared
<1>3. CASE ReferenceBuild
  <2>1. PICK a \in yields : references' = Append(references, a)
    BY <1>3 DEF ReferenceBuild
  <2>2. /\ Kind' = Kind /\ Probing /\ Probing' /\ Kind = "cpu"
        /\ UNCHANGED <<pc, variants, failures, error, results>>
    BY <1>3 DEF ReferenceBuild, ReferenceNext, Kind, Probing
  <2>3. Len(references') = Len(references) + 1
    BY <2>1, <1>t DEF TypeOK
  <2>4. /\ Len(references) = Len(variants)
        /\ Len(variants) + Len(failures) < RunCount(Kind)
        /\ failures = <<>>
    BY <1>3, <2>2, <1>t
       DEF ReferenceBuild, ReferenceNext, TrialsLeft, ProbeShape,
           FailureObservable
  <2> QED
    BY <2>2, <2>3, <2>4, <1>t, RunCountPositive DEF ProbeShape, Probing, TypeOK
<1>4. CASE VariantBuild
  <2>1. PICK a \in yields : variants' = Append(variants, a)
    BY <1>4 DEF VariantBuild
  <2>2. /\ Kind' = Kind /\ Probing /\ Probing'
        /\ UNCHANGED <<pc, references, failures, error, results>>
    BY <1>4 DEF VariantBuild, Kind, Probing
  <2>3. Len(variants') = Len(variants) + 1
    BY <2>1, <1>t DEF TypeOK
  <2>4. /\ Len(variants) + Len(failures) < RunCount(Kind)
        /\ Kind = "cpu" => Len(references) # Len(variants)
    BY <1>4 DEF VariantBuild, ReferenceNext, TrialsLeft
  <2>5. Len(variants) \in Nat /\ Len(failures) \in Nat /\ RunCount(Kind) \in Nat
    BY <1>t, RunCountPositive DEF TypeOK
  <2> QED
    BY <2>2, <2>3, <2>4, <2>5, <1>t DEF ProbeShape, Probing
<1>5. CASE VariantFailure
  <2>1. PICK code \in ExitCodes : failures' = Append(failures, code)
    BY <1>5 DEF VariantFailure
  <2>2. /\ Kind' = Kind /\ Probing /\ Probing' /\ FailureObservable(Kind)
        /\ UNCHANGED <<pc, references, variants, error, results>>
    BY <1>5 DEF VariantFailure, Kind, Probing
  <2>3. Len(failures') = Len(failures) + 1
    BY <2>1, <1>t DEF TypeOK
  <2>4. Len(variants) + Len(failures) < RunCount(Kind)
    BY <1>5 DEF VariantFailure, TrialsLeft
  <2>5. Len(variants) \in Nat /\ Len(failures) \in Nat /\ RunCount(Kind) \in Nat
    BY <1>t, RunCountPositive DEF TypeOK
  <2> QED
    BY <2>2, <2>3, <2>4, <2>5, <1>t DEF ProbeShape, Probing, FailureObservable
<1>6. CASE TrialError
  BY <1>6, <1>t DEF TrialError, ProbeShape, Probing, Kind
<1>7. CASE Unconfirmed
  BY <1>7, <1>t, FreshProbe DEF Unconfirmed, Concluded
<1>8. CASE ConfirmationBuild
  BY <1>8, <1>t, FreshProbe DEF ConfirmationBuild, Concluded
<1>9. CASE ConfirmationError
  BY <1>9, <1>t, FreshProbe DEF ConfirmationError, Concluded
<1>10. CASE SweepOver
  BY <1>10, <1>q DEF SweepOver
<1>11. CASE SubsetBuild
  BY <1>11, <1>q DEF SubsetBuild
<1>12. CASE FullReproduces
  BY <1>12, <1>q DEF FullReproduces
<1>13. CASE FullDoesNotReproduce
  BY <1>13, <1>q DEF FullDoesNotReproduce
<1>14. CASE SubsetVerdict
  BY <1>14, <1>q DEF SubsetVerdict
<1>15. CASE FinalWithoutReversion
  BY <1>15, <1>q DEF FinalWithoutReversion, SearchEnds
<1>16. CASE InteractionReversion
  BY <1>16, <1>q DEF InteractionReversion, SearchEnds
<1>17. CASE SearchError
  BY <1>17, <1>q DEF SearchError
<1>18. CASE Report
  BY <1>18, <1>q DEF Report
<1>19. CASE Abort
  BY <1>19, <1>q, <1>t, OptionsAssumption DEF Abort, Probing, ProbeShape
<1>20. CASE Drift
  BY <1>20, <1>t DEF Drift, ProbeShape, Probing, Kind
<1>21. CASE UNCHANGED vars
  BY <1>21, <1>t DEF ProbeShape, Probing, Kind
<1> QED
  BY <1>1, <1>2, <1>3, <1>4, <1>5, <1>6, <1>7, <1>8, <1>9, <1>10, <1>11, <1>12,
     <1>13, <1>14, <1>15, <1>16, <1>17, <1>18, <1>19, <1>20, <1>21
     DEF Next, Engine, Steps, Errors

-------------------------------------------------------------------------------
(***************************************************************************)
(* What the collected results tell.                                        *)
(***************************************************************************)

\* A run that was appended differs, or an earlier one did.
LEMMA AppendDiffers ==
    ASSUME NEW S, NEW s \in Seq(S), NEW x \in S
    PROVE  AnyDiffer(Append(s, x)) <=> AnyDiffer(s) \/ x # Baseline
<1>1. /\ Len(s) \in Nat /\ DOMAIN s = 1..Len(s)
      /\ DOMAIN Append(s, x) = 1..(Len(s) + 1)
      /\ Append(s, x)[Len(s) + 1] = x
      /\ \A i \in 1..Len(s) : Append(s, x)[i] = s[i]
  OBVIOUS
<1>2. Len(s) + 1 \in 1..(Len(s) + 1) /\ 1..Len(s) \subseteq 1..(Len(s) + 1)
  BY <1>1
<1>3. \A i \in 1..(Len(s) + 1) : i \in 1..Len(s) \/ i = Len(s) + 1
  BY <1>1
<1> QED
  BY <1>1, <1>2, <1>3 DEF AnyDiffer

\* A finished probe keeps what its trials showed.
LEMMA OutcomeTells ==
    ASSUME TypeOK, ProbeShape, Probing, ~TrialsLeft,
           NEW reverted \in Option, NEW failed \in BOOLEAN,
           NEW traced \in BOOLEAN, NEW r, r = Outcome(reverted, failed, traced)
    PROVE  /\ r.changed <=> AnyDiffer(variants)
           /\ r.failures # {} <=> failures # <<>>
           /\ AnyDiffer(references)
                 => r.effect = "baseline_unstable" \/ r.error
           /\ r.effect = "baseline_unstable" => AnyDiffer(references)
<1>1. r.changed <=> AnyDiffer(variants)
  BY DEF Outcome
<1>2. r.failures # {} <=> failures # <<>>
  <2>1. Len(failures) \in Nat /\ DOMAIN failures = 1..Len(failures)
        /\ (failures # <<>> => Len(failures) >= 1)
    BY DEF TypeOK
  <2>2. failures # <<>> => 1 \in DOMAIN failures
    BY <2>1
  <2>3. r.failures = {failures[i] : i \in DOMAIN failures}
    BY DEF Outcome
  <2> QED
    BY <2>1, <2>2, <2>3
<1>3. r.effect = Effect /\ (error => r.error)
  BY DEF Outcome, TypeOK
<1>4. Differing(references) > 0 <=> AnyDiffer(references)
  BY DifferingPositive DEF TypeOK
<1>5. ASSUME AnyDiffer(references), ~error PROVE Effect = "baseline_unstable"
  <2>1. references # <<>>
    BY <1>5 DEF AnyDiffer
  <2>2. Kind = "cpu" /\ failures = <<>>
    BY <2>1 DEF ProbeShape, FailureObservable
  <2>3. Len(variants) + Len(failures) >= RunCount(Kind)
    BY <1>5, RunCountPositive DEF TrialsLeft, TypeOK
  <2>4. /\ Len(variants) = RunCount(Kind)
        /\ Len(references) = RunCount(Kind)
    BY <2>2, <2>3, RunCountPositive DEF ProbeShape, TypeOK
  <2> QED
    BY <1>4, <1>5, <2>2, <2>4 DEF Effect, Classification
<1>6. Effect = "baseline_unstable" => Differing(references) > 0
  BY DEF Effect, Classification
<1> QED
  BY <1>1, <1>2, <1>3, <1>4, <1>5, <1>6

\* The builds of one stage change nothing that other stages recorded.
LEMMA TellsAllUnchanged ==
    ASSUME ResultsTellAll,
           UNCHANGED <<controls, references, variants, results, observed>>,
           (AnyDiffer(batch) \/ interaction.changed)'
               => AnyDiffer(batch) \/ interaction.changed,
           interaction.changed => interaction.changed'
    PROVE  ResultsTellAll'
BY DEF ResultsTellAll, AnyDiffer, Baseline, Late

\* A finished intervention adds a result to those already collected.
LEMMA ConcludedTellsAll ==
    ASSUME CheckInv, Probing, ~TrialsLeft,
           NEW reverted \in Option, NEW failed \in BOOLEAN,
           Concluded(reverted, failed),
           \/ observed' = observed
           \/ observed' = observed \cup {"reversion"} /\ EffectSeen
    PROVE  ResultsTellAll'
<1>t. /\ TypeOK /\ ProbeShape /\ ResultsTellAll
      /\ results \in Seq(Result) /\ Len(results) \in Nat
  BY DEF CheckInv, TypeOK
<1>1. PICK traced \in BOOLEAN :
         results' = Append(results, Outcome(reverted, failed, traced))
  <2>1. TraceablyChanged(reverted) \in BOOLEAN
    BY DEF TraceablyChanged, AnyDiffer
  <2> QED
    BY <2>1 DEF Concluded
<1> DEFINE r == Outcome(reverted, failed, traced)
           n == Len(results)
<1>2. /\ r \in Result
      /\ r.changed <=> AnyDiffer(variants)
      /\ r.failures # {} <=> failures # <<>>
      /\ AnyDiffer(references) => r.effect = "baseline_unstable" \/ r.error
      /\ r.effect = "baseline_unstable" => AnyDiffer(references)
  BY <1>t, OutcomeTyped, OutcomeTells
<1> HIDE DEF r
<1>3. results' = Append(results, r)
  BY <1>1 DEF r
<1>4. /\ DOMAIN results = 1..n /\ DOMAIN results' = 1..(n + 1)
      /\ \A i \in 1..n : results'[i] = results[i]
      /\ results'[n + 1] = r
  BY <1>t, <1>2, <1>3
<1>5. /\ 1..n \subseteq 1..(n + 1) /\ n + 1 \in 1..(n + 1)
      /\ \A i \in 1..(n + 1) : i \in 1..n \/ i = n + 1
  BY <1>t
<1> HIDE DEF n
<1>6. /\ AnyDiffer(references)' = FALSE /\ AnyDiffer(variants)' = FALSE
      /\ AnyDiffer(controls)' = AnyDiffer(controls)
      /\ AnyDiffer(batch)' = AnyDiffer(batch)
      /\ interaction' = interaction
  BY DEF Concluded, AnyDiffer, Baseline, searchVars
<1>7. "reference" \in observed' =>
        \E i \in DOMAIN results' :
           results'[i].effect = "baseline_unstable" \/ results'[i].error
  BY <1>t, <1>2, <1>4, <1>5 DEF ResultsTellAll
<1>8. Late' => "reference" \in observed'
  BY <1>t, <1>2, <1>4, <1>5 DEF ResultsTellAll, Late
<1>9. "variant" \in observed' <=> \E i \in DOMAIN results' : results'[i].changed
  BY <1>t, <1>2, <1>4, <1>5 DEF ResultsTellAll
<1>10. "reversion" \in observed' =>
         \/ interaction.changed
         \/ \E i \in DOMAIN results' :
               results'[i].changed \/ results'[i].failures # {}
  BY <1>t, <1>2, <1>4, <1>5 DEF ResultsTellAll, EffectSeen
<1>11. \A i \in DOMAIN results' :
          results'[i].failures # {} => FailureObservable(Plan[i])
  BY <1>t, <1>2, <1>4, <1>5 DEF ResultsTellAll, ProbeShape, Kind, n
<1>12. /\ "control" \in observed' <=> "control" \in observed
       /\ "joint" \in observed' <=> "joint" \in observed
  OBVIOUS
<1> QED
  BY <1>t, <1>6, <1>7, <1>8, <1>9, <1>10, <1>11, <1>12 DEF ResultsTellAll

LEMMA ResultsTellAllStep == CheckInv /\ [Next]_vars => ResultsTellAll'
<1> SUFFICES ASSUME CheckInv, [Next]_vars PROVE ResultsTellAll'
  OBVIOUS
<1> USE DEF evidenceVars, probeVars, searchVars, vars
<1>t. /\ TypeOK /\ ProbeShape /\ ResultsTellAll /\ StageOrder
      /\ pc \notin {"control", "aborted"} => controls # <<>>
      /\ yields \subseteq Artifacts
  BY DEF CheckInv, TypeOK, StageOrder
<1>e. ASSUME NEW run, run = <<>> PROVE ~AnyDiffer(run)
  BY <1>e DEF AnyDiffer
<1>f. AnyDiffer(batch)' => batch' # <<>>
  BY DEF AnyDiffer
<1>1. CASE ControlBuild
  <2>1. PICK a \in yields : controls' = Append(controls, a) /\ Recorded("control", a)
    BY <1>1 DEF ControlBuild
  <2>2. /\ references = <<>> /\ variants = <<>> /\ batch = <<>> /\ pc = "control"
        /\ UNCHANGED <<references, variants, results, batch, interaction>>
    BY <1>1, <1>t DEF ControlBuild, ProbeShape, StageOrder
  <2>3. CASE controls = <<>>
    <3>1. controls' = <<a>> /\ observed' = observed
      BY <2>1, <2>3 DEF Recorded
    <3>2. ~AnyDiffer(controls) /\ ~AnyDiffer(controls)'
      BY <2>3, <3>1 DEF AnyDiffer, Baseline
    <3>3. /\ ~AnyDiffer(references) /\ ~AnyDiffer(references)'
          /\ ~AnyDiffer(variants) /\ ~AnyDiffer(variants)'
          /\ ~AnyDiffer(batch)'
      BY <2>2 DEF AnyDiffer
    <3> QED
      BY <1>t, <2>2, <3>1, <3>2, <3>3 DEF ResultsTellAll, Late
  <2>4. CASE controls # <<>>
    <3>1. Baseline' = Baseline
      BY <1>t, <2>1, <2>4 DEF Baseline, TypeOK
    <3>2. AnyDiffer(controls)' <=> AnyDiffer(controls) \/ a # Baseline
      <4>1. controls \in Seq(Artifacts) /\ a \in Artifacts
        BY <1>t, <2>1 DEF TypeOK
      <4>2. AnyDiffer(Append(controls, a)) <=> AnyDiffer(controls) \/ a # Baseline
        BY <4>1, AppendDiffers
      <4>3. AnyDiffer(controls)' <=> AnyDiffer(Append(controls, a))
        BY <2>1, <3>1 DEF AnyDiffer
      <4> QED
        BY <4>2, <4>3
    <3>3. /\ AnyDiffer(references)' = AnyDiffer(references)
          /\ AnyDiffer(variants)' = AnyDiffer(variants)
          /\ AnyDiffer(batch)' = AnyDiffer(batch)
      BY <2>2, <3>1 DEF AnyDiffer
    <3>4. observed' = IF a = Baseline THEN observed ELSE observed \cup {"control"}
      BY <2>1, <2>4 DEF Recorded
    <3> QED
      BY <1>t, <2>2, <3>2, <3>3, <3>4 DEF ResultsTellAll, Late
  <2> QED
    BY <2>3, <2>4
<1>2. CASE ControlsCompared
  BY <1>2, <1>t, TellsAllUnchanged DEF ControlsCompared, AnyDiffer, Baseline
<1>3. CASE ReferenceBuild
  <2>1. PICK a \in yields :
           references' = Append(references, a) /\ Recorded("reference", a)
    BY <1>3 DEF ReferenceBuild
  <2>2. UNCHANGED <<controls, variants, results, batch, interaction>>
    BY <1>3 DEF ReferenceBuild
  <2>3. /\ Baseline' = Baseline /\ controls # <<>>
        /\ AnyDiffer(controls)' = AnyDiffer(controls)
        /\ AnyDiffer(variants)' = AnyDiffer(variants)
        /\ AnyDiffer(batch)' = AnyDiffer(batch)
    BY <1>3, <1>t, <2>2 DEF ReferenceBuild, Probing, Baseline, AnyDiffer
  <2>4. AnyDiffer(references)' <=> AnyDiffer(references) \/ a # Baseline
    <3>1. references \in Seq(Artifacts) /\ a \in Artifacts
      BY <1>t, <2>1 DEF TypeOK
    <3>2. AnyDiffer(Append(references, a)) <=> AnyDiffer(references) \/ a # Baseline
      BY <3>1, AppendDiffers
    <3>3. AnyDiffer(references)' <=> AnyDiffer(Append(references, a))
      BY <2>1, <2>3 DEF AnyDiffer
    <3> QED
      BY <3>2, <3>3
  <2>5. observed' = IF a = Baseline THEN observed ELSE observed \cup {"reference"}
    BY <2>1, <2>3 DEF Recorded
  <2> QED
    BY <1>t, <2>2, <2>3, <2>4, <2>5 DEF ResultsTellAll, Late
<1>4. CASE VariantBuild
  <2>1. PICK a \in yields :
           variants' = Append(variants, a) /\ Recorded("variant", a)
    BY <1>4 DEF VariantBuild
  <2>2. UNCHANGED <<controls, references, results, batch, interaction>>
    BY <1>4 DEF VariantBuild
  <2>3. /\ Baseline' = Baseline /\ controls # <<>>
        /\ AnyDiffer(controls)' = AnyDiffer(controls)
        /\ AnyDiffer(references)' = AnyDiffer(references)
        /\ AnyDiffer(batch)' = AnyDiffer(batch)
    BY <1>4, <1>t, <2>2 DEF VariantBuild, Probing, Baseline, AnyDiffer
  <2>4. AnyDiffer(variants)' <=> AnyDiffer(variants) \/ a # Baseline
    <3>1. variants \in Seq(Artifacts) /\ a \in Artifacts
      BY <1>t, <2>1 DEF TypeOK
    <3>2. AnyDiffer(Append(variants, a)) <=> AnyDiffer(variants) \/ a # Baseline
      BY <3>1, AppendDiffers
    <3>3. AnyDiffer(variants)' <=> AnyDiffer(Append(variants, a))
      BY <2>1, <2>3 DEF AnyDiffer
    <3> QED
      BY <3>2, <3>3
  <2>5. observed' = IF a = Baseline THEN observed ELSE observed \cup {"variant"}
    BY <2>1, <2>3 DEF Recorded
  <2> QED
    BY <1>t, <2>2, <2>3, <2>4, <2>5 DEF ResultsTellAll, Late
<1>5. CASE VariantFailure
  BY <1>5, <1>t, TellsAllUnchanged DEF VariantFailure, AnyDiffer, Baseline
<1>6. CASE TrialError
  BY <1>6, <1>t, TellsAllUnchanged DEF TrialError, Unrecorded, AnyDiffer, Baseline
<1>7. CASE Unconfirmed
  <2>1. "none" \in Option
    BY DEF Option
  <2> QED
    BY <1>7, <2>1, ConcludedTellsAll DEF Unconfirmed
<1>8. CASE ConfirmationBuild
  <2>1. PICK a \in yields : /\ Recorded("reversion", a)
                            /\ Concluded(YesNo(a = Baseline), FALSE)
    BY <1>8 DEF ConfirmationBuild
  <2>2. YesNo(a = Baseline) \in Option
    BY DEF YesNo, Option
  <2>3. Probing /\ ~TrialsLeft /\ EffectSeen
    BY <1>8 DEF ConfirmationBuild, ConfirmationDue
  <2>4. \/ observed' = observed
        \/ observed' = observed \cup {"reversion"} /\ EffectSeen
    BY <2>1, <2>3 DEF Recorded
  <2> QED
    BY <2>1, <2>2, <2>3, <2>4, ConcludedTellsAll
<1>9. CASE ConfirmationError
  <2>1. "none" \in Option
    BY DEF Option
  <2> QED
    BY <1>9, <2>1, ConcludedTellsAll DEF ConfirmationError, Unrecorded
<1>10. CASE SweepOver
  BY <1>10, <1>t, TellsAllUnchanged DEF SweepOver, AnyDiffer, Baseline
<1>11. CASE SubsetBuild
  <2>1. PICK a \in yields : batch' = Append(batch, a) /\ Recorded("joint", a)
    BY <1>11 DEF SubsetBuild
  <2>2. UNCHANGED <<controls, references, variants, results, interaction>>
    BY <1>11 DEF SubsetBuild
  <2>3. /\ Baseline' = Baseline /\ controls # <<>>
        /\ AnyDiffer(controls)' = AnyDiffer(controls)
        /\ AnyDiffer(references)' = AnyDiffer(references)
        /\ AnyDiffer(variants)' = AnyDiffer(variants)
    BY <1>11, <1>t, <2>2 DEF SubsetBuild, Baseline, AnyDiffer
  <2>4. AnyDiffer(batch)' <=> AnyDiffer(batch) \/ a # Baseline
    <3>1. batch \in Seq(Artifacts) /\ a \in Artifacts
      BY <1>t, <2>1 DEF TypeOK
    <3>2. AnyDiffer(Append(batch, a)) <=> AnyDiffer(batch) \/ a # Baseline
      BY <3>1, AppendDiffers
    <3>3. AnyDiffer(batch)' <=> AnyDiffer(Append(batch, a))
      BY <2>1, <2>3 DEF AnyDiffer
    <3> QED
      BY <3>2, <3>3
  <2>5. observed' = IF a = Baseline THEN observed ELSE observed \cup {"joint"}
    BY <2>1, <2>3 DEF Recorded
  <2> QED
    BY <1>t, <2>2, <2>3, <2>4, <2>5 DEF ResultsTellAll, Late
<1>12. CASE FullReproduces
  BY <1>12, <1>t, <1>f, TellsAllUnchanged DEF FullReproduces
<1>13. CASE FullDoesNotReproduce
  <2>1. interaction.changed = FALSE /\ interaction'.changed = AnyDiffer(batch)
    BY <1>13, <1>t DEF FullDoesNotReproduce, StageOrder, NothingFound
  <2> QED
    BY <1>13, <1>t, <1>f, <2>1, TellsAllUnchanged DEF FullDoesNotReproduce
<1>14. CASE SubsetVerdict
  BY <1>14, <1>t, <1>f, TellsAllUnchanged DEF SubsetVerdict
<1>a. ASSUME BatchFull, AllDiffer(batch) PROVE AnyDiffer(batch)
  <2>1. batch \in Seq(Artifacts) /\ Len(batch) >= 2
    BY <1>a, <1>t, OptionsAssumption DEF BatchFull, TypeOK
  <2>2. 1 \in DOMAIN batch
    BY <2>1
  <2> QED
    BY <1>a, <2>2 DEF AllDiffer, AnyDiffer
<1>15. CASE FinalWithoutReversion
  <2>1. interaction.changed = FALSE /\ interaction'.changed = AllDiffer(batch)
    BY <1>15, <1>t
       DEF FinalWithoutReversion, SearchEnds, StageOrder, NothingFound
  <2> QED
    BY <1>15, <1>t, <1>a, <1>f, <2>1, TellsAllUnchanged
       DEF FinalWithoutReversion, SearchEnds
<1>16. CASE InteractionReversion
  <2>1. PICK a \in yields : /\ Recorded("reversion", a)
                            /\ SearchEnds(TRUE, TRUE, YesNo(a = Baseline))
    BY <1>16 DEF InteractionReversion
  <2>2. interaction'.changed = TRUE /\ batch' = <<>>
    BY <2>1 DEF SearchEnds
  <2>3. AnyDiffer(batch)
    BY <1>16, <1>a DEF InteractionReversion, RevertInteraction, JointEffect
  <2>4. /\ UNCHANGED <<controls, references, variants, results>>
        /\ AnyDiffer(controls)' = AnyDiffer(controls)
        /\ AnyDiffer(references)' = AnyDiffer(references)
        /\ AnyDiffer(variants)' = AnyDiffer(variants)
    BY <2>1 DEF SearchEnds, AnyDiffer, Baseline
  <2>5. observed' = observed \/ observed' = observed \cup {"reversion"}
    BY <2>1 DEF Recorded
  <2> QED
    BY <1>t, <2>2, <2>3, <2>4, <2>5 DEF ResultsTellAll, Late
<1>17. CASE SearchError
  BY <1>17, <1>t, <1>f, TellsAllUnchanged DEF SearchError
<1>18. CASE Report
  BY <1>18, <1>t, TellsAllUnchanged DEF Report, AnyDiffer, Baseline
<1>19. CASE Abort
  BY <1>19, <1>t, TellsAllUnchanged DEF Abort, AnyDiffer, Baseline
<1>20. CASE Drift
  BY <1>20, <1>t, TellsAllUnchanged DEF Drift, AnyDiffer, Baseline
<1>21. CASE UNCHANGED vars
  BY <1>21, <1>t, TellsAllUnchanged DEF AnyDiffer, Baseline
<1> QED
  BY <1>1, <1>2, <1>3, <1>4, <1>5, <1>6, <1>7, <1>8, <1>9, <1>10, <1>11, <1>12,
     <1>13, <1>14, <1>15, <1>16, <1>17, <1>18, <1>19, <1>20, <1>21
     DEF Next, Engine, Steps, Errors

-------------------------------------------------------------------------------
(***************************************************************************)
(* Stages and reports.                                                     *)
(***************************************************************************)

LEMMA StageOrderStep == CheckInv /\ [Next]_vars => StageOrder'
<1> SUFFICES ASSUME CheckInv, [Next]_vars PROVE StageOrder'
  OBVIOUS
<1> USE DEF evidenceVars, probeVars, searchVars, vars
<1>t. TypeOK /\ StageOrder /\ lastRecord \in Nat /\ ordinal \in Nat
  BY DEF CheckInv, TypeOK
<1>i. UNCHANGED ddminVars =>
        (IF phase = "idle" THEN index = 0 /\ tests = 0 /\ refuted = {}
                           ELSE D!SearchInv)'
  BY <1>t, DdminStep DEF StageOrder, ddminVars
<1>s. UNCHANGED results => SearchWanted' = SearchWanted
  BY DEF SearchWanted, Late, Eligible
<1>c. UNCHANGED controls => ControlsStable' = ControlsStable
  BY DEF ControlsStable, Agree
<1> USE DEF ddminVars
<1>1. CASE ControlBuild
  <2>1. PICK a \in yields : controls' = Append(controls, a) /\ Recorded("control", a)
    BY <1>1 DEF ControlBuild
  <2>2. controls' # <<>>
    <3>1. controls \in Seq(Artifacts)
      BY <1>t DEF TypeOK
    <3>2. Len(controls') = Len(controls) + 1 /\ Len(controls) \in Nat
      BY <2>1, <3>1
    <3> QED
      BY <3>2
  <2>3. lastRecord' < ordinal'
    BY <2>1, <1>t DEF Recorded
  <2> QED
    BY <1>1, <1>t, <1>i, <2>2, <2>3 DEF ControlBuild, StageOrder
<1>2. CASE ControlsCompared
  <2>1. controls # <<>>
    BY <1>2, <1>t, OptionsAssumption DEF ControlsCompared
  <2> QED
    BY <1>2, <1>t, <1>i, <1>c, <2>1 DEF ControlsCompared, StageOrder
<1>3. CASE ReferenceBuild
  BY <1>3, <1>t, <1>i DEF ReferenceBuild, Probing, Recorded, StageOrder
<1>4. CASE VariantBuild
  BY <1>4, <1>t, <1>i DEF VariantBuild, Probing, Recorded, StageOrder
<1>5. CASE VariantFailure
  BY <1>5, <1>t, <1>i DEF VariantFailure, Probing, StageOrder
<1>6. CASE TrialError
  BY <1>6, <1>t, <1>i DEF TrialError, Probing, Unrecorded, StageOrder
<1>7. CASE Unconfirmed
  BY <1>7, <1>t, <1>i DEF Unconfirmed, Probing, Concluded, StageOrder
<1>8. CASE ConfirmationBuild
  BY <1>8, <1>t, <1>i
     DEF ConfirmationBuild, Probing, Concluded, Recorded, StageOrder
<1>9. CASE ConfirmationError
  BY <1>9, <1>t, <1>i
     DEF ConfirmationError, Probing, Concluded, Unrecorded, StageOrder
<1>10. CASE SweepOver
  BY <1>10, <1>t, <1>i, <1>s, <1>c DEF SweepOver, StageOrder
<1>11. CASE SubsetBuild
  BY <1>11, <1>t, <1>i, <1>s DEF SubsetBuild, Recorded, StageOrder
<1>12. CASE FullReproduces
  <2>1. PICK s \in InPlanOrder(Eligible) : current' = s
    BY <1>12 DEF FullReproduces
  <2>2. /\ s \in Seq(1..Len(Plan)) /\ Len(s) \in Nat
        /\ Len(s) = Cardinality(Eligible)
    BY <2>1, <1>t, CandidatesTyped
  <2>3. /\ index' = 0 /\ tests' = 0 /\ refuted' = {}
        /\ SearchWanted /\ Len(results) = Len(Plan)
    BY <1>12, <1>t DEF FullReproduces, StageOrder
  <2>4. Len(s) >= 2
    BY <2>2, <2>3, OptionsAssumption DEF SearchWanted
  <2>5. granularity' = 2 /\ phase' = "subsets"
    BY <1>12, <2>1, <2>2, <2>4 DEF FullReproduces, D!Least, D!LoopPhase
  <2>6. D!SearchInv'
    BY <2>1, <2>2, <2>3, <2>4, <2>5
       DEF D!SearchInv, D!TypeOK, D!LoopBounds, D!ComplementsRefuted,
           D!ResultOneMinimal, D!Searching
  <2> QED
    BY <1>12, <1>t, <2>3, <2>5, <2>6 DEF FullReproduces, StageOrder
<1>13. CASE FullDoesNotReproduce
  BY <1>13, <1>t, <1>i DEF FullDoesNotReproduce, StageOrder
<1>14. CASE SubsetVerdict
  <2>1. D!SearchInv /\ [D!Next]_ddminVars
    BY <1>14, <1>t DEF SubsetVerdict, StageOrder, D!Next
  <2>2. D!SearchInv'
    BY <2>1, DdminStep
  <2>3. phase' \in {"subsets", "complements", "done"}
    BY <1>14, <1>t, <2>1
       DEF SubsetVerdict, StageOrder, D!SearchInv, D!TypeOK, D!KeepSubset,
           D!KeepComplement, D!ReduceTo, D!LoopPhase, D!NextPart,
           D!SubsetsExhausted, D!Refine, D!Finish
  <2> QED
    BY <1>14, <1>t, <2>2, <2>3 DEF SubsetVerdict, StageOrder
<1>15. CASE FinalWithoutReversion
  BY <1>15, <1>t, <1>i DEF FinalWithoutReversion, SearchEnds, StageOrder
<1>16. CASE InteractionReversion
  BY <1>16, <1>t, <1>i DEF InteractionReversion, SearchEnds, Recorded, StageOrder
<1>17. CASE SearchError
  <2>1. CASE pc = "minimize"
    <3>1. D!SearchInv /\ [D!Next]_ddminVars /\ phase' # "idle"
      BY <1>17, <2>1, <1>t DEF SearchError, StageOrder, D!Next, D!PredicateError
    <3>2. D!SearchInv'
      BY <3>1, DdminStep
    <3> QED
      BY <1>17, <1>t, <3>1, <3>2 DEF SearchError, StageOrder
  <2>2. CASE pc # "minimize"
    BY <1>17, <2>2, <1>t, <1>i DEF SearchError, StageOrder
  <2> QED
    BY <2>1, <2>2
<1>18. CASE Report
  BY <1>18, <1>t, <1>i DEF Report, StageOrder
<1>19. CASE Abort
  BY <1>19, <1>t, <1>i DEF Abort, Probing, StageOrder
<1>20. CASE Drift
  BY <1>20, <1>t, <1>i, <1>s, <1>c DEF Drift, StageOrder
<1>21. CASE UNCHANGED vars
  BY <1>21, <1>t, <1>i, <1>s, <1>c DEF StageOrder
<1> QED
  BY <1>1, <1>2, <1>3, <1>4, <1>5, <1>6, <1>7, <1>8, <1>9, <1>10, <1>11, <1>12,
     <1>13, <1>14, <1>15, <1>16, <1>17, <1>18, <1>19, <1>20, <1>21
     DEF Next, Engine, Steps, Errors

\* The verdict a report takes from the results it was made of.
LEMMA ReportStep ==
    ASSUME CheckInv, Report
    PROVE  ReproducibleIsEarned' /\ VerdictIsWitnessed'
<1>t. /\ TypeOK /\ ProbeShape /\ ResultsTellAll /\ StageOrder
      /\ observed \subseteq Groups
  BY DEF CheckInv, TypeOK
<1>1. /\ pc = "report" /\ report'.status = Status
      /\ UNCHANGED <<results, observed, controls, interaction, interactionFailed>>
  BY DEF Report, evidenceVars, searchVars
<1>2. references = <<>> /\ variants = <<>> /\ batch = <<>> /\ controls # <<>>
  BY <1>1, <1>t DEF ProbeShape, StageOrder
<1>3. ~AnyDiffer(references) /\ ~AnyDiffer(variants) /\ ~AnyDiffer(batch)
  BY <1>2 DEF AnyDiffer
<1>4. ControlsStable <=> ~AnyDiffer(controls)
  <2>1. controls \in Seq(Artifacts) /\ Len(controls) >= 1
    BY <1>t, <1>2 DEF TypeOK
  <2>2. 1 \in DOMAIN controls
    BY <2>1
  <2> QED
    BY <2>2 DEF ControlsStable, Agree, AnyDiffer, Baseline
<1> DEFINE anyChanged == \/ interaction.changed
                         \/ \E i \in DOMAIN results : results[i].changed
           someFailed == \/ interactionFailed
                         \/ \E i \in DOMAIN results : results[i].error
                         \/ \E i \in DOMAIN results :
                               /\ FailureObservable(Plan[i])
                               /\ results[i].failures # {}
<1>5. ASSUME Status = "reproducible"
      PROVE  ControlsStable /\ ~Late /\ ~anyChanged /\ ~someFailed
  BY <1>5 DEF Status, ClassifyStatus
<1>6. ASSUME Status = "non_reproducible"
      PROVE  ControlsStable /\ anyChanged
  BY <1>6 DEF Status, ClassifyStatus
<1>7. ASSUME Status = "uncontrolled_nondeterminism"
      PROVE  ~ControlsStable \/ Late
  BY <1>7 DEF Status, ClassifyStatus
<1>8. ASSUME Status = "reproducible"
      PROVE  /\ Len(results) = Len(Plan)
             /\ observed \subseteq {"joint"}
             /\ \A i \in DOMAIN results :
                   ~results[i].error /\ results[i].failures = {}
             /\ ~interactionFailed
  <2>1. Len(results) = Len(Plan)
    BY <1>1, <1>5, <1>8, <1>t DEF StageOrder
  <2>2. \A i \in DOMAIN results : ~results[i].error /\ results[i].failures = {}
    BY <1>5, <1>8, <1>t DEF ResultsTellAll
  <2>3. /\ "control" \notin observed
        /\ "variant" \notin observed
    BY <1>3, <1>4, <1>5, <1>8, <1>t DEF ResultsTellAll
  <2>4. "reference" \notin observed
    BY <1>3, <1>5, <1>8, <1>t DEF ResultsTellAll, Late
  <2>5. "reversion" \notin observed
    BY <1>5, <1>8, <2>2, <1>t DEF ResultsTellAll
  <2> QED
    BY <2>1, <2>2, <2>3, <2>4, <2>5, <1>5, <1>8, <1>t DEF Groups
<1>9. ReproducibleIsEarned'
  BY <1>1, <1>8 DEF ReproducibleIsEarned
<1>10. ASSUME Status = "uncontrolled_nondeterminism"
       PROVE  observed \cap {"control", "reference"} # {}
  BY <1>4, <1>7, <1>10, <1>t DEF ResultsTellAll
<1>11. ASSUME Status = "non_reproducible"
       PROVE  /\ observed \cap {"variant", "joint"} # {}
              /\ "control" \notin observed
  BY <1>4, <1>6, <1>11, <1>t DEF ResultsTellAll
<1>12. VerdictIsWitnessed'
  BY <1>1, <1>10, <1>11 DEF VerdictIsWitnessed
<1> QED
  BY <1>9, <1>12

\* Until the report is made, neither verdict is given; afterwards nothing moves.
LEMMA VerdictsStep ==
    CheckInv /\ [Next]_vars => ReproducibleIsEarned' /\ VerdictIsWitnessed'
<1> SUFFICES ASSUME CheckInv, [Next]_vars
             PROVE  ReproducibleIsEarned' /\ VerdictIsWitnessed'
  OBVIOUS
<1>1. CASE Report
  BY <1>1, ReportStep
<1>2. CASE pc # "done" /\ report' = report
  <2>1. report'.status = "none"
    BY <1>2 DEF CheckInv, StageOrder, NoReport
  <2> QED
    BY <2>1 DEF ReproducibleIsEarned, VerdictIsWitnessed
<1>3. CASE UNCHANGED vars
  <2>1. UNCHANGED <<report, results, observed, interactionFailed>>
    BY <1>3 DEF vars, searchVars, evidenceVars
  <2> QED
    BY <2>1 DEF CheckInv, ReproducibleIsEarned, VerdictIsWitnessed
<1>4. CASE Next /\ ~Report
  <2>1. pc # "done" /\ report' = report
    BY <1>4
       DEF Next, Engine, Steps, Errors, ControlBuild, ControlsCompared, ReferenceBuild,
           VariantBuild, VariantFailure, TrialError, Unconfirmed,
           ConfirmationBuild, ConfirmationError, Concluded, Probing, SweepOver,
           SubsetBuild, FullReproduces, FullDoesNotReproduce, SubsetVerdict,
           FinalWithoutReversion, InteractionReversion, SearchEnds, SearchError,
           Abort, Drift
  <2> QED
    BY <2>1, <1>2
<1> QED
  BY <1>1, <1>3, <1>4

-------------------------------------------------------------------------------
(***************************************************************************)
(* The theorems.                                                           *)
(***************************************************************************)

LEMMA CheckInvInit == Init => CheckInv
<1> SUFFICES ASSUME Init PROVE CheckInv
  OBVIOUS
<1>1. TypeOK
  <2>1. /\ interaction \in [changed : BOOLEAN, stable : BOOLEAN,
                            minimal : Seq(1..Len(Plan)), reverted : Option]
        /\ report.status = "none" /\ report.diagnoses = {}
    BY DEF Init, NothingFound, NoReport, Option
  <2>2. yields \in (SUBSET Artifacts) \ {{}}
    BY OptionsAssumption DEF Init
  <2>3. results = <<>> /\ Len(results) <= Len(Plan)
    BY OptionsAssumption DEF Init
  <2>4. /\ controls \in Seq(Artifacts)
        /\ references \in Seq(Artifacts) /\ variants \in Seq(Artifacts)
        /\ failures \in Seq(ExitCodes) /\ batch \in Seq(Artifacts)
        /\ results \in Seq(Result)
    BY DEF Init
  <2>5. /\ pc = "control" /\ ordinal = 1 /\ lastRecord = 0 /\ error = FALSE
        /\ interactionFailed = FALSE /\ phase = "idle" /\ observed = {}
    BY DEF Init
  <2> QED
    <3>1. /\ pc \in {"control", "sweep", "full", "minimize", "final", "report",
                    "done", "aborted"}
          /\ ordinal \in Nat \ {0} /\ lastRecord \in Nat
          /\ observed \subseteq Groups
      BY <2>5
    <3>2. error \in BOOLEAN /\ interactionFailed \in BOOLEAN
      BY <2>5, Zenon
    <3>3. /\ report.status \in {"none", "reproducible", "non_reproducible",
                               "uncontrolled_nondeterminism", "inconclusive"}
          /\ report.diagnoses \subseteq
                [causes : SUBSET (1..Len(Plan)),
                 confidence : {"low", "medium", "high"}]
      BY <2>1
    <3> QED
      BY <2>1, <2>2, <2>3, <2>4, <2>5, <3>1, <3>2, <3>3 DEF TypeOK
<1>2. ProbeShape
  BY <1>1 DEF Init, ProbeShape, TypeOK, Probing
<1>3. ResultsTellAll
  BY DEF Init, ResultsTellAll, AnyDiffer, Late, NothingFound
<1>4. StageOrder
  BY DEF Init, StageOrder
<1>5. ReproducibleIsEarned /\ VerdictIsWitnessed
  BY DEF Init, NoReport, ReproducibleIsEarned, VerdictIsWitnessed
<1> QED
  BY <1>1, <1>2, <1>3, <1>4, <1>5 DEF CheckInv

\* The invariant that carries the two verdict properties through every stage.
THEOREM CheckInvariant == Spec => []CheckInv
<1>1. CheckInv /\ [Next]_vars => CheckInv'
  BY TypeStep, ProbeShapeStep, ResultsTellAllStep, StageOrderStep, VerdictsStep
     DEF CheckInv
<1> QED
  BY <1>1, CheckInvInit, PTL DEF Spec

\* Types of the engine's variables, the embedded minimiser's included.
THEOREM CheckTypeCorrect == Spec => []TypeOK
<1>1. CheckInv => TypeOK
  BY DEF CheckInv
<1> QED
  BY <1>1, CheckInvariant, PTL

\* A check exits with code 0 only after a complete sweep in which nothing but a
\* joint build ever differed from the baseline and nothing failed.
THEOREM ReproducibleVerdictIsEarned == Spec => []ReproducibleIsEarned
<1>1. CheckInv => ReproducibleIsEarned
  BY DEF CheckInv
<1> QED
  BY <1>1, CheckInvariant, PTL

\* "Uncontrolled" and "non-reproducible" are reported only of builds that were
\* seen to differ.
THEOREM AccusingVerdictsAreWitnessed == Spec => []VerdictIsWitnessed
<1>1. CheckInv => VerdictIsWitnessed
  BY DEF CheckInv
<1> QED
  BY <1>1, CheckInvariant, PTL

-------------------------------------------------------------------------------
\* Every action is guarded against a check that is over.
LEMMA NothingAfterDone == ASSUME Next PROVE pc # "done"
  BY DEF Next, Engine, Steps, Errors, ControlBuild, ControlsCompared,
         ReferenceBuild, VariantBuild, VariantFailure, TrialError, Unconfirmed,
         ConfirmationBuild, ConfirmationError, SweepOver, SubsetBuild,
         FullReproduces, FullDoesNotReproduce, SubsetVerdict,
         FinalWithoutReversion, InteractionReversion, SearchError, Report,
         Abort, Drift, Probing

\* ... and only Report writes the report.
LEMMA ReportWrittenOnce == ASSUME Next, ~Report PROVE report' = report
  BY DEF Next, Engine, Steps, Errors, ControlBuild, ControlsCompared,
         ReferenceBuild, VariantBuild, VariantFailure, TrialError, Unconfirmed,
         ConfirmationBuild, ConfirmationError, SweepOver, SubsetBuild,
         FullReproduces, FullDoesNotReproduce, SubsetVerdict,
         FinalWithoutReversion, InteractionReversion, SearchError,
         Abort, Drift, Concluded, SearchEnds

-------------------------------------------------------------------------------
(***************************************************************************)
(* The interaction that is reported.                                       *)
(***************************************************************************)

\* The minimiser's candidates are made of items of the current list, in its order.
LEMMA CandidateNarrows ==
    ASSUME D!SearchInv, D!OrderPreserved, D!Searching
    PROVE  /\ DP!Increasing(D!Candidate)
           /\ D!Items(D!Candidate) \subseteq D!Items(current)
<1>0. Len(Plan) \in Nat
  BY OptionsAssumption
<1>1. DP!TypeOK /\ DP!LoopBounds /\ DP!Searching /\ DP!Increasing(current)
  BY DEF D!SearchInv, D!TypeOK, DP!TypeOK, D!LoopBounds, DP!LoopBounds, D!Searching,
         DP!Searching, D!OrderPreserved, DP!Increasing
<1>2. D!Candidate = DP!Candidate
  BY DEF D!Candidate, DP!Candidate, D!Part, DP!Part, D!Parts, DP!Parts, D!PartCount,
         DP!PartCount, D!Greatest, DP!Greatest, D!Complement, DP!Complement, D!Cut,
         DP!Cut, D!Start, DP!Start, D!Least, DP!Least
<1>3. DP!Increasing(DP!Candidate)
  BY <1>0, <1>1, DP!CandidateIncreasing
<1>4. \A s : D!Items(s) = DP!Items(s)
  BY DEF D!Items, DP!Items
<1>5. /\ current \in Seq(1..Len(Plan)) /\ Len(current) \in Nat
      /\ granularity \in 2..Len(current)
      /\ index \in 0..(granularity - 1)
      /\ DP!Parts = granularity
  BY <1>0, <1>1, DP!CandidateInLoop DEF DP!TypeOK, DP!LoopBounds
<1>6. CASE phase = "subsets"
  <2>1. DP!Candidate = DP!Part(current, granularity, index)
    BY <1>5, <1>6 DEF DP!Candidate
  <2>2. DP!Items(DP!Part(current, granularity, index)) \subseteq DP!Items(current)
    BY <1>0, <1>1, <1>5, DP!PartItems
  <2> QED
    BY <1>2, <1>3, <1>4, <2>1, <2>2
<1>7. CASE phase = "complements"
  <2> DEFINE a == DP!Start(Len(current), granularity, index)
             b == DP!Start(Len(current), granularity, index + 1)
  <2>1. granularity \in 1..Len(current)
    BY <1>5
  <2>2. a \in 0..Len(current) /\ b \in 0..Len(current) /\ a < b
    BY <1>0, <1>5, <2>1, DP!StartBounds
  <2>3. DP!Candidate = DP!Cut(current, a, b)
    BY <1>5, <1>7 DEF DP!Candidate, DP!Complement
  <2> HIDE DEF a, b
  <2>4. b \in a..Len(current)
    BY <1>5, <2>2
  <2>5. DP!Items(DP!Cut(current, a, b)) \subseteq DP!Items(current)
    BY <1>0, <1>1, <1>5, <2>2, <2>4, DP!CutItems
  <2> QED
    BY <1>2, <1>3, <1>4, <2>3, <2>5
<1> QED
  BY <1>1, <1>6, <1>7 DEF DP!Searching

\* So is whatever the minimiser goes on with.
LEMMA SearchNarrows ==
    ASSUME D!SearchInv, D!OrderPreserved, [D!Next]_ddminVars
    PROVE  D!OrderPreserved' /\ D!Items(current') \subseteq D!Items(current)
<1>1. CASE current' = current
  BY <1>1 DEF D!OrderPreserved
<1>2. CASE current' = D!Candidate /\ D!Searching
  BY <1>2, CandidateNarrows DEF D!OrderPreserved, DP!Increasing
<1> QED
  BY <1>1, <1>2
     DEF ddminVars, D!Next, D!KeepSubset, D!KeepComplement, D!ReduceTo, D!NextPart,
         D!SubsetsExhausted, D!Refine, D!Finish, D!Refute, D!PredicateError,
         D!Searching

\* A list without one of its items has all the others.
LEMMA WithoutOne ==
    ASSUME NEW s \in Seq(1..Len(Plan)), DP!Increasing(s), NEW k \in 1..Len(s)
    PROVE  D!Items(D!Without(s, k)) = D!Items(s) \ {s[k]}
<1>0. Len(Plan) \in Nat
  BY OptionsAssumption
<1> DEFINE a == k - 1
           c == DP!Cut(s, a, k)
<1>1. Len(s) \in Nat /\ a \in 0..Len(s) /\ k \in a..Len(s) /\ (a + 1)..k = {k}
  OBVIOUS
<1>2. D!Without(s, k) = c /\ \A t : D!Items(t) = DP!Items(t)
  BY DEF D!Without, D!Cut, DP!Cut, D!Items, DP!Items
<1>3. /\ DP!Items(c) \subseteq DP!Items(s)
      /\ \A j \in 1..Len(s) : s[j] \in DP!Items(c) <=> j \notin (a + 1)..k
  BY <1>0, <1>1, DP!CutItems
<1>4. \A j \in 1..Len(s) : s[j] = s[k] => j = k
  BY <1>1 DEF DP!Increasing
<1> HIDE DEF a, c
<1>5. \A j \in 1..Len(s) : s[j] \in DP!Items(c) <=> j # k
  BY <1>1, <1>3
<1>6. DP!Items(s) = {s[j] : j \in 1..Len(s)}
  BY DEF DP!Items
<1>7. DP!Items(c) = DP!Items(s) \ {s[k]}
  BY <1>3, <1>4, <1>5, <1>6
<1> QED
  BY <1>2, <1>7

\* From the search's start to the report, its list is of inert variables in the
\* order of the plan, and the interaction it ended with is that list.
SearchTells ==
    /\ phase # "idle" => D!OrderPreserved /\ D!Items(current) \subseteq Eligible
    /\ interaction.minimal # <<>> => phase = "done" /\ interaction.minimal = current

LEMMA SearchTellsStep == CheckInv /\ SearchTells /\ [Next]_vars => SearchTells'
<1> SUFFICES ASSUME CheckInv, SearchTells, [Next]_vars PROVE SearchTells'
  OBVIOUS
<1> USE DEF vars, searchVars
<1>t. TypeOK /\ StageOrder
  BY DEF CheckInv
<1>1. ASSUME UNCHANGED <<results, ddminVars>>
      PROVE  (phase # "idle" => D!OrderPreserved /\ D!Items(current) \subseteq Eligible)'
  BY <1>1 DEF SearchTells, ddminVars, D!OrderPreserved, Eligible
<1>2. ASSUME UNCHANGED <<results, ddminVars, interaction>> PROVE SearchTells'
  BY <1>1, <1>2 DEF SearchTells, ddminVars
<1>3. ASSUME Probing, UNCHANGED <<ddminVars, interaction>> PROVE SearchTells'
  BY <1>3, <1>t DEF SearchTells, Probing, StageOrder, ddminVars
<1>4. CASE FullReproduces
  <2>1. PICK s \in InPlanOrder(Eligible) : current' = s
    BY <1>4 DEF FullReproduces
  <2>2. /\ s \in Seq(1..Len(Plan)) /\ Len(s) = Cardinality(Eligible)
        /\ s \in [1..Len(s) -> Eligible]
        /\ \A i, j \in 1..Len(s) : i < j => s[i] < s[j]
    BY <1>t, CandidatesTyped DEF InPlanOrder
  <2>3. D!OrderPreserved'
    BY <2>1, <2>2 DEF D!OrderPreserved
  <2>4. D!Items(current') \subseteq Eligible /\ Eligible' = Eligible
    BY <1>4, <2>1, <2>2 DEF D!Items, Eligible, FullReproduces
  <2>5. interaction'.minimal = <<>>
    BY <1>4, <1>t DEF FullReproduces, StageOrder, NothingFound
  <2> QED
    BY <2>3, <2>4, <2>5 DEF SearchTells
<1>5. CASE FullDoesNotReproduce
  BY <1>1, <1>5 DEF FullDoesNotReproduce, SearchTells, NothingFound
<1>6. CASE SubsetVerdict \/ (SearchError /\ pc = "minimize")
  <2>1. D!SearchInv /\ [D!Next]_ddminVars /\ phase # "idle"
    BY <1>6, <1>t DEF SubsetVerdict, SearchError, StageOrder, D!Next
  <2>2. D!OrderPreserved' /\ D!Items(current') \subseteq D!Items(current)
    BY <2>1, SearchNarrows DEF SearchTells
  <2>3. UNCHANGED results /\ interaction'.minimal = <<>>
    BY <1>6, <1>t DEF SubsetVerdict, SearchError, StageOrder, NothingFound
  <2>4. Eligible' = Eligible
    BY <2>3 DEF Eligible
  <2> QED
    BY <2>1, <2>2, <2>3, <2>4 DEF SearchTells
<1>7. CASE SearchError /\ pc # "minimize"
  BY <1>2, <1>7 DEF SearchError
<1>8. CASE FinalWithoutReversion \/ InteractionReversion
  BY <1>1, <1>8, <1>t
     DEF FinalWithoutReversion, InteractionReversion, SearchEnds, StageOrder, SearchTells,
         ddminVars
<1>9. CASE ReferenceBuild \/ VariantBuild \/ VariantFailure \/ TrialError
  BY <1>3, <1>9 DEF ReferenceBuild, VariantBuild, VariantFailure, TrialError
<1>10. CASE Unconfirmed \/ ConfirmationBuild \/ ConfirmationError
  BY <1>3, <1>10 DEF Unconfirmed, ConfirmationBuild, ConfirmationError, Concluded
<1>11. CASE ControlBuild \/ ControlsCompared \/ SweepOver \/ SubsetBuild \/ Report
            \/ Abort \/ Drift
  BY <1>2, <1>11
     DEF ControlBuild, ControlsCompared, SweepOver, SubsetBuild, Report, Abort, Drift
<1>12. CASE UNCHANGED vars
  BY <1>2, <1>12
<1>13. CASE SearchError
  BY <1>6, <1>7, <1>13
<1>14. CASE Steps
  BY <1>4, <1>5, <1>6, <1>8, <1>9, <1>10, <1>11, <1>14 DEF Steps
<1>15. CASE Errors
  BY <1>9, <1>10, <1>11, <1>13, <1>15 DEF Errors
<1>16. CASE Next
  BY <1>11, <1>14, <1>15, <1>16 DEF Next, Engine
<1> QED
  BY <1>12, <1>16

\* A diagnosis of several causes is the interaction the search ended with.
LEMMA ReportIsIrreducible ==
    ASSUME CheckInv, SearchTells, Report
    PROVE  InteractionIrreducible'
<1>t. TypeOK /\ StageOrder /\ results' = results /\ refuted' = refuted
  BY DEF CheckInv, Report, searchVars, ddminVars
<1> SUFFICES ASSUME NEW d \in report'.diagnoses, Cardinality(d.causes) >= 2
             PROVE  /\ \A i \in d.causes :
                          ~results[i].changed /\ ~results[i].error /\ EligibleKind(Plan[i])
                    /\ \A i \in d.causes :
                          d.causes \ {i} \in {D!Items(s) : s \in refuted}
  BY <1>t DEF InteractionIrreducible
<1>1. d \in SingleDiagnoses \cup InteractionDiagnoses
  BY DEF Report
<1>2. d \notin SingleDiagnoses
  <2> SUFFICES ASSUME NEW i, d.causes = {i} PROVE FALSE
    BY DEF SingleDiagnoses
  <2>1. Cardinality({i}) = 1
    BY FS_Singleton
  <2> QED
    BY <2>1
<1>3. /\ InteractionPromoted(interaction)
      /\ d.causes = {interaction.minimal[i] : i \in DOMAIN interaction.minimal}
  BY <1>1, <1>2 DEF InteractionDiagnoses
<1>4. Len(interaction.minimal) >= 2 /\ interaction.minimal \in Seq(1..Len(Plan))
  BY <1>3, <1>t DEF InteractionPromoted, TypeOK
<1>5. phase = "done" /\ interaction.minimal = current
  BY <1>4 DEF SearchTells
<1>6. /\ D!SearchInv /\ DP!Increasing(current)
      /\ D!Items(current) \subseteq Eligible
  BY <1>5, <1>t DEF SearchTells, StageOrder, D!OrderPreserved, DP!Increasing
<1>7. d.causes = D!Items(current)
  BY <1>3, <1>4, <1>5 DEF D!Items
<1>8. \A k \in 1..Len(current) : D!Without(current, k) \in refuted
  BY <1>4, <1>5, <1>6 DEF D!SearchInv, D!ResultOneMinimal
<1>9. ASSUME NEW i \in d.causes
      PROVE  d.causes \ {i} \in {D!Items(s) : s \in refuted}
  <2>1. PICK k \in 1..Len(current) : i = current[k]
    BY <1>7 DEF D!Items
  <2>2. D!Items(D!Without(current, k)) = d.causes \ {i}
    BY <1>4, <1>5, <1>6, <1>7, <2>1, WithoutOne
  <2> QED
    BY <1>8, <2>2
<1> QED
  BY <1>6, <1>7, <1>9 DEF Eligible

\* Whatever the verdicts of the builds, the causes of a reported interaction were
\* inert alone, and without any one of them the effect was refused
\* (execute_interaction_search, diagnosis_from_interaction).
THEOREM InteractionsAreIrreducible == Spec => []InteractionIrreducible
<1>1. Init => SearchTells /\ InteractionIrreducible
  BY DEF Init, SearchTells, NothingFound, NoReport, InteractionIrreducible
<1>2. CheckInv /\ SearchTells /\ InteractionIrreducible /\ [Next]_vars
        => InteractionIrreducible'
  <2>1. CASE UNCHANGED vars
    BY <2>1 DEF vars, searchVars, ddminVars, InteractionIrreducible
  <2>2. ASSUME CheckInv, SearchTells, Report PROVE InteractionIrreducible'
    BY <2>2, ReportIsIrreducible
  <2>3. ASSUME CheckInv, Next, ~Report PROVE InteractionIrreducible'
    <3>1. report' = report
      BY <2>3, ReportWrittenOnce
    <3>2. report = NoReport
      BY <2>3, NothingAfterDone DEF CheckInv, StageOrder
    <3> QED
      BY <3>1, <3>2 DEF NoReport, InteractionIrreducible
  <2> QED
    BY <2>1, <2>2, <2>3
<1> QED
  BY <1>1, <1>2, SearchTellsStep, CheckInvariant, PTL DEF Spec

-------------------------------------------------------------------------------
(***************************************************************************)
(* The second stability gate.                                              *)
(***************************************************************************)

\* What a changed baseline reference leaves behind: first itself, then the result
\* of its intervention, which only a CPU probe can be.
ReferenceShows ==
    "reference" \in observed =>
        \/ AnyDiffer(references)
        \/ \E i \in DOMAIN results :
              /\ Plan[i] = "cpu"
              /\ results[i].effect = "baseline_unstable" \/ results[i].error

\* Joint builds come after a whole sweep whose references did not change, and a
\* report that was written after a change says nothing else.
LateGate ==
    /\ pc = "control" => results = <<>>
    /\ pc \in {"control", "sweep"} => "joint" \notin observed
    /\ pc \in {"full", "minimize", "final"} \/ "joint" \in observed => ~Late
    /\ pc = "done" /\ Late =>
          report = [status |-> "uncontrolled_nondeterminism", diagnoses |-> {}]

LEMMA ConcludedShows ==
    ASSUME CheckInv, ReferenceShows, Probing, ~TrialsLeft,
           NEW reverted \in Option, NEW failed \in BOOLEAN,
           Concluded(reverted, failed),
           observed' \subseteq observed \cup {"reversion"}
    PROVE  ReferenceShows'
<1>t. /\ TypeOK /\ ProbeShape
      /\ results \in Seq(Result) /\ Len(results) \in Nat
  BY DEF CheckInv, TypeOK
<1>1. PICK traced \in BOOLEAN :
         results' = Append(results, Outcome(reverted, failed, traced))
  <2>1. TraceablyChanged(reverted) \in BOOLEAN
    BY DEF TraceablyChanged, AnyDiffer
  <2> QED
    BY <2>1 DEF Concluded
<1> DEFINE r == Outcome(reverted, failed, traced)
           n == Len(results)
<1>2. /\ r \in Result
      /\ AnyDiffer(references) => r.effect = "baseline_unstable" \/ r.error
  BY <1>t, OutcomeTyped, OutcomeTells
<1>3. results' = Append(results, r)
  BY <1>1
<1> HIDE DEF r
<1>4. /\ DOMAIN results = 1..n /\ DOMAIN results' = 1..(n + 1)
      /\ \A i \in 1..n : results'[i] = results[i]
      /\ results'[n + 1] = r
      /\ 1..n \subseteq 1..(n + 1) /\ n + 1 \in 1..(n + 1)
  BY <1>t, <1>2, <1>3
<1>5. AnyDiffer(references) => Plan[n + 1] = "cpu"
  BY <1>t DEF AnyDiffer, ProbeShape, Kind
<1> HIDE DEF n
<1> QED
  BY <1>2, <1>4, <1>5 DEF ReferenceShows

LEMMA ReferenceShowsStep ==
    CheckInv /\ ReferenceShows /\ LateGate /\ [Next]_vars => ReferenceShows'
<1> SUFFICES ASSUME CheckInv, ReferenceShows, LateGate, [Next]_vars
             PROVE  ReferenceShows'
  OBVIOUS
<1>t. TypeOK /\ ProbeShape /\ StageOrder
  BY DEF CheckInv
<1>1. ASSUME UNCHANGED <<controls, references, results>>,
             "reference" \in observed' => "reference" \in observed
      PROVE  ReferenceShows'
  BY <1>1 DEF ReferenceShows, AnyDiffer, Baseline
<1>2. CASE ControlBuild
  <2>1. results = <<>> /\ references = <<>>
    BY <1>2, <1>t DEF ControlBuild, LateGate, ProbeShape
  <2>2. "reference" \notin observed
    BY <2>1 DEF ReferenceShows, AnyDiffer
  <2> QED
    BY <1>2, <2>2 DEF ControlBuild, Recorded, ReferenceShows
<1>3. CASE ReferenceBuild
  <2>1. PICK a \in yields :
           references' = Append(references, a) /\ Recorded("reference", a)
    BY <1>3 DEF ReferenceBuild
  <2>2. controls' = controls /\ results' = results /\ references \in Seq(Artifacts)
        /\ a \in Artifacts
    BY <1>3, <1>t, <2>1 DEF ReferenceBuild, TypeOK
  <2>3. AnyDiffer(references)' <=> AnyDiffer(references) \/ a # Baseline
    BY <2>1, <2>2, AppendDiffers DEF AnyDiffer, Baseline
  <2>4. "reference" \in observed' => "reference" \in observed \/ a # Baseline
    BY <2>1 DEF Recorded
  <2> QED
    BY <2>2, <2>3, <2>4 DEF ReferenceShows
<1>4. CASE VariantBuild
  BY <1>1, <1>4 DEF VariantBuild, Recorded
<1>5. CASE VariantFailure \/ TrialError
  BY <1>1, <1>5 DEF VariantFailure, TrialError, Unrecorded
<1>6. CASE Unconfirmed
  BY <1>6, ConcludedShows DEF Unconfirmed, evidenceVars, Option
<1>7. CASE ConfirmationBuild
  <2>1. PICK a \in yields :
           Recorded("reversion", a) /\ Concluded(YesNo(a = Baseline), FALSE)
    BY <1>7 DEF ConfirmationBuild
  <2>2. observed' \subseteq observed \cup {"reversion"}
    BY <2>1 DEF Recorded
  <2>3. YesNo(a = Baseline) \in Option
    BY DEF YesNo, Option
  <2> QED
    BY <1>7, <2>1, <2>2, <2>3, ConcludedShows DEF ConfirmationBuild
<1>8. CASE ConfirmationError
  BY <1>8, ConcludedShows DEF ConfirmationError, Unrecorded, Option
<1>9. CASE SubsetBuild
  BY <1>1, <1>9 DEF SubsetBuild, Recorded, probeVars
<1>10. CASE InteractionReversion
  BY <1>1, <1>10 DEF InteractionReversion, SearchEnds, Recorded, probeVars
<1>11. CASE ControlsCompared \/ SweepOver \/ FullReproduces \/ FullDoesNotReproduce
  BY <1>1, <1>11
     DEF ControlsCompared, SweepOver, FullReproduces, FullDoesNotReproduce,
         evidenceVars, probeVars
<1>12. CASE SubsetVerdict \/ FinalWithoutReversion \/ SearchError
  BY <1>1, <1>12
     DEF SubsetVerdict, FinalWithoutReversion, SearchEnds, SearchError,
         evidenceVars, probeVars
<1>13. CASE Report \/ Abort \/ Drift
  BY <1>1, <1>13 DEF Report, Abort, Drift, evidenceVars, probeVars
<1>14. CASE UNCHANGED vars
  BY <1>1, <1>14 DEF vars, evidenceVars, probeVars
<1> QED
  BY <1>2, <1>3, <1>4, <1>5, <1>6, <1>7, <1>8, <1>9, <1>10, <1>11, <1>12, <1>13,
     <1>14
     DEF Next, Engine, Steps, Errors

LEMMA LateGateStep == CheckInv /\ LateGate /\ [Next]_vars => LateGate'
<1> SUFFICES ASSUME CheckInv, LateGate, [Next]_vars PROVE LateGate'
  OBVIOUS
<1>t. StageOrder
  BY DEF CheckInv
<1>1. ASSUME UNCHANGED <<pc, results, report>>,
             "joint" \in observed' => "joint" \in observed
      PROVE  LateGate'
  BY <1>1 DEF LateGate, Late
<1>2. CASE ControlBuild \/ ReferenceBuild \/ VariantBuild
  BY <1>1, <1>2 DEF ControlBuild, ReferenceBuild, VariantBuild, Recorded
<1>3. CASE VariantFailure \/ TrialError \/ Drift
  BY <1>1, <1>3 DEF VariantFailure, TrialError, Drift, Unrecorded, evidenceVars
<1>4. CASE Unconfirmed \/ ConfirmationBuild \/ ConfirmationError
  BY <1>4
     DEF Unconfirmed, ConfirmationBuild, ConfirmationError, Concluded, Recorded,
         Unrecorded, evidenceVars, Probing, LateGate
<1>5. CASE SubsetBuild
  BY <1>5 DEF SubsetBuild, LateGate, Late
<1>6. CASE ControlsCompared \/ SweepOver
  BY <1>6
     DEF ControlsCompared, SweepOver, SearchWanted, evidenceVars, LateGate, Late
<1>7. CASE FullReproduces \/ FullDoesNotReproduce \/ SubsetVerdict
  BY <1>7
     DEF FullReproduces, FullDoesNotReproduce, SubsetVerdict, evidenceVars, LateGate,
         Late
<1>8. CASE FinalWithoutReversion \/ InteractionReversion \/ SearchError
  BY <1>8
     DEF FinalWithoutReversion, InteractionReversion, SearchEnds, SearchError,
         Recorded, evidenceVars, LateGate, Late
<1>9. CASE Report
  BY <1>9 DEF Report, Status, evidenceVars, LateGate, Late
<1>10. CASE Abort
  BY <1>10 DEF Abort, evidenceVars, LateGate, Late
<1>11. CASE UNCHANGED vars
  BY <1>1, <1>11 DEF vars, evidenceVars
<1> QED
  BY <1>2, <1>3, <1>4, <1>5, <1>6, <1>7, <1>8, <1>9, <1>10, <1>11
     DEF Next, Engine, Steps, Errors

\* For every plan and every option: once a baseline reference of a completed CPU
\* probe has changed, the check reports uncontrolled nondeterminism and nothing
\* else, and builds no joint variant (late_baseline_instability).
THEOREM LateInstabilityAlwaysWins == Spec => []LateInstabilityWins
<1>1. Init => ReferenceShows /\ LateGate
  BY DEF Init, ReferenceShows, LateGate, NoReport
<1>2. CheckInv /\ ReferenceShows /\ LateGate => LateInstabilityWins
  <2> SUFFICES ASSUME CheckInv, ReferenceShows, LateGate,
                      Len(results) = Len(Plan), "reference" \in observed,
                      \A i \in DOMAIN results : Plan[i] = "cpu" => ~results[i].error
               PROVE  /\ pc \in {"sweep", "report", "done", "aborted"}
                      /\ "joint" \notin observed
                      /\ Reported => report = [status |-> "uncontrolled_nondeterminism",
                                               diagnoses |-> {}]
    BY DEF LateInstabilityWins
  <2>1. Late
    BY DEF CheckInv, ProbeShape, ReferenceShows, Late, AnyDiffer
  <2>2. pc # "control"
    BY <2>1 DEF Late, LateGate
  <2>3. pc \in {"control", "sweep", "full", "minimize", "final", "report", "done",
                "aborted"}
    BY DEF CheckInv, TypeOK
  <2> QED
    BY <2>1, <2>2, <2>3 DEF LateGate, Reported
<1> QED
  BY <1>1, <1>2, ReferenceShowsStep, LateGateStep, CheckInvariant, PTL DEF Spec

-------------------------------------------------------------------------------
(***************************************************************************)
(* What high confidence says of the builds.                                *)
(***************************************************************************)

\* A diagnosis of one result with high confidence has what `diagnosis_from_result`
\* asks for.
LEMMA HighMeansHigh ==
    ASSUME NEW kind, NEW r, Confidence(kind, r) = "high"
    PROVE  HighConfidence(kind, r)
  BY DEF Confidence

\* What the trials of an intervention come to when they are over: without an error
\* all of them were carried out, and the fields that diagnoses read agree with the
\* numbers of builds.
Summarises(r, kind) ==
    /\ ~r.error => r.built + r.failed = RunCount(kind)
    /\ r.changed => r.differed > 0
    /\ r.failures # {} => r.failed > 0
    /\ r.consistent => r.differed \in {0, r.built}
    /\ kind # "cpu" \/ r.effect = "supported" => r.unsteady = 0

ResultsSummarise == \A i \in DOMAIN results : Summarises(results[i], Plan[i])

LEMMA AgreeingDiffer ==
    ASSUME NEW S, NEW s \in Seq(S), Agree(s)
    PROVE  Differing(s) \in {0, Len(s)}
<1>1. Len(s) \in Nat /\ DOMAIN s = 1..Len(s)
  OBVIOUS
<1>2. CASE AnyDiffer(s)
  <2>1. {i \in DOMAIN s : s[i] # Baseline} = 1..Len(s)
    BY <1>1, <1>2 DEF Agree, AnyDiffer
  <2>2. Cardinality(1..Len(s)) = Len(s)
    BY <1>1, FS_Interval
  <2> QED
    BY <2>1, <2>2 DEF Differing
<1>3. CASE ~AnyDiffer(s)
  BY <1>3, DifferingPositive
<1> QED
  BY <1>2, <1>3

LEMMA OutcomeSummarises ==
    ASSUME TypeOK, ProbeShape, Probing, ~TrialsLeft,
           NEW reverted \in Option, NEW failed \in BOOLEAN, NEW traced \in BOOLEAN
    PROVE  Summarises(Outcome(reverted, failed, traced), Kind)
<1> DEFINE r == Outcome(reverted, failed, traced)
<1>1. /\ r.built = Len(variants) /\ r.failed = Len(failures)
      /\ r.differed = Differing(variants) /\ r.unsteady = Differing(references)
      /\ r.changed = AnyDiffer(variants) /\ r.consistent = Agree(variants)
      /\ r.effect = Effect /\ r.error = (error \/ failed)
  BY DEF Outcome
<1>2. r.failures # {} => r.failed > 0
  <2>1. r.failures # {} => failures # <<>>
    BY OutcomeTells
  <2> QED
    BY <1>1, <2>1 DEF TypeOK
<1> HIDE DEF r
<1>3. r.changed => r.differed > 0
  BY <1>1, DifferingPositive DEF TypeOK
<1>4. r.consistent => r.differed \in {0, r.built}
  BY <1>1, AgreeingDiffer DEF TypeOK
<1>5. ASSUME ~r.error PROVE r.built + r.failed = RunCount(Kind)
  <2>1. Len(variants) + Len(failures) >= RunCount(Kind)
    BY <1>1, <1>5, RunCountPositive DEF TrialsLeft, TypeOK
  <2>2. Len(variants) + Len(failures) <= RunCount(Kind)
    BY DEF ProbeShape
  <2>3. /\ Len(variants) \in Nat /\ Len(failures) \in Nat
        /\ RunCount(Kind) \in Nat
    BY RunCountPositive DEF TypeOK
  <2>4. Len(variants) + Len(failures) = RunCount(Kind)
    BY <2>1, <2>2, <2>3
  <2> QED
    BY <1>1, <2>4
<1>6. ASSUME Kind # "cpu" \/ r.effect = "supported" PROVE r.unsteady = 0
  <2>1. CASE Kind # "cpu"
    <3>1. ~AnyDiffer(references)
      BY <2>1 DEF ProbeShape, AnyDiffer
    <3> QED
      BY <1>1, <3>1, DifferingPositive DEF TypeOK
  <2>2. CASE Effect = "supported"
    <3>1. ~(Differing(references) > 0)
      BY <2>2 DEF Effect, Classification
    <3> QED
      BY <1>1, <3>1, DifferingPositive DEF TypeOK
  <2> QED
    BY <1>1, <1>6, <2>1, <2>2
<1> QED
  BY <1>2, <1>3, <1>4, <1>5, <1>6 DEF Summarises, r

LEMMA ConcludedSummarises ==
    ASSUME CheckInv, ResultsSummarise, Probing, ~TrialsLeft,
           NEW reverted \in Option, NEW failed \in BOOLEAN,
           Concluded(reverted, failed)
    PROVE  ResultsSummarise'
<1>t. /\ TypeOK /\ ProbeShape
      /\ results \in Seq(Result) /\ Len(results) \in Nat
  BY DEF CheckInv, TypeOK
<1>1. PICK traced \in BOOLEAN :
         results' = Append(results, Outcome(reverted, failed, traced))
  <2>1. TraceablyChanged(reverted) \in BOOLEAN
    BY DEF TraceablyChanged, AnyDiffer
  <2> QED
    BY <2>1 DEF Concluded
<1> DEFINE r == Outcome(reverted, failed, traced)
           n == Len(results)
<1>2. r \in Result /\ Summarises(r, Plan[n + 1])
  BY <1>t, OutcomeTyped, OutcomeSummarises DEF Kind
<1>3. results' = Append(results, r)
  BY <1>1
<1> HIDE DEF r
<1>4. /\ DOMAIN results = 1..n /\ DOMAIN results' = 1..(n + 1)
      /\ \A i \in 1..n : results'[i] = results[i]
      /\ results'[n + 1] = r
      /\ \A i \in 1..(n + 1) : i \in 1..n \/ i = n + 1
  BY <1>t, <1>2, <1>3
<1> HIDE DEF n
<1> QED
  BY <1>2, <1>4 DEF ResultsSummarise

\* Results are only added to by these steps.
LEMMA ResultsSummariseStep ==
    CheckInv /\ ResultsSummarise /\ [Next]_vars => ResultsSummarise'
<1> SUFFICES ASSUME CheckInv, ResultsSummarise, [Next]_vars
             PROVE  ResultsSummarise'
  OBVIOUS
<1>1. CASE UNCHANGED results
  BY <1>1 DEF ResultsSummarise
<1>2. CASE Unconfirmed
  BY <1>2, ConcludedSummarises DEF Unconfirmed, Option
<1>3. CASE ConfirmationBuild
  <2>1. PICK a \in yields : Concluded(YesNo(a = Baseline), FALSE)
    BY <1>3 DEF ConfirmationBuild
  <2> QED
    BY <1>3, <2>1, ConcludedSummarises DEF ConfirmationBuild, YesNo, Option
<1>4. CASE ConfirmationError
  BY <1>4, ConcludedSummarises DEF ConfirmationError, Option
<1>5. CASE UNCHANGED vars
  BY <1>1, <1>5 DEF vars
<1>6. ASSUME Next, ~Unconfirmed, ~ConfirmationBuild, ~ConfirmationError
      PROVE  UNCHANGED results
  BY <1>6 DEF Next, Engine, Steps, Errors, ControlBuild, ControlsCompared,
         ReferenceBuild, VariantBuild, VariantFailure, TrialError, SweepOver,
         SubsetBuild, FullReproduces, FullDoesNotReproduce, SubsetVerdict,
         FinalWithoutReversion, InteractionReversion, SearchEnds, SearchError,
         Report, Abort, Drift
<1> QED
  BY <1>1, <1>2, <1>3, <1>4, <1>5, <1>6

\* What a report gains of high-confidence diagnoses is earned by its results.
LEMMA ReportSeparates ==
    ASSUME CheckInv, ResultsSummarise, Report
    PROVE  HighConfidenceSeparates'
<1>1. UNCHANGED <<results, controls>>
  BY DEF Report
<1> SUFFICES ASSUME NEW d \in report'.diagnoses, d.confidence = "high"
             PROVE  /\ Agree(controls)
                    /\ \E i \in DOMAIN results :
                          /\ d.causes = {i}
                          /\ results[i].unsteady = 0
                          /\ results[i].reverted = "yes"
                          /\ results[i].built + results[i].failed = RunCount(Plan[i])
                          /\ Separated(results[i])
  BY <1>1 DEF HighConfidenceSeparates, Agree
<1>2. ControlsStable /\ d \in SingleDiagnoses \cup InteractionDiagnoses
  BY DEF Report
<1>3. d \notin InteractionDiagnoses
  BY DEF InteractionDiagnoses, InteractionConfidence
<1>4. PICK i \in DOMAIN results :
          /\ d = [causes |-> {i}, confidence |-> Confidence(Plan[i], results[i])]
          /\ ObservedEffect(Plan[i], results[i])
  BY <1>2, <1>3 DEF SingleDiagnoses
<1> DEFINE r == results[i]
<1>5. HighConfidence(Plan[i], r) /\ Summarises(r, Plan[i]) /\ r \in Result
  BY <1>4, HighMeansHigh DEF ResultsSummarise, CheckInv, TypeOK
<1>6. /\ r.built + r.failed = RunCount(Plan[i]) /\ r.reverted = "yes"
      /\ r.unsteady = 0
      /\ r.differed \in {0, r.built}
  BY <1>4, <1>5 DEF HighConfidence, Summarises, ObservedEffect
<1>7. r.differed > 0 \/ r.failed > 0
  BY <1>4, <1>5 DEF Summarises, ObservedEffect
<1>8. Separated(r)
  BY <1>5, <1>6, <1>7 DEF Separated, Result
<1> QED
  BY <1>2, <1>4, <1>6, <1>8 DEF ControlsStable

\* Whatever fails or drifts, a cause is diagnosed with high confidence only if all
\* builds without it agreed and all its planned trials, carried out to the last,
\* differed where they built, or failed as evidence.
THEOREM HighConfidenceIsSeparation == Spec => []HighConfidenceSeparates
<1>1. Init => ResultsSummarise /\ HighConfidenceSeparates
  BY DEF Init, NoReport, ResultsSummarise, HighConfidenceSeparates
<1>2. CheckInv /\ ResultsSummarise /\ HighConfidenceSeparates
          /\ [Next]_vars => HighConfidenceSeparates'
  <2>1. CASE UNCHANGED vars
    BY <2>1 DEF vars, HighConfidenceSeparates, Agree
  <2>2. ASSUME CheckInv, ResultsSummarise, Report PROVE HighConfidenceSeparates'
    BY <2>2, ReportSeparates
  <2>3. ASSUME CheckInv, Next, ~Report PROVE HighConfidenceSeparates'
    <3>1. report' = report
      BY <2>3, ReportWrittenOnce
    <3>2. report = NoReport
      BY <2>3, NothingAfterDone DEF CheckInv, StageOrder
    <3> QED
      BY <3>1, <3>2 DEF NoReport, HighConfidenceSeparates
  <2> QED
    BY <2>1, <2>2, <2>3
<1> QED
  BY <1>1, <1>2, ResultsSummariseStep, CheckInvariant, PTL DEF Spec

-------------------------------------------------------------------------------
(***************************************************************************)
(* The cost of a check.                                                    *)
(***************************************************************************)

LEMMA ProbeBuildsTyped == ASSUME NEW kind PROVE ProbeBuilds(kind) \in Nat
<1>1. RunCount(kind) \in Nat /\ ConfirmationRuns \in Nat
  BY OptionsAssumption, RunCountPositive
<1> DEFINE k == RunCount(kind)
<1>2. k * (IF kind = "cpu" THEN 2 ELSE 1) \in Nat
  <2>1. k \in Nat
    BY <1>1
  <2> HIDE DEF k
  <2> QED
    BY <2>1
<1> QED
  BY <1>1, <1>2 DEF ProbeBuilds

\* The recursive definition has a solution, so each intervention adds its builds.
LEMMA PlannedUnfolds ==
    PlannedBuilds = [n \in 0..Len(Plan) |->
                        IF n = 0 THEN 0
                        ELSE PlannedBuilds[n - 1] + ProbeBuilds(Plan[n])]
<1> DEFINE Solves(g, N) == g = [n \in 0..N |-> IF n = 0 THEN 0
                                               ELSE g[n - 1] + ProbeBuilds(Plan[n])]
           S == {N \in Nat : \E g : Solves(g, N)}
<1>1. 0 \in S
  <2> DEFINE g == [n \in 0..0 |-> 0]
  <2>1. Solves(g, 0)
    OBVIOUS
  <2> QED
    BY <2>1
<1>2. ASSUME NEW N \in Nat, N \in S
      PROVE  N + 1 \in S
  <2>1. PICK g : Solves(g, N)
    BY <1>2
  <2> DEFINE h == [n \in 0..(N + 1) |-> IF n = N + 1
                                        THEN g[N] + ProbeBuilds(Plan[N + 1])
                                        ELSE g[n]]
  <2>2. ASSUME NEW n \in 0..(N + 1)
        PROVE  h[n] = IF n = 0 THEN 0 ELSE h[n - 1] + ProbeBuilds(Plan[n])
    <3>1. CASE n = N + 1
      <4>1. /\ h[n] = g[N] + ProbeBuilds(Plan[n])
            /\ n - 1 = N /\ n # 0 /\ h[N] = g[N]
        BY <1>2, <3>1
      <4> QED
        BY <4>1
    <3>2. CASE n = 0
      <4>1. h[n] = g[0] /\ g[0] = 0
        BY <1>2, <2>1, <3>2
      <4> QED
        BY <4>1, <3>2
    <3>3. CASE n \in 1..N
      <4>1. n \in 0..N /\ n # 0 /\ n # N + 1 /\ n - 1 \in 0..(N + 1) /\ n - 1 # N + 1
        BY <1>2, <3>3
      <4>2. h[n] = g[n] /\ h[n - 1] = g[n - 1]
        BY <1>2, <4>1
      <4>3. g[n] = g[n - 1] + ProbeBuilds(Plan[n])
        BY <2>1, <4>1
      <4> QED
        BY <4>1, <4>2, <4>3
    <3> QED
      BY <1>2, <3>1, <3>2, <3>3
  <2>3. Solves(h, N + 1)
    <3>1. h = [n \in 0..(N + 1) |-> h[n]]
      OBVIOUS
    <3> HIDE DEF h
    <3> QED
      BY <2>2, <3>1
  <2>4. N + 1 \in Nat /\ \E f : Solves(f, N + 1)
    <3> HIDE DEF h, Solves
    <3> QED
      BY <1>2, <2>3
  <2> QED
    BY <2>4
<1>3. Len(Plan) \in S
  <2> HIDE DEF S
  <2>1. Len(Plan) \in Nat
    BY OptionsAssumption
  <2> QED
    BY <1>1, <1>2, <2>1, DP!NatSetInduction
<1>4. PICK g : Solves(g, Len(Plan))
  BY <1>3
<1> QED
  BY <1>4 DEF PlannedBuilds

LEMMA PlannedSteps ==
    /\ PlannedBuilds[0] = 0
    /\ \A n \in Nat : n + 1 <= Len(Plan) =>
          PlannedBuilds[n + 1] = PlannedBuilds[n] + ProbeBuilds(Plan[n + 1])
<1> DEFINE p == PlannedBuilds
           F(n) == IF n = 0 THEN 0 ELSE p[n - 1] + ProbeBuilds(Plan[n])
<1>0. Len(Plan) \in Nat
  BY OptionsAssumption
<1>1. p = [n \in 0..Len(Plan) |-> F(n)]
  BY PlannedUnfolds
<1> HIDE DEF p, F
<1>2. \A n \in 0..Len(Plan) : p[n] = F(n)
  BY <1>1
<1>3. p[0] = 0
  BY <1>0, <1>2 DEF F
<1>4. ASSUME NEW n \in Nat, n + 1 <= Len(Plan)
      PROVE  p[n + 1] = p[n] + ProbeBuilds(Plan[n + 1])
  <2>1. n + 1 \in 0..Len(Plan) /\ n + 1 # 0 /\ n + 1 - 1 = n
    BY <1>0, <1>4
  <2>2. p[n + 1] = p[n + 1 - 1] + ProbeBuilds(Plan[n + 1])
    BY <1>2, <2>1 DEF F
  <2> QED
    BY <2>1, <2>2
<1> QED
  BY <1>3, <1>4 DEF p

LEMMA PlannedTyped ==
    \A n \in Nat : n <= Len(Plan) => PlannedBuilds[n] \in Nat
<1> DEFINE S == {n \in Nat : n <= Len(Plan) => PlannedBuilds[n] \in Nat}
<1>0. Len(Plan) \in Nat
  BY OptionsAssumption
<1>1. 0 \in S
  BY PlannedSteps
<1>2. ASSUME NEW n \in Nat, n \in S
      PROVE  n + 1 \in S
  <2> SUFFICES ASSUME n + 1 <= Len(Plan)
               PROVE  PlannedBuilds[n + 1] \in Nat
    BY <1>2
  <2>1. PlannedBuilds[n] \in Nat
    BY <1>0, <1>2
  <2>2. PlannedBuilds[n + 1] = PlannedBuilds[n] + ProbeBuilds(Plan[n + 1])
    BY <1>2, PlannedSteps
  <2>3. ProbeBuilds(Plan[n + 1]) \in Nat
    BY ProbeBuildsTyped
  <2> QED
    BY <2>1, <2>2, <2>3
<1>3. Nat \subseteq S
  <2> HIDE DEF S
  <2> QED
    BY <1>1, <1>2, DP!NatSetInduction
<1> QED
  BY <1>3

\* A prefix of the plan never costs more than the plan.
LEMMA PlannedMonotone ==
    ASSUME NEW m \in Nat, m <= Len(Plan)
    PROVE  PlannedBuilds[m] <= PlannedBuilds[Len(Plan)]
<1> DEFINE S == {k \in Nat : m + k <= Len(Plan)
                                => PlannedBuilds[m] <= PlannedBuilds[m + k]}
<1>0. Len(Plan) \in Nat
  BY OptionsAssumption
<1>1. 0 \in S
  <2>1. PlannedBuilds[m] \in Nat /\ m + 0 = m
    BY PlannedTyped
  <2>2. PlannedBuilds[m] <= PlannedBuilds[m + 0]
    BY <2>1
  <2> QED
    BY <2>2
<1>2. ASSUME NEW k \in Nat, k \in S
      PROVE  k + 1 \in S
  <2> SUFFICES ASSUME m + (k + 1) <= Len(Plan)
               PROVE  PlannedBuilds[m] <= PlannedBuilds[m + (k + 1)]
    BY <1>2
  <2> DEFINE n == m + k
  <2>1. n \in Nat /\ n + 1 <= Len(Plan) /\ n <= Len(Plan) /\ m + (k + 1) = n + 1
    BY <1>0
  <2>2. PlannedBuilds[m] <= PlannedBuilds[n]
    BY <1>2, <2>1
  <2> HIDE DEF n
  <2>3. PlannedBuilds[n + 1] = PlannedBuilds[n] + ProbeBuilds(Plan[n + 1])
    BY <2>1, PlannedSteps
  <2>4. ProbeBuilds(Plan[n + 1]) \in Nat /\ PlannedBuilds[n] \in Nat
        /\ PlannedBuilds[m] \in Nat
    BY <2>1, ProbeBuildsTyped, PlannedTyped
  <2>5. PlannedBuilds[m] <= PlannedBuilds[n + 1]
    BY <2>2, <2>3, <2>4
  <2> QED
    BY <2>1, <2>5
<1>3. Len(Plan) - m \in S
  <2>1. Nat \subseteq S
    <3> HIDE DEF S
    <3> QED
      BY <1>1, <1>2, DP!NatSetInduction
  <2>2. Len(Plan) - m \in Nat
    BY <1>0
  <2> HIDE DEF S
  <2> QED
    BY <2>1, <2>2
<1>4. m + (Len(Plan) - m) = Len(Plan)
  BY <1>0
<1> QED
  BY <1>0, <1>3, <1>4

-------------------------------------------------------------------------------
\* The trials of the intervention under test that produced something.
Trials == Len(variants) + Len(failures)

\* What every build that was numbered has been spent on.  Each verdict of the
\* minimiser costs one batch, and the first batch is that of all candidates.
Spending ==
    /\ Len(controls) <= ControlRuns
    /\ Len(batch) <= InteractionRuns
    /\ Probing /\ error => Trials < RunCount(Kind)
    /\ phase # "idle" => DP!CallsWithin(DP!MostTests(MaxInteractionVariables))
    /\ pc \in {"control", "sweep"} =>
          ordinal - 1 <= Len(controls) + PlannedBuilds[Len(results)]
                             + Len(references) + Trials + (IF error THEN 1 ELSE 0)
    /\ pc \in {"full", "minimize", "final"} =>
          ordinal - 1 <= ControlRuns + PlannedBuilds[Len(Plan)] + Len(batch)
                             + InteractionRuns * (IF pc = "full" THEN 0 ELSE 1 + tests)
    /\ pc \in {"report", "done", "aborted"} => BuildBudget

\* A probe and the error that may end it cost no more than was planned, and leave
\* room for the confirmation.
LEMMA ProbeWithinPlan ==
    ASSUME TypeOK, ProbeShape, Spending, Probing
    PROVE  /\ Len(references) + Trials + (IF error THEN 1 ELSE 0) \in Nat
           /\ Len(references) + Trials + (IF error THEN 1 ELSE 0) + ConfirmationRuns
                 <= ProbeBuilds(Kind)
           /\ TrialsLeft =>
                 Len(references) + Trials + 1 <= ProbeBuilds(Kind)
<1> DEFINE k == RunCount(Kind)
           r == Len(references)
           v == Len(variants)
           f == Len(failures)
           e == IF error THEN 1 ELSE 0
<1>1. k \in Nat /\ r \in Nat /\ v \in Nat /\ f \in Nat /\ ConfirmationRuns \in Nat
  <2>1. RunCount(Kind) \in Nat
    BY RunCountPositive
  <2>2. r \in Nat /\ v \in Nat /\ f \in Nat /\ ConfirmationRuns \in Nat
    BY OptionsAssumption DEF TypeOK
  <2> QED
    BY <2>1, <2>2
<1>2. v + f + e <= k /\ e \in {0, 1} /\ Trials = v + f
  BY <1>1 DEF ProbeShape, Spending, Trials, TypeOK
<1>3. TrialsLeft => v + f < k /\ e = 0
  BY DEF TrialsLeft
<1>4. CASE Kind = "cpu"
  <2>1. f = 0
    BY <1>4 DEF ProbeShape, FailureObservable
  <2>2. r = v \/ (r = v + 1 /\ v < k)
    BY <1>4 DEF ProbeShape
  <2>3. ProbeBuilds(Kind) = k * 2 + ConfirmationRuns
    BY <1>4 DEF ProbeBuilds
  <2> HIDE DEF k, r, v, f, e
  <2>4. /\ r + (v + f) + e \in Nat
        /\ r + (v + f) + e <= k * 2
        /\ v + f < k /\ e = 0 => r + (v + f) + 1 <= k * 2
    BY <1>1, <1>2, <2>1, <2>2
  <2>5. ProbeBuilds(Kind) \in Nat
    BY ProbeBuildsTyped
  <2> QED
    BY <1>1, <1>2, <1>3, <2>3, <2>4, <2>5 DEF r, e
<1>5. CASE Kind # "cpu"
  <2>1. r = 0
    BY <1>5 DEF ProbeShape
  <2>2. ProbeBuilds(Kind) = k + ConfirmationRuns
    <3>1. ProbeBuilds(Kind) = k * 1 + ConfirmationRuns
      BY <1>5 DEF ProbeBuilds
    <3> HIDE DEF k
    <3> QED
      BY <1>1, <3>1
  <2> HIDE DEF k, r, v, f, e
  <2>3. /\ r + (v + f) + e \in Nat
        /\ r + (v + f) + e <= k
        /\ v + f < k /\ e = 0 => r + (v + f) + 1 <= k
    BY <1>1, <1>2, <2>1
  <2> QED
    BY <1>1, <1>2, <1>3, <2>2, <2>3 DEF r, e
<1> QED
  BY <1>4, <1>5

LEMMA JointBuildsTyped ==
    /\ DP!MostTests(MaxInteractionVariables) \in Nat
    /\ JointBuilds = InteractionRuns * (2 + DP!MostTests(MaxInteractionVariables))
                        + ConfirmationRuns
    /\ JointBuilds \in Nat
<1> DEFINE most == DP!MostTests(MaxInteractionVariables)
<1>1. most \in Nat /\ InteractionRuns \in Nat /\ ConfirmationRuns \in Nat
  BY OptionsAssumption, DP!MostTestsTyped
<1>2. D!MostTests(MaxInteractionVariables) = most
  BY DEF D!MostTests, DP!MostTests
<1>3. JointBuilds = InteractionRuns * (2 + most) + ConfirmationRuns
  BY <1>2 DEF JointBuilds
<1> HIDE DEF most
<1>4. InteractionRuns * (2 + most) \in Nat
  BY <1>1
<1> QED
  BY <1>1, <1>3, <1>4 DEF most

\* Before the search, the sweep is within the plan and the search untouched.
LEMMA SweepWithinBudget ==
    ASSUME CheckInv, Spending, pc \in {"control", "sweep"}
    PROVE  /\ ordinal - 1 <= ControlRuns + PlannedBuilds[Len(Plan)]
           /\ BuildBudget
<1>1. /\ TypeOK /\ ProbeShape /\ ordinal \in Nat /\ Len(controls) \in Nat
      /\ Len(results) \in Nat /\ Len(results) <= Len(Plan) /\ Len(Plan) \in Nat
      /\ Len(controls) <= ControlRuns /\ ControlRuns \in Nat
      /\ JointBuilds \in Nat
  <2>1. JointBuilds \in Nat
    BY JointBuildsTyped
  <2>2. Len(Plan) \in Nat /\ ControlRuns \in Nat
    BY OptionsAssumption
  <2> QED
    BY <2>1, <2>2 DEF CheckInv, TypeOK, Spending
<1> DEFINE spent == Len(references) + Trials + (IF error THEN 1 ELSE 0)
           P(n) == PlannedBuilds[n]
<1>2. P(Len(results)) \in Nat /\ P(Len(Plan)) \in Nat
      /\ P(Len(results)) <= P(Len(Plan))
  BY <1>1, PlannedTyped, PlannedMonotone
<1>3. ordinal - 1 <= Len(controls) + P(Len(results)) + spent
  <2>1. /\ Len(references) \in Nat /\ Trials \in Nat
        /\ (IF error THEN 1 ELSE 0) \in Nat
    BY <1>1 DEF TypeOK, Trials
  <2>2. ordinal - 1 <= Len(controls) + P(Len(results)) + Len(references) + Trials
                          + (IF error THEN 1 ELSE 0)
    BY DEF Spending
  <2> HIDE DEF P
  <2> QED
    BY <1>1, <1>2, <2>1, <2>2
<1>4. P(Len(results)) + spent <= P(Len(Plan)) /\ spent \in Nat
  <2>1. CASE Probing
    <3>1. spent \in Nat /\ spent + ConfirmationRuns <= ProbeBuilds(Kind)
      BY <1>1, <2>1, ProbeWithinPlan
    <3>2. Len(results) + 1 <= Len(Plan) /\ Len(results) + 1 \in Nat
      BY <1>1, <2>1 DEF Probing
    <3>3. P(Len(results) + 1) = P(Len(results)) + ProbeBuilds(Kind)
      BY <1>1, <3>2, PlannedSteps DEF Kind
    <3>4. P(Len(results) + 1) <= P(Len(Plan))
      BY <3>2, PlannedMonotone
    <3>5. ProbeBuilds(Kind) \in Nat /\ ConfirmationRuns \in Nat
      BY ProbeBuildsTyped, OptionsAssumption
    <3> HIDE DEF P, spent
    <3> QED
      BY <1>2, <3>1, <3>3, <3>4, <3>5
  <2>2. CASE ~Probing
    <3>1. /\ references = <<>> /\ variants = <<>> /\ failures = <<>> /\ ~error
      BY <1>1, <2>2 DEF ProbeShape, Probing
    <3>2. Len(references) = 0 /\ Len(variants) = 0 /\ Len(failures) = 0
      BY <3>1
    <3>3. spent = 0
      BY <3>1, <3>2 DEF Trials
    <3> HIDE DEF P, spent
    <3> QED
      BY <1>2, <3>3
  <2> QED
    BY <2>1, <2>2
<1>5. ordinal - 1 <= ControlRuns + P(Len(Plan))
  <2> HIDE DEF P, spent
  <2> QED
    BY <1>1, <1>2, <1>3, <1>4
<1>6. ordinal - 1 <= ControlRuns + P(Len(Plan)) + JointBuilds
  <2> HIDE DEF P
  <2> QED
    BY <1>1, <1>2, <1>5
<1> QED
  BY <1>5, <1>6 DEF BuildBudget

\* The predicate calls the minimiser has made stay within its bound for the most
\* candidates there may be.
LEMMA CallsBounded ==
    ASSUME CheckInv, Spending
    PROVE  tests \in Nat /\ tests <= DP!MostTests(MaxInteractionVariables)
<1>1. DP!MostTests(MaxInteractionVariables) \in Nat
  BY JointBuildsTyped
<1>2. CASE phase = "idle"
  BY <1>1, <1>2 DEF CheckInv, StageOrder
<1>3. CASE phase # "idle"
  <2>1. D!SearchInv /\ DP!CallsWithin(DP!MostTests(MaxInteractionVariables))
    BY <1>3 DEF CheckInv, StageOrder, Spending
  <2>2. DP!SearchInv
    BY <2>1, SameSearchInv
  <2>3. tests \in Nat
    BY <2>1 DEF D!SearchInv, D!TypeOK
  <2>4. tests <= DP!MostTests(MaxInteractionVariables)
    BY <1>1, <2>1, <2>2, DP!CallsBound
  <2> QED
    BY <2>3, <2>4
<1> QED
  BY <1>2, <1>3

\* At every moment of the search there is still room for the reversion.
LEMMA SearchWithinBudget ==
    ASSUME CheckInv, Spending, pc \in {"full", "minimize", "final"}
    PROVE  ordinal - 1 + ConfirmationRuns
              <= ControlRuns + PlannedBuilds[Len(Plan)] + JointBuilds
<1> DEFINE most == DP!MostTests(MaxInteractionVariables)
           planned == PlannedBuilds[Len(Plan)]
           verdicts == IF pc = "full" THEN 0 ELSE 1 + tests
           n == Len(batch)
<1>1. /\ ordinal \in Nat /\ n \in Nat /\ n <= InteractionRuns
      /\ InteractionRuns \in Nat /\ ControlRuns \in Nat /\ ConfirmationRuns \in Nat
  BY OptionsAssumption DEF CheckInv, TypeOK, Spending
<1>2. most \in Nat /\ verdicts \in Nat /\ verdicts <= 1 + most
  BY JointBuildsTyped, CallsBounded
<1>3. planned \in Nat
  BY OptionsAssumption, PlannedTyped
<1>4. JointBuilds = InteractionRuns * (2 + most) + ConfirmationRuns
  BY JointBuildsTyped
<1>5. ordinal - 1 <= ControlRuns + planned + n + InteractionRuns * verdicts
  BY DEF Spending
<1> HIDE DEF most, planned, verdicts, n
<1>6. InteractionRuns * verdicts <= InteractionRuns * (1 + most)
  <2>1. InteractionRuns * (1 + most - verdicts) >= 0
    BY <1>1, <1>2
  <2> QED
    BY <1>1, <1>2, <2>1
<1>7. InteractionRuns * (2 + most) = InteractionRuns * (1 + most) + InteractionRuns
  BY <1>1, <1>2
<1>8. InteractionRuns * (1 + most) \in Nat /\ InteractionRuns * verdicts \in Nat
  BY <1>1, <1>2
<1>9. ordinal - 1 + ConfirmationRuns <= ControlRuns + planned + JointBuilds
  BY <1>1, <1>3, <1>4, <1>5, <1>6, <1>7, <1>8
<1> QED
  BY <1>9 DEF planned

\* More candidates never need fewer calls.
LEMMA MostTestsMonotone ==
    ASSUME NEW n \in Nat, NEW m \in Nat, 2 <= n, n <= m
    PROVE  DP!MostTests(n) <= DP!MostTests(m)
<1>1. DP!MostTests(n) = n * n + 5 * n - 10 /\ DP!MostTests(m) = m * m + 5 * m - 10
  BY DEF DP!MostTests
<1>2. n * n <= m * m
  <2>1. n * (m - n) >= 0 /\ m * (m - n) >= 0
    OBVIOUS
  <2>2. n * (m - n) = n * m - n * n /\ m * (m - n) = m * m - n * m
    OBVIOUS
  <2>3. n * m \in Nat /\ n * n \in Nat /\ m * m \in Nat
    OBVIOUS
  <2> QED
    BY <2>1, <2>2, <2>3
<1>3. n * n \in Nat /\ m * m \in Nat
  OBVIOUS
<1> QED
  BY <1>1, <1>2, <1>3

LEMMA CallsStart ==
    ASSUME CheckInv, FullReproduces
    PROVE  /\ DP!CallsWithin(DP!MostTests(MaxInteractionVariables))'
           /\ tests' = 0 /\ phase' = "subsets"
<1> DEFINE n == Cardinality(Eligible)
           most == DP!MostTests(MaxInteractionVariables)
<1>1. /\ n \in 2..MaxInteractionVariables /\ MaxInteractionVariables \in Nat
      /\ tests = 0 /\ index = 0
  BY OptionsAssumption DEF CheckInv, StageOrder, FullReproduces, SearchWanted
<1>2. Len(current') = n
  BY CandidatesTyped DEF FullReproduces, CheckInv
<1> HIDE DEF n
<1>3. n \in Nat /\ n >= 2 /\ n <= MaxInteractionVariables
  BY <1>1
<1>4. /\ granularity' = DP!Least(2, n) /\ index' = 0 /\ tests' = 0
      /\ phase' = "subsets"
  BY <1>1, <1>2, <1>3 DEF FullReproduces, D!Least, DP!Least, D!LoopPhase
<1>5. /\ DP!CallsLeft(n, DP!Least(2, n)) <= DP!MostTests(n)
      /\ DP!MostTests(n) \in Nat /\ most \in Nat
      /\ DP!MostTests(n) <= most
  BY <1>3, <1>1, DP!CallsAtStart, DP!MostTestsTyped, MostTestsMonotone
<1>6. DP!CallsLeft(n, DP!Least(2, n)) \in Int
  BY <1>3 DEF DP!CallsLeft, DP!Least
<1> HIDE DEF most
<1>7. 0 + DP!CallsLeft(n, DP!Least(2, n)) <= most + 0 + 0
  BY <1>5, <1>6
<1>8. DP!CallsWithin(most)'
  BY <1>2, <1>4, <1>7 DEF DP!CallsWithin, DP!Searching, most
<1> QED
  BY <1>4, <1>8 DEF most

\* A verdict, or an error in its place, is one call.
LEMMA CallsKept ==
    ASSUME CheckInv, Spending, D!Next, phase # "idle"
    PROVE  DP!CallsWithin(DP!MostTests(MaxInteractionVariables))' /\ tests' = tests + 1
<1>1. DP!MostTests(MaxInteractionVariables) \in Nat
  BY JointBuildsTyped
<1>2. D!SearchInv /\ DP!CallsWithin(DP!MostTests(MaxInteractionVariables))
  BY DEF CheckInv, StageOrder, Spending
<1>3. DP!SearchInv /\ [DP!Next]_DP!vars
  BY <1>2, SameSearchInv, SameSteps
<1>4. DP!CallsWithin(DP!MostTests(MaxInteractionVariables))'
  BY <1>1, <1>2, <1>3, DP!CallsStep
<1>5. tests' = tests + 1
  BY DEF D!Next, D!KeepSubset, D!KeepComplement, D!ReduceTo, D!NextPart,
         D!SubsetsExhausted, D!Refine, D!Finish, D!PredicateError, D!Refute
<1> QED
  BY <1>4, <1>5

\* A finished intervention leaves what was planned for it behind.
LEMMA ConcludedSpends ==
    ASSUME CheckInv, Spending, Probing, ~TrialsLeft,
           NEW reverted \in Option, NEW failed \in BOOLEAN,
           Concluded(reverted, failed),
           \/ ordinal' = ordinal
           \/ ordinal' = ordinal + 1 /\ ConfirmationRuns = 1
    PROVE  Spending'
<1>1. /\ TypeOK /\ ProbeShape /\ pc = "sweep" /\ Len(results) + 1 <= Len(Plan)
      /\ Len(results) \in Nat /\ ordinal \in Nat /\ Len(controls) \in Nat
      /\ Len(references) \in Nat /\ Trials \in Nat
      /\ ConfirmationRuns \in Nat /\ phase = "idle"
  BY OptionsAssumption
     DEF CheckInv, TypeOK, ProbeShape, Probing, StageOrder, Trials
<1>2. Len(results') = Len(results) + 1
  BY <1>1 DEF Concluded, TypeOK
<1>3. /\ references' = <<>> /\ variants' = <<>> /\ failures' = <<>> /\ ~error'
      /\ UNCHANGED <<pc, controls, batch, phase>>
  BY DEF Concluded, searchVars, ddminVars
<1> DEFINE e == IF error THEN 1 ELSE 0
           P(n) == PlannedBuilds[n]
<1>4. P(Len(results) + 1) = P(Len(results)) + ProbeBuilds(Kind)
  BY <1>1, PlannedSteps DEF Kind
<1>5. P(Len(results)) \in Nat /\ ProbeBuilds(Kind) \in Nat
  <2>1. Len(results) <= Len(Plan)
    BY <1>1 DEF ProbeShape
  <2> QED
    BY <1>1, <2>1, PlannedTyped, ProbeBuildsTyped
<1>6. /\ Len(references) + Trials + e + ConfirmationRuns <= ProbeBuilds(Kind)
      /\ e \in Nat
  BY <1>1, ProbeWithinPlan
<1>7. ordinal - 1 <= Len(controls) + P(Len(results)) + Len(references) + Trials + e
  BY <1>1 DEF Spending
<1> HIDE DEF P, e
<1>8. ordinal' - 1 <= Len(controls) + P(Len(results) + 1)
  BY <1>1, <1>4, <1>5, <1>6, <1>7
<1>9. ordinal' - 1 <= Len(controls') + PlannedBuilds[Len(results')]
                         + Len(references') + Trials' + (IF error' THEN 1 ELSE 0)
  <2>1. Len(references') = 0 /\ Trials' = 0 /\ (IF error' THEN 1 ELSE 0) = 0
    BY <1>3 DEF Trials
  <2>2. P(Len(results) + 1) = PlannedBuilds[Len(results')]
    BY <1>2 DEF P
  <2>3. P(Len(results) + 1) \in Nat
    BY <1>4, <1>5
  <2> QED
    BY <1>1, <1>3, <1>8, <2>1, <2>2, <2>3
<1> QED
  BY <1>1, <1>3, <1>9 DEF Spending

LEMMA SpendingStep == CheckInv /\ Spending /\ [Next]_vars => Spending'
<1> SUFFICES ASSUME CheckInv, Spending, [Next]_vars PROVE Spending'
  OBVIOUS
<1>t. /\ TypeOK /\ ProbeShape /\ StageOrder /\ ordinal \in Nat
      /\ controls \in Seq(Artifacts) /\ references \in Seq(Artifacts)
      /\ variants \in Seq(Artifacts) /\ failures \in Seq(ExitCodes)
      /\ batch \in Seq(Artifacts)
      /\ Len(controls) \in Nat /\ Len(references) \in Nat /\ Len(variants) \in Nat
      /\ Len(failures) \in Nat /\ Trials \in Nat
  BY DEF CheckInv, TypeOK, Trials
<1>o. /\ ControlRuns \in Nat /\ InteractionRuns \in Nat /\ ConfirmationRuns \in Nat
      /\ JointBuilds \in Nat
  BY OptionsAssumption, JointBuildsTyped
<1>s. Len(controls) <= ControlRuns /\ Len(batch) <= InteractionRuns
  BY DEF Spending
<1>p. PlannedBuilds[Len(Plan)] \in Nat /\ PlannedBuilds[Len(results)] \in Nat
  <2>1. Len(results) \in Nat /\ Len(results) <= Len(Plan) /\ Len(Plan) \in Nat
    BY <1>t, OptionsAssumption DEF TypeOK
  <2> QED
    BY <2>1, PlannedTyped
<1>a. Trials' = Len(variants') + Len(failures')
  BY DEF Trials
<1>d. ASSUME UNCHANGED ddminVars
      PROVE  /\ (phase # "idle"
                   => DP!CallsWithin(DP!MostTests(MaxInteractionVariables)))'
             /\ tests' = tests
  BY <1>d DEF Spending, ddminVars, DP!CallsWithin, DP!Searching
\* A step that ends in a stage after the search.
<1>r. ASSUME BuildBudget', Len(controls') <= ControlRuns, batch' = <<>>,
             pc' \in {"report", "done", "aborted"},
             (phase # "idle" => DP!CallsWithin(DP!MostTests(MaxInteractionVariables)))'
      PROVE  Spending'
  <2>1. Len(batch') = 0
    BY <1>r
  <2> QED
    BY <1>o, <1>r, <2>1 DEF Spending, Probing
<1>b. ASSUME BuildBudget, ordinal' = ordinal PROVE BuildBudget'
  BY <1>b DEF BuildBudget
\* A build of the sweep.
<1>w. ASSUME UNCHANGED <<pc, controls, results, batch, ddminVars>>, pc = "sweep",
             Probing, ~error, ordinal' = ordinal + 1,
             Len(references') \in Nat, Trials' \in Nat,
             Len(references') + Trials' + (IF error' THEN 1 ELSE 0)
                = Len(references) + Trials + 1,
             error' => Trials' < RunCount(Kind)
      PROVE  Spending'
  <2> DEFINE e == IF error' THEN 1 ELSE 0
  <2>1. Kind' = Kind
    BY <1>w DEF Kind
  <2>2. ordinal - 1 <= Len(controls) + PlannedBuilds[Len(results)]
                          + Len(references) + Trials + 0
    BY <1>w DEF Spending
  <2>3. e \in Nat /\ Len(references') + Trials' + e = Len(references) + Trials + 1
    BY <1>w
  <2> HIDE DEF e
  <2> DEFINE sum == Len(references) + Trials
             sum1 == Len(references') + Trials'
             base == Len(controls) + PlannedBuilds[Len(results)]
  <2>4. sum \in Nat /\ base \in Nat /\ ordinal - 1 <= base + sum
    <3> HIDE DEF base
    <3>1. ordinal - 1 <= Len(controls) + PlannedBuilds[Len(results)] + sum
      BY <1>p, <1>t, <2>2
    <3>2. base \in Nat
      BY <1>p, <1>t DEF base
    <3> QED
      BY <1>t, <3>1, <3>2 DEF base
  <2>8. sum1 \in Nat /\ sum1 + e = sum + 1 /\ ordinal' = ordinal + 1
    <3>1. Len(references') \in Nat /\ Trials' \in Nat /\ ordinal' = ordinal + 1
      BY <1>w
    <3> QED
      BY <2>3, <3>1
  <2> HIDE DEF sum, sum1, base
  <2>6. ordinal' - 1 <= base + sum1 + e
    BY <1>t, <2>3, <2>4, <2>8
  <2>7. ordinal' - 1 <= Len(controls) + PlannedBuilds[Len(results)]
                           + Len(references') + Trials' + e
    <3>1. Len(references') \in Nat /\ Trials' \in Nat
      BY <1>w
    <3> QED
      BY <1>p, <1>t, <2>3, <2>6, <3>1 DEF base, sum1
  <2>5. RunCount(Kind)' = RunCount(Kind)
    BY <2>1 DEF RunCount
  <2> QED
    BY <1>d, <1>s, <1>w, <2>5, <2>7 DEF Spending, e
<1>1. CASE ControlBuild
  <2>1. PICK a \in yields : controls' = Append(controls, a)
    BY <1>1 DEF ControlBuild
  <2>2. /\ Len(controls') = Len(controls) + 1 /\ Len(controls) < ControlRuns
        /\ pc = "control" /\ ordinal' = ordinal + 1
        /\ UNCHANGED <<pc, references, variants, failures, error, results, batch,
                       ddminVars>>
    BY <1>1, <1>t, <2>1 DEF ControlBuild, Recorded, probeVars, searchVars
  <2> DEFINE e == IF error THEN 1 ELSE 0
  <2>3. e \in Nat /\ Trials' = Trials
    BY <2>2 DEF Trials
  <2>4. ordinal - 1 <= Len(controls) + PlannedBuilds[Len(results)]
                          + Len(references) + Trials + e
    BY <2>2 DEF Spending
  <2> HIDE DEF e
  <2>5. ordinal' - 1 <= Len(controls') + PlannedBuilds[Len(results)]
                           + Len(references) + Trials + e
    BY <1>p, <1>t, <2>2, <2>3, <2>4
  <2>6. Len(controls') <= ControlRuns
    BY <1>o, <1>t, <2>2
  <2> QED
    BY <1>d, <1>s, <2>2, <2>3, <2>5, <2>6 DEF Spending, Probing, e
<1>2. CASE ControlsCompared
  <2>1. /\ pc = "control" /\ pc' \in {"sweep", "report"} /\ ordinal' = ordinal
        /\ UNCHANGED <<controls, references, variants, failures, error, results,
                       batch, ddminVars>>
    BY <1>2 DEF ControlsCompared, evidenceVars, probeVars, searchVars
  <2>2. ~error /\ batch = <<>> /\ Trials' = Trials
    BY <1>t, <2>1 DEF ProbeShape, StageOrder, Trials
  <2>3. CASE pc' = "sweep"
    BY <1>d, <2>1, <2>2, <2>3 DEF Spending
  <2>4. CASE pc' = "report"
    BY <1>b, <1>d, <1>r, <1>s, <2>1, <2>2, <2>4, SweepWithinBudget
  <2> QED
    BY <2>1, <2>3, <2>4
<1>3. CASE ReferenceBuild
  <2>1. PICK a \in yields : references' = Append(references, a)
    BY <1>3 DEF ReferenceBuild
  <2>2. /\ Probing /\ pc = "sweep" /\ ~error /\ ordinal' = ordinal + 1
        /\ UNCHANGED <<pc, controls, variants, failures, error, results, batch,
                       ddminVars>>
    BY <1>3 DEF ReferenceBuild, Probing, TrialsLeft, Recorded, searchVars
  <2>3. Len(references') = Len(references) + 1 /\ Trials' = Trials
    BY <1>t, <2>1, <2>2 DEF Trials
  <2> QED
    BY <1>t, <1>w, <2>2, <2>3
<1>4. CASE VariantBuild
  <2>1. PICK a \in yields : variants' = Append(variants, a)
    BY <1>4 DEF VariantBuild
  <2>2. /\ Probing /\ pc = "sweep" /\ ~error /\ ordinal' = ordinal + 1
        /\ UNCHANGED <<pc, controls, references, failures, error, results, batch,
                       ddminVars>>
    BY <1>4 DEF VariantBuild, Probing, TrialsLeft, Recorded, searchVars
  <2>3. Trials' = Trials + 1
    BY <1>a, <1>t, <2>1, <2>2 DEF Trials
  <2> QED
    BY <1>t, <1>w, <2>2, <2>3
<1>5. CASE VariantFailure
  <2>1. PICK code \in ExitCodes : failures' = Append(failures, code)
    BY <1>5 DEF VariantFailure
  <2>2. /\ Probing /\ pc = "sweep" /\ ~error /\ ordinal' = ordinal + 1
        /\ UNCHANGED <<pc, controls, references, variants, error, results, batch,
                       ddminVars>>
    BY <1>5 DEF VariantFailure, Probing, TrialsLeft, searchVars
  <2>3. Trials' = Trials + 1
    BY <1>a, <1>t, <2>1, <2>2 DEF Trials
  <2> QED
    BY <1>t, <1>w, <2>2, <2>3
<1>6. CASE TrialError
  <2>1. /\ Probing /\ pc = "sweep" /\ ~error /\ error' /\ ordinal' = ordinal + 1
        /\ UNCHANGED <<pc, controls, references, variants, failures, results, batch,
                       ddminVars>>
    BY <1>6 DEF TrialError, Unrecorded, Probing, TrialsLeft, searchVars
  <2>2. Trials' = Trials /\ Trials < RunCount(Kind)
    BY <1>6, <2>1 DEF Trials, TrialError, TrialsLeft
  <2> QED
    BY <1>t, <1>w, <2>1, <2>2
<1>7. CASE Unconfirmed
  BY <1>7, ConcludedSpends DEF Unconfirmed, evidenceVars, Option
<1>8. CASE ConfirmationBuild
  <2>1. PICK a \in yields :
           Recorded("reversion", a) /\ Concluded(YesNo(a = Baseline), FALSE)
    BY <1>8 DEF ConfirmationBuild
  <2>2. YesNo(a = Baseline) \in Option /\ ordinal' = ordinal + 1
    BY <2>1 DEF YesNo, Option, Recorded
  <2> QED
    BY <1>8, <2>1, <2>2, ConcludedSpends DEF ConfirmationBuild, ConfirmationDue
<1>9. CASE ConfirmationError
  BY <1>9, ConcludedSpends
     DEF ConfirmationError, Unrecorded, ConfirmationDue, Option
<1>10. CASE SweepOver
  <2>1. /\ pc = "sweep" /\ pc' \in {"full", "report"} /\ ordinal' = ordinal
        /\ batch = <<>> /\ UNCHANGED <<controls, batch, ddminVars>>
    BY <1>10, <1>t DEF SweepOver, StageOrder, evidenceVars, searchVars
  <2>2. /\ ordinal - 1 <= ControlRuns + PlannedBuilds[Len(Plan)]
        /\ BuildBudget
    BY <2>1, SweepWithinBudget
  <2>3. CASE pc' = "full"
    <3>1. Len(batch') = 0 /\ InteractionRuns * 0 = 0
      BY <1>o, <2>1
    <3>2. ordinal' - 1 <= ControlRuns + PlannedBuilds[Len(Plan)] + Len(batch')
                             + InteractionRuns * 0
      BY <1>o, <1>p, <1>t, <2>1, <2>2, <3>1
    <3> QED
      BY <1>d, <1>s, <2>1, <2>3, <3>2 DEF Spending, Probing
  <2>4. CASE pc' = "report"
    BY <1>b, <1>d, <1>r, <1>s, <2>1, <2>2, <2>4
  <2> QED
    BY <2>1, <2>3, <2>4
<1>11. CASE SubsetBuild
  <2>1. PICK a \in yields : batch' = Append(batch, a)
    BY <1>11 DEF SubsetBuild
  <2>2. /\ pc \in {"full", "minimize", "final"} /\ ordinal' = ordinal + 1
        /\ Len(batch) # InteractionRuns /\ UNCHANGED <<pc, controls, ddminVars>>
    BY <1>11 DEF SubsetBuild, BatchFull, Recorded
  <2>3. Len(batch') = Len(batch) + 1 /\ Len(batch) \in Nat
    BY <1>t, <2>1
  <2> DEFINE verdicts == IF pc = "full" THEN 0 ELSE 1 + tests
             joint == InteractionRuns * verdicts
  <2>4. joint \in Nat
    <3>1. verdicts \in Nat
      BY CallsBounded
    <3> HIDE DEF verdicts
    <3> QED
      BY <1>o, <3>1
  <2>5. ordinal - 1 <= ControlRuns + PlannedBuilds[Len(Plan)] + Len(batch) + joint
    BY <2>2 DEF Spending
  <2>6. joint' = joint
    BY <1>d, <2>2
  <2> HIDE DEF joint
  <2>7. ordinal' - 1 <= ControlRuns + PlannedBuilds[Len(Plan)] + Len(batch') + joint'
    BY <1>o, <1>p, <1>t, <2>2, <2>3, <2>4, <2>5, <2>6
  <2>8. Len(batch') <= InteractionRuns
    BY <1>o, <1>s, <2>2, <2>3
  <2> QED
    BY <1>d, <1>s, <2>2, <2>7, <2>8 DEF Spending, Probing, joint
<1>12. CASE FullReproduces
  <2>1. /\ pc = "full" /\ pc' = "minimize" /\ Len(batch) = InteractionRuns
        /\ Len(batch') = 0 /\ UNCHANGED <<ordinal, controls>>
    BY <1>12 DEF FullReproduces, BatchFull, evidenceVars
  <2>2. /\ DP!CallsWithin(DP!MostTests(MaxInteractionVariables))' /\ tests' = 0
    BY <1>12, CallsStart
  <2>3. ordinal - 1 <= ControlRuns + PlannedBuilds[Len(Plan)] + Len(batch)
                          + InteractionRuns * 0
    BY <2>1 DEF Spending
  <2>4. ordinal' - 1 <= ControlRuns + PlannedBuilds[Len(Plan)] + Len(batch')
                           + InteractionRuns * (1 + tests')
    BY <1>o, <1>p, <1>t, <2>1, <2>2, <2>3
  <2> QED
    BY <1>o, <1>s, <2>1, <2>2, <2>4 DEF Spending, Probing
<1>m. ASSUME pc \in {"full", "minimize", "final"},
             ordinal' = ordinal \/ (ordinal' = ordinal + 1 /\ ConfirmationRuns = 1)
      PROVE  BuildBudget'
  <2>1. ordinal - 1 + ConfirmationRuns
           <= ControlRuns + PlannedBuilds[Len(Plan)] + JointBuilds
    BY <1>m, SearchWithinBudget
  <2>2. ordinal' - 1 <= ControlRuns + PlannedBuilds[Len(Plan)] + JointBuilds
    BY <1>m, <1>o, <1>p, <1>t, <2>1
  <2> QED
    BY <2>2 DEF BuildBudget
<1>13. CASE FullDoesNotReproduce
  BY <1>13, <1>d, <1>m, <1>r, <1>s DEF FullDoesNotReproduce, evidenceVars
<1>14. CASE SubsetVerdict
  <2>1. /\ pc = "minimize" /\ pc' \in {"minimize", "final"} /\ batch' = <<>>
        /\ Len(batch) = InteractionRuns /\ D!Next /\ phase # "idle"
        /\ UNCHANGED <<ordinal, controls>>
    BY <1>14, <1>t DEF SubsetVerdict, BatchFull, StageOrder, D!Next, evidenceVars
  <2>2. /\ DP!CallsWithin(DP!MostTests(MaxInteractionVariables))'
        /\ tests' = tests + 1 /\ tests \in Nat /\ Len(batch') = 0
    BY <2>1, CallsKept, CallsBounded
  <2>3. ordinal - 1 <= ControlRuns + PlannedBuilds[Len(Plan)] + Len(batch)
                          + InteractionRuns * (1 + tests)
    BY <2>1 DEF Spending
  <2>4. /\ InteractionRuns * (1 + tests') = InteractionRuns * (1 + tests) + InteractionRuns
        /\ InteractionRuns * (1 + tests) \in Nat
    BY <1>o, <2>2
  <2>5. ordinal' - 1 <= ControlRuns + PlannedBuilds[Len(Plan)] + Len(batch')
                           + InteractionRuns * (1 + tests')
    BY <1>o, <1>p, <1>t, <2>1, <2>2, <2>3, <2>4
  <2> QED
    BY <1>o, <1>s, <2>1, <2>2, <2>5 DEF Spending, Probing
<1>15. CASE FinalWithoutReversion
  BY <1>15, <1>d, <1>m, <1>r, <1>s
     DEF FinalWithoutReversion, SearchEnds, evidenceVars
<1>16. CASE InteractionReversion
  <2>1. /\ pc = "final" /\ pc' = "report" /\ batch' = <<>> /\ ordinal' = ordinal + 1
        /\ ConfirmationRuns = 1 /\ UNCHANGED <<controls, ddminVars>>
    BY <1>16 DEF InteractionReversion, SearchEnds, RevertInteraction, Recorded
  <2> QED
    BY <1>d, <1>m, <1>r, <1>s, <2>1
<1>17. CASE SearchError
  <2>1. /\ pc \in {"full", "minimize", "final"} /\ pc' = "report" /\ batch' = <<>>
        /\ UNCHANGED <<ordinal, controls>>
    BY <1>17 DEF SearchError, evidenceVars
  <2>2. (phase # "idle" => DP!CallsWithin(DP!MostTests(MaxInteractionVariables)))'
    <3>1. CASE pc = "minimize"
      <4>1. D!Next /\ phase # "idle"
        BY <1>17, <1>t, <3>1 DEF SearchError, StageOrder, D!Next
      <4> QED
        BY <4>1, CallsKept
    <3>2. CASE pc # "minimize"
      BY <1>17, <1>d, <3>2 DEF SearchError
    <3> QED
      BY <3>1, <3>2
  <2> QED
    BY <1>m, <1>r, <1>s, <2>1, <2>2
<1>18. CASE Report
  BY <1>18, <1>b, <1>d, <1>r, <1>s, <1>t
     DEF Report, Spending, StageOrder, evidenceVars, searchVars
<1>19. CASE Abort
  <2>1. /\ pc \in {"control", "sweep", "report"} /\ pc' = "aborted" /\ batch' = <<>>
        /\ UNCHANGED <<ordinal, controls, ddminVars>>
    BY <1>19, <1>t DEF Abort, Probing, StageOrder, evidenceVars, searchVars
  <2>2. BuildBudget
    BY <2>1, SweepWithinBudget DEF Spending
  <2> QED
    BY <1>b, <1>d, <1>r, <1>s, <2>1, <2>2
<1>20. CASE Drift \/ UNCHANGED vars
  <2>1. UNCHANGED <<pc, ordinal, controls, references, variants, failures, error,
                    results, batch, ddminVars>>
    BY <1>20 DEF Drift, vars, evidenceVars, probeVars, searchVars
  <2>2. Trials' = Trials /\ RunCount(Kind)' = RunCount(Kind) /\ Probing' = Probing
    BY <2>1 DEF Trials, Kind, RunCount, Probing
  <2> QED
    BY <1>b, <1>d, <2>1, <2>2 DEF Spending
<1> QED
  BY <1>1, <1>2, <1>3, <1>4, <1>5, <1>6, <1>7, <1>8, <1>9, <1>10, <1>11, <1>12,
     <1>13, <1>14, <1>15, <1>16, <1>17, <1>18, <1>19, <1>20
     DEF Next, Engine, Steps, Errors

\* For every plan and every choice of options: a check builds no more often than
\* its options and its plan tell before it starts (check_project, execute_intervention
\* and run_interaction_subset).
THEOREM BuildsAreBounded == Spec => []BuildBudget
<1>1. Init => Spending
  <2> SUFFICES ASSUME Init PROVE Spending
    OBVIOUS
  <2>1. /\ Len(controls) = 0 /\ Len(references) = 0 /\ Len(results) = 0 /\ Len(batch) = 0
        /\ Len(variants) = 0 /\ Len(failures) = 0 /\ ordinal = 1 /\ ~error
        /\ pc = "control" /\ phase = "idle"
    BY DEF Init
  <2>2. PlannedBuilds[Len(results)] = 0 /\ Trials = 0
    BY <2>1, PlannedSteps DEF Trials
  <2>3. 0 <= ControlRuns /\ 0 <= InteractionRuns
    BY OptionsAssumption
  <2> QED
    BY <2>1, <2>2, <2>3 DEF Spending, Probing
<1>2. CheckInv /\ Spending => BuildBudget
  <2> SUFFICES ASSUME CheckInv, Spending PROVE BuildBudget
    OBVIOUS
  <2>1. CASE pc \in {"control", "sweep"}
    BY <2>1, SweepWithinBudget
  <2>2. CASE pc \in {"full", "minimize", "final"}
    <3>1. ordinal - 1 + ConfirmationRuns
             <= ControlRuns + PlannedBuilds[Len(Plan)] + JointBuilds
      BY <2>2, SearchWithinBudget
    <3>2. /\ ordinal \in Nat /\ ConfirmationRuns \in Nat /\ ControlRuns \in Nat
          /\ JointBuilds \in Nat
      BY OptionsAssumption, JointBuildsTyped DEF CheckInv, TypeOK
    <3>3. PlannedBuilds[Len(Plan)] \in Nat
      BY OptionsAssumption, PlannedTyped
    <3>4. ordinal - 1 <= ControlRuns + PlannedBuilds[Len(Plan)] + JointBuilds
      BY <3>1, <3>2, <3>3
    <3> QED
      BY <3>4 DEF BuildBudget
  <2>3. CASE pc \in {"report", "done", "aborted"}
    BY <2>3 DEF Spending
  <2> QED
    BY <2>1, <2>2, <2>3 DEF CheckInv, TypeOK
<1> QED
  BY <1>1, <1>2, SpendingStep, CheckInvariant, PTL DEF Spec

-------------------------------------------------------------------------------
(***************************************************************************)
(* What the stochastic test computes, and that one changed trial is not    *)
(* significant.                                                            *)
(***************************************************************************)

\* The recursive definition of the factorials has a solution.
LEMMA FactorialUnfolds ==
    factorial = [n \in Nat |-> IF n = 0 THEN 1 ELSE n * factorial[n - 1]]
<1> DEFINE Solves(g, N) == g = [n \in 0..N |-> IF n = 0 THEN 1 ELSE n * g[n - 1]]
           S == {N \in Nat : \E g : Solves(g, N)}
           pick(N) == CHOOSE g : Solves(g, N)
           F == [n \in Nat |-> pick(n)[n]]
<1>1. 0 \in S
  <2> DEFINE g == [n \in 0..0 |-> 1]
  <2>1. Solves(g, 0)
    OBVIOUS
  <2> QED
    BY <2>1
<1>2. ASSUME NEW N \in Nat, N \in S
      PROVE  N + 1 \in S
  <2>1. PICK g : Solves(g, N)
    BY <1>2
  <2> DEFINE h == [n \in 0..(N + 1) |-> IF n = N + 1 THEN (N + 1) * g[N] ELSE g[n]]
  <2>2. ASSUME NEW n \in 0..(N + 1)
        PROVE  h[n] = IF n = 0 THEN 1 ELSE n * h[n - 1]
    <3>1. CASE n = N + 1
      <4>1. h[n] = n * g[N] /\ n - 1 = N /\ n # 0 /\ h[N] = g[N]
        BY <1>2, <3>1
      <4> QED
        BY <4>1
    <3>2. CASE n = 0
      <4>1. h[n] = g[0] /\ g[0] = 1
        BY <1>2, <2>1, <3>2
      <4> QED
        BY <4>1, <3>2
    <3>3. CASE n \in 1..N
      <4>1. n \in 0..N /\ n # 0 /\ n # N + 1 /\ n - 1 \in 0..(N + 1) /\ n - 1 # N + 1
        BY <1>2, <3>3
      <4>2. h[n] = g[n] /\ h[n - 1] = g[n - 1]
        BY <1>2, <4>1
      <4>3. g[n] = n * g[n - 1]
        BY <2>1, <4>1
      <4> QED
        BY <4>1, <4>2, <4>3
    <3> QED
      BY <1>2, <3>1, <3>2, <3>3
  <2>3. Solves(h, N + 1)
    <3>1. h = [n \in 0..(N + 1) |-> h[n]]
      OBVIOUS
    <3> HIDE DEF h
    <3> QED
      BY <2>2, <3>1
  <2>4. N + 1 \in Nat /\ \E f : Solves(f, N + 1)
    <3> HIDE DEF h, Solves
    <3> QED
      BY <1>2, <2>3
  <2> QED
    BY <2>4
<1>3. \A N \in Nat : Solves(pick(N), N)
  <2>1. Nat \subseteq S
    <3> HIDE DEF S
    <3> QED
      BY <1>1, <1>2, DP!NatSetInduction
  <2> HIDE DEF Solves
  <2> QED
    BY <2>1
<1> HIDE DEF pick, S
<1>4. \A N \in Nat : \A n \in 0..N :
         pick(N)[n] = IF n = 0 THEN 1 ELSE n * pick(N)[n - 1]
  BY <1>3
<1>5. ASSUME NEW N \in Nat
      PROVE  \A n \in Nat : n <= N => pick(N)[n] = pick(N + 1)[n]
  <2> DEFINE T == {n \in Nat : n <= N => pick(N)[n] = pick(N + 1)[n]}
  <2>1. 0 \in T
    <3>1. 0 \in 0..N /\ 0 \in 0..(N + 1) /\ N + 1 \in Nat
      BY <1>5
    <3>2. pick(N)[0] = 1 /\ pick(N + 1)[0] = 1
      BY <1>4, <3>1
    <3> QED
      BY <3>2
  <2>2. ASSUME NEW n \in Nat, n \in T
        PROVE  n + 1 \in T
    <3> SUFFICES ASSUME n + 1 <= N PROVE pick(N)[n + 1] = pick(N + 1)[n + 1]
      BY <2>2
    <3>1. /\ n + 1 \in 0..N /\ n + 1 \in 0..(N + 1) /\ N + 1 \in Nat
          /\ n + 1 # 0 /\ n + 1 - 1 = n /\ n <= N
      BY <1>5, <2>2
    <3>2. pick(N)[n + 1] = (n + 1) * pick(N)[n]
      BY <1>4, <3>1
    <3>3. pick(N + 1)[n + 1] = (n + 1) * pick(N + 1)[n]
      BY <1>4, <3>1
    <3>4. pick(N)[n] = pick(N + 1)[n]
      BY <2>2, <3>1
    <3> QED
      BY <3>2, <3>3, <3>4
  <2>3. Nat \subseteq T
    <3> HIDE DEF T
    <3> QED
      BY <2>1, <2>2, DP!NatSetInduction
  <2> QED
    BY <2>3
<1>6. ASSUME NEW n \in Nat
      PROVE  F[n] = IF n = 0 THEN 1 ELSE n * F[n - 1]
  <2>1. CASE n = 0
    <3>1. F[0] = pick(0)[0] /\ pick(0)[0] = 1
      BY <1>4
    <3> QED
      BY <2>1, <3>1
  <2>2. CASE n # 0
    <3>1. n - 1 \in Nat /\ n - 1 <= n - 1 /\ n - 1 + 1 = n /\ n \in 0..n
      BY <2>2
    <3>2. F[n] = pick(n)[n] /\ F[n - 1] = pick(n - 1)[n - 1]
      BY <3>1
    <3>3. pick(n)[n] = n * pick(n)[n - 1]
      BY <1>4, <2>2, <3>1
    <3>4. pick(n - 1)[n - 1] = pick(n)[n - 1]
      BY <1>5, <3>1
    <3> HIDE DEF F
    <3> QED
      BY <2>2, <3>2, <3>3, <3>4
  <2> QED
    BY <2>1, <2>2
<1>7. F = [n \in Nat |-> IF n = 0 THEN 1 ELSE n * F[n - 1]]
  <2>1. F = [n \in Nat |-> F[n]]
    OBVIOUS
  <2> HIDE DEF F
  <2> QED
    BY <1>6, <2>1
<1>8. \E f : f = [n \in Nat |-> IF n = 0 THEN 1 ELSE n * f[n - 1]]
  <2> HIDE DEF F
  <2> QED
    BY <1>7
<1> QED
  BY <1>8 DEF factorial

LEMMA FactorialSteps ==
    /\ factorial[0] = 1
    /\ \A n \in Nat : factorial[n + 1] = (n + 1) * factorial[n]
<1> DEFINE f == factorial
           F(n) == IF n = 0 THEN 1 ELSE n * f[n - 1]
<1>1. f = [n \in Nat |-> F(n)]
  BY FactorialUnfolds
<1> HIDE DEF f, F
<1>2. \A n \in Nat : f[n] = F(n)
  BY <1>1
<1>3. f[0] = 1
  BY <1>2 DEF F
<1>4. ASSUME NEW n \in Nat
      PROVE  f[n + 1] = (n + 1) * f[n]
  <2>1. n + 1 \in Nat /\ n + 1 # 0 /\ n + 1 - 1 = n
    OBVIOUS
  <2>2. f[n + 1] = (n + 1) * f[n + 1 - 1]
    BY <1>2, <2>1 DEF F
  <2> QED
    BY <2>1, <2>2
<1> QED
  BY <1>3, <1>4 DEF f

LEMMA FactorialTyped == \A n \in Nat : factorial[n] \in Nat \ {0}
<1> DEFINE S == {n \in Nat : factorial[n] \in Nat \ {0}}
<1>1. 0 \in S
  BY FactorialSteps
<1>2. ASSUME NEW n \in Nat, n \in S
      PROVE  n + 1 \in S
  <2> DEFINE f == factorial[n]
  <2>1. f \in Nat /\ f > 0 /\ factorial[n + 1] = (n + 1) * f
    BY <1>2, FactorialSteps
  <2> HIDE DEF f
  <2>2. (n + 1) * f \in Nat /\ (n + 1) * f # 0
    BY <2>1
  <2> QED
    BY <2>1, <2>2
<1>3. Nat \subseteq S
  <2> HIDE DEF S
  <2> QED
    BY <1>1, <1>2, DP!NatSetInduction
<1> QED
  BY <1>3

LEMMA ExactQuotient ==
    ASSUME NEW n \in Nat, NEW f \in Nat \ {0}
    PROVE  (n * f) \div f = n
<1> DEFINE q == (n * f) \div f
           d == n - q
<1>1. q \in Int /\ f * q <= n * f /\ n * f < f * q + f
  OBVIOUS
<1> HIDE DEF q
<1>2. f * d = n * f - f * q /\ d \in Int
  BY <1>1
<1>3. 0 <= f * d /\ f * d < f
  BY <1>1, <1>2
<1> HIDE DEF d
<1>4. d = 0
  <2>1. d >= 1 => f * d >= f
    BY <1>2
  <2>2. d <= 0 - 1 => f * d <= 0 - f
    BY <1>2
  <2> QED
    BY <1>2, <1>3, <2>1, <2>2
<1> QED
  BY <1>1, <1>4 DEF d, q

\* n ways to choose one of n, one way to choose none.
LEMMA ChooseFew ==
    ASSUME NEW n \in Nat \ {0}
    PROVE  choose(n, 1) = n /\ choose(n, 0) = 1
<1> DEFINE f == factorial[n - 1]
           g == factorial[n]
<1>1. n - 1 \in Nat /\ n - 1 + 1 = n /\ n - 0 = n
  OBVIOUS
<1>2. f \in Nat \ {0} /\ g \in Nat \ {0} /\ g = n * f
  <2>1. factorial[n - 1 + 1] = (n - 1 + 1) * factorial[n - 1]
    BY <1>1, FactorialSteps
  <2> QED
    BY <1>1, <2>1, FactorialTyped
<1>3. factorial[0] = 1 /\ factorial[1] = 1
  <2>1. factorial[0 + 1] = (0 + 1) * factorial[0]
    BY FactorialSteps
  <2> QED
    BY <2>1, FactorialSteps
<1>4. choose(n, 1) = g \div (1 * f) /\ choose(n, 0) = g \div (1 * g)
  BY <1>1, <1>3 DEF choose
<1> HIDE DEF f, g
<1>5. 1 * f = f /\ 1 * g = g
  BY <1>2
<1>6. choose(n, 1) = (n * f) \div f
  BY <1>2, <1>4, <1>5
<1>7. choose(n, 0) = (1 * g) \div g
  BY <1>2, <1>4, <1>5
<1> QED
  BY <1>2, <1>6, <1>7, ExactQuotient

\* The ways to choose k of the numbers up to n.
Chosen(k, n) == kSubset(k, 1..n)

\* Those without n + 1 and those with it.
LEMMA ChosenSplit ==
    ASSUME NEW n \in Nat, NEW k \in Nat \ {0}, IsFiniteSet(Chosen(k, n)),
           IsFiniteSet(Chosen(k - 1, n))
    PROVE  /\ IsFiniteSet(Chosen(k, n + 1))
           /\ Cardinality(Chosen(k, n + 1))
                 = Cardinality(Chosen(k, n)) + Cardinality(Chosen(k - 1, n))
<1> DEFINE old == Chosen(k, n)
           less == Chosen(k - 1, n)
           with(p) == p \cup {n + 1}
           new == {with(p) : p \in less}
           f == [p \in less |-> with(p)]
<1>0. n + 1 \in 1..(n + 1) /\ n + 1 \notin 1..n /\ 1..(n + 1) = (1..n) \cup {n + 1}
  OBVIOUS
<1>1. \A p \in SUBSET (1..n) : IsFiniteSet(p) /\ n + 1 \notin p
  <2>1. IsFiniteSet(1..n)
    BY FS_Interval
  <2> QED
    BY <1>0, <2>1, FS_Subset
<1>2. \A p \in less : /\ p \subseteq 1..n /\ IsFiniteSet(p) /\ n + 1 \notin p
                      /\ Cardinality(p) = k - 1
                      /\ with(p) \in SUBSET (1..(n + 1)) /\ Cardinality(with(p)) = k
  <2> TAKE p \in less
  <2>1. p \subseteq 1..n /\ IsFiniteSet(p) /\ n + 1 \notin p /\ Cardinality(p) = k - 1
    BY <1>1 DEF Chosen, kSubset
  <2>2. Cardinality(p \cup {n + 1}) = Cardinality(p) + 1
    BY <2>1, FS_AddElement
  <2>3. (k - 1) + 1 = k
    OBVIOUS
  <2>4. Cardinality(with(p)) = k
    BY <2>1, <2>2, <2>3
  <2> QED
    BY <1>0, <2>1, <2>4
<1>3. Chosen(k, n + 1) = old \cup new
  <2>1. ASSUME NEW q \in Chosen(k, n + 1) PROVE q \in old \cup new
    <3>1. q \in SUBSET (1..(n + 1)) /\ Cardinality(q) = k
      BY DEF Chosen, kSubset
    <3>2. CASE n + 1 \notin q
      <4>1. q \in SUBSET (1..n)
        BY <1>0, <3>1, <3>2
      <4> QED
        BY <3>1, <4>1 DEF Chosen, kSubset
    <3>3. CASE n + 1 \in q
      <4> DEFINE p == q \ {n + 1}
      <4>1. IsFiniteSet(q)
        <5>1. IsFiniteSet(1..(n + 1))
          BY FS_Interval
        <5> QED
          BY <3>1, <5>1, FS_Subset
      <4>2. Cardinality(p) = k - 1
        BY <3>1, <3>3, <4>1, FS_RemoveElement
      <4>3. p \in SUBSET (1..n) /\ q = with(p)
        BY <1>0, <3>1, <3>3
      <4> HIDE DEF p
      <4>4. p \in less
        BY <4>2, <4>3 DEF Chosen, kSubset
      <4> QED
        BY <4>3, <4>4
    <3> QED
      BY <3>2, <3>3
  <2>2. ASSUME NEW q \in old PROVE q \in Chosen(k, n + 1)
    BY <1>0 DEF Chosen, kSubset
  <2>3. ASSUME NEW q \in new PROVE q \in Chosen(k, n + 1)
    BY <1>2 DEF Chosen, kSubset
  <2> QED
    BY <2>1, <2>2, <2>3
<1>4. old \cap new = {}
  <2>1. \A q \in old : n + 1 \notin q
    BY <1>1 DEF Chosen, kSubset
  <2> QED
    BY <2>1
<1>5. IsFiniteSet(new) /\ Cardinality(new) = Cardinality(less)
  <2>1. f \in Bijection(less, new)
    <3>1. f \in [less -> new] /\ \A q \in new : \E p \in less : f[p] = q
      OBVIOUS
    <3>2. ASSUME NEW p \in less, NEW q \in less, f[p] = f[q] PROVE p = q
      <4>1. p = with(p) \ {n + 1} /\ q = with(q) \ {n + 1}
        BY <1>2
      <4> QED
        BY <3>2, <4>1
    <3> QED
      BY <3>1, <3>2 DEF Bijection, Injection, Surjection, IsInjective
  <2> HIDE DEF f, new, less
  <2>2. ExistsBijection(less, new)
    BY <2>1 DEF ExistsBijection
  <2> QED
    BY <2>2, FS_Bijection DEF less
<1>6. Cardinality(old \cap new) = 0
  BY <1>4, FS_EmptySet
<1>7. IsFiniteSet(old) /\ Cardinality(old) \in Nat /\ Cardinality(less) \in Nat
  BY FS_CardinalityType
<1> HIDE DEF old, new, less
<1>8. /\ IsFiniteSet(old \cup new)
      /\ Cardinality(old \cup new) = Cardinality(old) + Cardinality(new) - Cardinality(old \cap new)
  BY <1>5, <1>7, FS_Union
<1>9. Cardinality(old \cup new) = Cardinality(old) + Cardinality(less)
  BY <1>5, <1>6, <1>7, <1>8
<1>10. /\ IsFiniteSet(Chosen(k, n + 1))
       /\ Cardinality(Chosen(k, n + 1)) = Cardinality(old) + Cardinality(less)
  BY <1>3, <1>8, <1>9
<1> QED
  BY <1>10 DEF old, less

\* The recurrence of the counts, multiplied out.
LEMMA Pascal ==
    ASSUME NEW a \in Nat, NEW b \in Nat, NEW k \in Nat, NEW m \in Nat,
           NEW K \in Nat, NEW M \in Nat, NEW f \in Nat,
           a * ((k * K) * M) = f, b * (K * (m * M)) = f
    PROVE  (a + b) * ((k * K) * (m * M)) = (m + k) * f
<1>1. a * ((k * K) * (m * M)) = m * f
  BY SMTT(60)
<1>2. b * ((k * K) * (m * M)) = k * f
  BY SMTT(60)
<1> DEFINE z == (k * K) * (m * M)
<1>3. z \in Nat
  OBVIOUS
<1>4. (a + b) * z = a * z + b * z /\ (m + k) * f = m * f + k * f
  <2> HIDE DEF z
  <2> QED
    BY <1>3
<1> QED
  BY <1>1, <1>2, <1>4

\* There are n! / (k! * (n - k)!) of them.
LEMMA ChosenCounted ==
    \A n \in Nat : \A k \in 0..n :
       /\ IsFiniteSet(Chosen(k, n))
       /\ Cardinality(Chosen(k, n)) * (factorial[k] * factorial[n - k]) = factorial[n]
<1> DEFINE Counted(n) == \A k \in 0..n :
              /\ IsFiniteSet(Chosen(k, n))
              /\ Cardinality(Chosen(k, n)) * (factorial[k] * factorial[n - k]) = factorial[n]
           S == {n \in Nat : Counted(n)}
<1>e. \A n \in Nat : Chosen(0, n) = {{}}
  <2> TAKE n \in Nat
  <2>1. \A p \in SUBSET (1..n) : Cardinality(p) = 0 <=> p = {}
    <3>1. IsFiniteSet(1..n)
      BY FS_Interval
    <3>2. \A p \in SUBSET (1..n) : IsFiniteSet(p)
      BY <3>1, FS_Subset
    <3> QED
      BY <3>2, FS_EmptySet
  <2> QED
    BY <2>1 DEF Chosen, kSubset
<1>a. \A n \in Nat : Chosen(n, n) = {1..n}
  <2> TAKE n \in Nat
  <2>1. IsFiniteSet(1..n) /\ Cardinality(1..n) = n
    BY FS_Interval
  <2>2. \A p \in SUBSET (1..n) : Cardinality(p) = n <=> p = 1..n
    BY <2>1, FS_Subset
  <2> QED
    BY <2>2 DEF Chosen, kSubset
<1>s. \A x : IsFiniteSet({x}) /\ Cardinality({x}) = 1
  BY FS_Singleton
<1>f. /\ \A n \in Nat : factorial[n] \in Nat
      /\ factorial[0] = 1
      /\ \A n \in Nat : factorial[n + 1] = (n + 1) * factorial[n]
  BY FactorialTyped, FactorialSteps
<1>z. \A n \in Nat : /\ 1 * (factorial[0] * factorial[n]) = factorial[n]
                     /\ 1 * (factorial[n] * factorial[0]) = factorial[n]
  BY <1>f
<1>1. 0 \in S
  <2> SUFFICES ASSUME NEW k \in 0..0
               PROVE  /\ IsFiniteSet(Chosen(k, 0))
                      /\ Cardinality(Chosen(k, 0)) * (factorial[k] * factorial[0 - k]) = factorial[0]
    OBVIOUS
  <2>1. k = 0 /\ 0 - 0 = 0
    OBVIOUS
  <2> QED
    BY <1>e, <1>s, <1>z, <2>1
<1>2. ASSUME NEW n \in Nat, n \in S
      PROVE  n + 1 \in S
  <2> SUFFICES ASSUME NEW k \in 0..(n + 1)
               PROVE  /\ IsFiniteSet(Chosen(k, n + 1))
                      /\ Cardinality(Chosen(k, n + 1)) * (factorial[k] * factorial[(n + 1) - k])
                            = factorial[n + 1]
    OBVIOUS
  <2>1. CASE k = 0
    <3>1. (n + 1) - k = n + 1 /\ n + 1 \in Nat
      BY <2>1
    <3> QED
      BY <1>e, <1>s, <1>z, <2>1, <3>1
  <2>2. CASE k = n + 1
    <3>1. (n + 1) - k = 0 /\ n + 1 \in Nat
      BY <2>2
    <3> QED
      BY <1>a, <1>s, <1>z, <2>2, <3>1
  <2>3. CASE k \in 1..n
    <3> DEFINE h == k - 1
               m == n - k
               A == Cardinality(Chosen(k, n))
               B == Cardinality(Chosen(h, n))
    <3>1. /\ k \in 0..n /\ k \in Nat \ {0} /\ h \in 0..n /\ h \in Nat /\ m \in Nat
          /\ h + 1 = k /\ n - h = m + 1 /\ (n + 1) - k = m + 1 /\ (m + 1) + k = n + 1
      BY <2>3
    <3>2. /\ IsFiniteSet(Chosen(k, n)) /\ A * (factorial[k] * factorial[m]) = factorial[n]
      BY <1>2, <3>1
    <3>3. /\ IsFiniteSet(Chosen(h, n)) /\ B * (factorial[h] * factorial[n - h]) = factorial[n]
      <4> HIDE DEF h
      <4> QED
        BY <1>2, <3>1
    <3>4. A \in Nat /\ B \in Nat
      BY <3>2, <3>3, FS_CardinalityType
    <3>5. IsFiniteSet(Chosen(k, n + 1)) /\ Cardinality(Chosen(k, n + 1)) = A + B
      BY <3>1, <3>2, <3>3, ChosenSplit
    <3> HIDE DEF A, B, h, m
    <3>6. factorial[k] = k * factorial[h] /\ factorial[m + 1] = (m + 1) * factorial[m]
      <4>1. factorial[h + 1] = (h + 1) * factorial[h]
        BY <1>f, <3>1
      <4> QED
        BY <1>f, <3>1, <4>1
    <3>7. /\ factorial[h] \in Nat /\ factorial[m] \in Nat /\ factorial[n] \in Nat
      BY <1>f, <3>1
    <3>8. /\ A * ((k * factorial[h]) * factorial[m]) = factorial[n]
          /\ B * (factorial[h] * ((m + 1) * factorial[m])) = factorial[n]
      BY <3>1, <3>2, <3>3, <3>6
    <3>9. (A + B) * ((k * factorial[h]) * ((m + 1) * factorial[m])) = ((m + 1) + k) * factorial[n]
      <4> DEFINE H == factorial[h]
                 M == factorial[m]
                 F == factorial[n]
                 l == m + 1
      <4>1. k \in Nat /\ l \in Nat /\ H \in Nat /\ M \in Nat /\ F \in Nat
        BY <3>1, <3>7
      <4>2. A * ((k * H) * M) = F /\ B * (H * (l * M)) = F
        BY <3>8
      <4> HIDE DEF H, M, F, l
      <4>3. (A + B) * ((k * H) * (l * M)) = (l + k) * F
        BY <3>4, <4>1, <4>2, Pascal
      <4> QED
        BY <4>3 DEF H, M, F, l
    <3> QED
      BY <1>f, <3>1, <3>5, <3>6, <3>9
  <2>4. k = 0 \/ k = n + 1 \/ k \in 1..n
    OBVIOUS
  <2> QED
    BY <2>1, <2>2, <2>3, <2>4
<1>3. Nat \subseteq S
  <2> HIDE DEF S
  <2> QED
    BY <1>1, <1>2, DP!NatSetInduction
<1> QED
  BY <1>3

\* `choose` counts subsets.
LEMMA ChooseCounts ==
    ASSUME NEW n \in Nat, NEW k \in 0..n
    PROVE  /\ IsFiniteSet(Chosen(k, n))
           /\ choose(n, k) = Cardinality(Chosen(k, n)) /\ choose(n, k) \in Nat
<1> DEFINE c == Cardinality(Chosen(k, n))
           f == factorial[k] * factorial[n - k]
<1>1. IsFiniteSet(Chosen(k, n)) /\ c * f = factorial[n] /\ c \in Nat
  BY ChosenCounted, FS_CardinalityType
<1>2. f \in Nat \ {0}
  <2> DEFINE x == factorial[k]
             y == factorial[n - k]
  <2>1. k \in Nat /\ n - k \in Nat
    OBVIOUS
  <2>2. x \in Nat \ {0} /\ y \in Nat \ {0}
    BY <2>1, FactorialTyped
  <2> HIDE DEF x, y
  <2>3. x * y \in Nat \ {0}
    BY <2>2
  <2> QED
    BY <2>3 DEF x, y
<1>3. choose(n, k) = (c * f) \div f
  BY <1>1 DEF choose
<1> HIDE DEF c, f
<1> QED
  BY <1>1, <1>2, <1>3, ExactQuotient DEF c

\* Without a changed baseline trial the tail is a single table: all changed trials
\* are variants.
LEMMA SingleTableTail ==
    ASSUME NEW b \in Nat, NEW c \in Nat, NEW d \in Nat
    PROVE  FisherTail(0, b, c, d) = choose(c + d, c) * choose(b, 0)
<1> DEFINE wt(x) == choose(c + d, x) * choose(0 + b, (0 + c) - x)
           pick(s) == CHOOSE x \in s : TRUE
           Sums(f) == f = [s \in SUBSET {c} |-> IF s = {} THEN 0
                                                ELSE wt(pick(s)) + f[s \ {pick(s)}]]
           sum == CHOOSE f : Sums(f)
           most == IF 0 + c <= c + d THEN 0 + c ELSE c + d
           tables == {x \in c..most : (0 + c) - x <= 0 + b}
<1>1. tables = {c}
  OBVIOUS
<1>2. wt(c) = choose(c + d, c) * choose(b, 0) /\ wt(c) \in Nat
  <2>1. 0 + b = b /\ 0 + c - c = 0 /\ c + d \in Nat /\ c \in 0..(c + d) /\ 0 \in 0..b
    OBVIOUS
  <2>2. wt(c) = choose(c + d, c) * choose(b, 0)
    BY <2>1
  <2>3. choose(c + d, c) \in Nat /\ choose(b, 0) \in Nat
    BY <2>1, ChooseCounts
  <2>4. choose(c + d, c) * choose(b, 0) \in Nat
    BY <2>3
  <2> QED
    BY <2>2, <2>4
<1>3. wt(c) \in Nat
  BY <1>2
<1>4. FisherTail(0, b, c, d) = sum[{c}]
  <2>1. FisherTail(0, b, c, d) = MapThenSumSet(wt, tables)
    BY DEF FisherTail
  <2>2. MapThenSumSet(wt, tables) = MapThenSumSet(wt, {c})
    BY <1>1
  <2>3. MapThenSumSet(wt, {c}) = sum[{c}]
    BY DEF MapThenSumSet, MapThenFoldSet
  <2> QED
    BY <2>1, <2>2, <2>3
<1> HIDE DEF wt
<1>5. \E f : Sums(f)
  <2> DEFINE g == [s \in SUBSET {c} |-> IF s = {} THEN 0 ELSE wt(c)]
  <2>1. \A s \in SUBSET {c} : g[s] = IF s = {} THEN 0
                                     ELSE wt(pick(s)) + g[s \ {pick(s)}]
    <3> SUFFICES ASSUME NEW s \in SUBSET {c}, s # {}
                 PROVE  g[s] = wt(pick(s)) + g[s \ {pick(s)}]
      OBVIOUS
    <3>1. s = {c} /\ pick(s) = c
      OBVIOUS
    <3>2. s \ {pick(s)} = {}
      BY <3>1
    <3>3. g[s] = wt(c) /\ g[{}] = 0
      OBVIOUS
    <3> HIDE DEF g, pick
    <3> QED
      BY <1>3, <3>1, <3>2, <3>3
  <2>2. g = [s \in SUBSET {c} |-> g[s]]
    OBVIOUS
  <2> HIDE DEF g, pick
  <2>3. Sums(g)
    BY <2>1, <2>2
  <2> QED
    BY <2>3
<1>6. Sums(sum)
  <2> HIDE DEF Sums
  <2> QED
    BY <1>5
<1>7. sum[{c}] = wt(c)
  <2> HIDE DEF sum
  <2>1. pick({c}) = c /\ {c} \ {c} = {} /\ {c} \in SUBSET {c} /\ {} \in SUBSET {c} /\ {c} # {}
    OBVIOUS
  <2> HIDE DEF pick
  <2>2. sum[{}] = 0
    BY <1>6, <2>1
  <2>3. sum[{c}] = wt(c) + sum[{c} \ {c}]
    BY <1>6, <2>1
  <2> QED
    BY <1>3, <2>1, <2>2, <2>3
<1> HIDE DEF tables, sum
<1>8. FisherTail(0, b, c, d) = wt(c)
  BY <1>4, <1>7
<1> QED
  BY <1>2, <1>8

\* One changed trial among n variants and n unchanged baselines has p = 1/2.
LEMMA OneChangedIsNotRare ==
    ASSUME 2 * AlphaNum < AlphaDen, NEW n \in Nat \ {0}
    PROVE  ~FisherAtMostAlpha(0, n, 1, n - 1)
<1>1. choose(n, 1) = n /\ choose(n, 0) = 1
  BY ChooseFew
<1>2. FisherTail(0, n, 1, n - 1) = n
  <2>1. n \in Nat /\ 1 \in Nat /\ n * 1 = n
    OBVIOUS
  <2>2. FisherTail(0, n, 1, n - 1) = choose(n, 1) * choose(n, 0)
    <3>1. n - 1 \in Nat /\ 1 + (n - 1) = n
      OBVIOUS
    <3>2. FisherTail(0, n, 1, n - 1) = choose(1 + (n - 1), 1) * choose(n, 0)
      BY <3>1, SingleTableTail
    <3> QED
      BY <3>1, <3>2
  <2> QED
    BY <1>1, <2>1, <2>2
<1>3. choose(((0 + n) + 1) + (n - 1), 0 + 1) = 2 * n
  <2>1. ((0 + n) + 1) + (n - 1) = 2 * n /\ 0 + 1 = 1 /\ 2 * n \in Nat \ {0}
    OBVIOUS
  <2>2. choose(2 * n, 1) = 2 * n
    BY <2>1, ChooseFew
  <2> QED
    BY <2>1, <2>2
<1>4. ~(n * AlphaDen <= AlphaNum * (2 * n))
  <2>1. AlphaNum \in Nat /\ AlphaDen \in Nat
    BY AlphaAssumption
  <2> DEFINE d == AlphaDen - 2 * AlphaNum
  <2>2. d \in Nat /\ d >= 1
    BY <2>1
  <2>3. n * d = n * AlphaDen - AlphaNum * (2 * n)
    BY <2>1
  <2>4. n * d >= 1
    <3> HIDE DEF d
    <3> QED
      BY <2>2
  <2>5. n * AlphaDen \in Int /\ AlphaNum * (2 * n) \in Int
    BY <2>1
  <2> HIDE DEF d
  <2> QED
    BY <2>3, <2>4, <2>5
<1> QED
  BY <1>2, <1>3, <1>4 DEF FisherAtMostAlpha

\* So a single changed variant supports no effect.
LEMMA OneChangedSupportsNothing ==
    ASSUME 2 * AlphaNum < AlphaDen, NEW n \in Nat \ {0}, NEW k \in 0..1
    PROVE  Classification(0, n, k, n) # "supported"
<1>1. n - 0 = n
  OBVIOUS
<1>2. CASE k = 0
  BY <1>2 DEF Classification
<1>3. CASE k = 1
  BY <1>1, <1>3, OneChangedIsNotRare DEF Classification
<1> QED
  BY <1>2, <1>3

\* The placements with all changed trials among the variants are the choices of them
\* among the variants.
LEMMA ExtremePlacements ==
    ASSUME NEW n \in Nat, NEW v \in Nat, NEW k \in 0..v
    PROVE  {p \in Chosen(k, n + v) : Cardinality(p \cap 1..v) >= k} = Chosen(k, v)
<1>1. IsFiniteSet(1..(n + v)) /\ 1..v \subseteq 1..(n + v)
  BY FS_Interval
<1>2. ASSUME NEW p \in Chosen(k, n + v), Cardinality(p \cap 1..v) >= k
      PROVE  p \in Chosen(k, v)
  <2>1. p \in SUBSET (1..(n + v)) /\ Cardinality(p) = k
    BY DEF Chosen, kSubset
  <2>2. IsFiniteSet(p)
    BY <1>1, <2>1, FS_Subset
  <2>3. /\ IsFiniteSet(p \cap 1..v) /\ Cardinality(p \cap 1..v) <= Cardinality(p)
        /\ Cardinality(p) = Cardinality(p \cap 1..v) => p = p \cap 1..v
    BY <2>2, FS_Subset
  <2>4. Cardinality(p \cap 1..v) \in Nat
    BY <2>3, FS_CardinalityType
  <2>5. p = p \cap 1..v
    BY <1>2, <2>1, <2>3, <2>4
  <2> QED
    BY <2>1, <2>5 DEF Chosen, kSubset
<1>3. ASSUME NEW p \in Chosen(k, v)
      PROVE  p \in Chosen(k, n + v) /\ Cardinality(p \cap 1..v) >= k
  <2>1. p \in SUBSET (1..v) /\ Cardinality(p) = k
    BY DEF Chosen, kSubset
  <2>2. p \cap 1..v = p /\ p \in SUBSET (1..(n + v))
    BY <1>1, <2>1, Zenon
  <2>3. k >= k
    OBVIOUS
  <2>4. p \in Chosen(k, n + v)
    BY <2>1, <2>2 DEF Chosen, kSubset
  <2> QED
    BY <2>1, <2>2, <2>3, <2>4
<1> QED
  BY <1>2, <1>3

\* What the test computes is the share of placements that are as extreme.
LEMMA ClassificationCounts ==
    ASSUME NEW n \in Nat \ {0}, NEW v \in Nat \ {0}, NEW k \in 1..v
    PROVE  Classification(0, n, k, v) = "supported" <=>
              Cardinality(Chosen(k, v)) * AlphaDen <= AlphaNum * Cardinality(Chosen(k, n + v))
<1>1. /\ 0 + n > 0 /\ k + (v - k) > 0 /\ v - k \in Nat /\ k \in Nat /\ k + (v - k) = v
      /\ n - 0 = n /\ 0 + k = k /\ ((0 + n) + k) + (v - k) = n + v
      /\ k \in 0..v /\ k \in 0..(n + v) /\ 0 \in 0..n /\ n + v \in Nat
  OBVIOUS
<1>2. /\ choose(v, k) = Cardinality(Chosen(k, v)) /\ choose(v, k) \in Nat
      /\ choose(n + v, k) = Cardinality(Chosen(k, n + v))
  BY <1>1, ChooseCounts
<1>3. choose(n, 0) = 1
  BY ChooseFew
<1>4. FisherTail(0, n, k, v - k) = Cardinality(Chosen(k, v))
  <2>1. FisherTail(0, n, k, v - k) = choose(v, k) * choose(n, 0)
    <3>1. FisherTail(0, n, k, v - k) = choose(k + (v - k), k) * choose(n, 0)
      BY <1>1, SingleTableTail
    <3> QED
      BY <1>1, <3>1
  <2> QED
    BY <1>2, <1>3, <2>1
<1>5. Classification(0, n, k, v) = "supported" <=> FisherAtMostAlpha(0, n, k, v - k)
  BY <1>1 DEF Classification
<1>6. FisherAtMostAlpha(0, n, k, v - k) <=>
         FisherTail(0, n, k, v - k) * AlphaDen <= AlphaNum * choose(n + v, k)
  BY <1>1 DEF FisherAtMostAlpha
<1> QED
  BY <1>2, <1>4, <1>5, <1>6

\* For every number of trials and every alpha: a completed CPU probe supports an
\* effect exactly when a variant changed, no reference did, and at most alpha of the
\* ways to place as many changed trials put them all into the variants
\* (assess_stochastic_effect, fisher_exact_greater).
THEOREM SupportedIsRare == Spec => []SupportedMeansRare
<1>1. CheckInv => SupportedMeansRare
  <2> SUFFICES ASSUME CheckInv, ProbeComplete PROVE SupportedMeansRare
    BY DEF SupportedMeansRare
  <2>0. TypeOK /\ ProbeShape /\ Probing /\ Kind = "cpu" /\ ~error /\ ~TrialsLeft
    BY DEF CheckInv, ProbeComplete
  <2> DEFINE n == RunCount(Kind)
             k == Differing(variants)
             r == Differing(references)
             rare == Cardinality(Chosen(k, n)) * AlphaDen
                        <= AlphaNum * Cardinality(Chosen(k, n + n))
  <2>1. n \in Nat \ {0}
    BY RunCountPositive
  <2>2. Len(variants) = n /\ Len(references) = n
    <3>1. failures = <<>>
      BY <2>0 DEF ProbeShape, FailureObservable
    <3>2. Len(variants) \in Nat /\ Len(references) \in Nat /\ Len(failures) = 0
      BY <2>0, <3>1 DEF TypeOK
    <3>3. Len(variants) <= n /\ ~(Len(variants) < n)
      BY <2>0, <2>1, <3>2 DEF ProbeShape, TrialsLeft
    <3>4. Len(variants) = n
      BY <2>1, <3>2, <3>3
    <3> QED
      BY <2>0, <3>3, <3>4 DEF ProbeShape
  <2>3. /\ r \in Nat /\ (r > 0 <=> AnyDiffer(references))
        /\ k \in Nat /\ (k > 0 <=> AnyDiffer(variants))
    BY <2>0, DifferingPositive DEF TypeOK
  <2>4. Effect = Classification(r, n, k, n)
    BY <2>0, <2>2 DEF Effect
  <2>5. k <= n
    <3>1. DOMAIN variants = 1..n
      BY <2>0, <2>2 DEF TypeOK
    <3> DEFINE changed == {i \in DOMAIN variants : variants[i] # Baseline}
    <3>2. IsFiniteSet(1..n) /\ Cardinality(1..n) = n
      BY <2>1, FS_Interval
    <3>3. changed \in SUBSET (1..n)
      BY <3>1
    <3> HIDE DEF changed, n
    <3>4. Cardinality(changed) <= n
      BY <3>2, <3>3, FS_Subset
    <3> QED
      BY <3>4 DEF Differing, changed
  <2> HIDE DEF n, k, r
  <2>6. Effect = "supported" <=> k > 0 /\ r = 0 /\ rare
    <3>1. CASE r > 0
      BY <2>3, <2>4, <3>1 DEF Classification
    <3>2. CASE r = 0 /\ k = 0
      BY <2>4, <3>2 DEF Classification
    <3>3. CASE r = 0 /\ k > 0
      <4>1. k \in 1..n
        BY <2>1, <2>3, <2>5, <3>3
      <4> QED
        BY <2>1, <2>4, <3>3, <4>1, ClassificationCounts
    <3> QED
      BY <2>3, <3>1, <3>2, <3>3
  <2>7. ASSUME r = 0
        PROVE  /\ kSubset(r + k, 1..(n + n)) = Chosen(k, n + n)
               /\ {p \in Chosen(k, n + n) : Cardinality(p \cap 1..n) >= k} = Chosen(k, n)
    <3>1. r + k = k
      BY <2>3, <2>7
    <3>2. k \in 0..n
      BY <2>1, <2>3, <2>5
    <3> QED
      BY <2>1, <3>1, <3>2, ExtremePlacements DEF Chosen
  <2> DEFINE placements == kSubset(r + k, 1..(n + n))
             extreme == {p \in placements : Cardinality(p \cap 1..n) >= k}
  <2>8. r = 0 => (rare <=> Cardinality(extreme) * AlphaDen <= AlphaNum * Cardinality(placements))
    BY <2>7
  <2>9. Effect = "supported" <=>
           /\ AnyDiffer(variants) /\ ~AnyDiffer(references)
           /\ Cardinality(extreme) * AlphaDen <= AlphaNum * Cardinality(placements)
    <3> HIDE DEF rare, extreme, placements
    <3> QED
      BY <2>3, <2>6, <2>8
  <2> QED
    BY <2>2, <2>9 DEF SupportedMeansRare, k, r
<1> QED
  BY <1>1, CheckInvariant, PTL

-------------------------------------------------------------------------------
(***************************************************************************)
(* A machine that changes once.                                            *)
(***************************************************************************)

\* The artifact every build yields at the moment, when it is a single one.
Now == CHOOSE y \in yields : TRUE

AllBaseline ==
    ~AnyDiffer(controls) /\ ~AnyDiffer(references) /\ ~AnyDiffer(variants)
        /\ ~AnyDiffer(batch)

\* The baseline was built before the machine changed, and until then nothing
\* differed; if it was built after, nothing ever will.
BaselineFirst ==
    controls # <<>> =>
        /\ Now # Drifted => Baseline = Now
        /\ Now = Baseline => AllBaseline

\* What the interleaving is for: a reference built after a variant that differs
\* differs too.
OnlyLastDiffers ==
    \A i \in DOMAIN references, j \in DOMAIN variants :
        j < i /\ variants[j] # Baseline => references[i] # Baseline

\* A search past its first stage sees every build differ, in the same way, and
\* shrinks to a single variable.
SearchIsVacuous ==
    pc \in {"minimize", "final"} =>
        /\ Now # Baseline
        /\ \A i \in DOMAIN batch : batch[i] = Now
        /\ phase \in {"subsets", "done"}
        /\ phase = "done" => Len(current) < 2

NothingPromoted == interaction.changed => Len(interaction.minimal) < 2

NothingSupported ==
    \A i \in DOMAIN results :
        /\ results[i].effect # "supported"
        /\ results[i].changed => results[i].reverted # "yes"

NothingJoint == \A d \in report.diagnoses : Cardinality(d.causes) = 1

OneChangeOnly ==
    Drifting => /\ BaselineFirst
                /\ OnlyLastDiffers
                /\ SearchIsVacuous
                /\ NothingPromoted
                /\ NothingSupported
                /\ NothingJoint

LEMMA DriftingYields == Drifting => yields = {Now}
  BY DEF Drifting, Now

\* Only the machine's own change alters what a build yields.
LEMMA YieldsKept ==
    ASSUME [Next]_vars
    PROVE  Drift \/ yields' = yields
BY DEF Next, Engine, Steps, Errors, vars, ControlBuild, ControlsCompared,
       ReferenceBuild, VariantBuild, VariantFailure, Unconfirmed, ConfirmationBuild,
       SweepOver, SubsetBuild, FullReproduces, FullDoesNotReproduce, SubsetVerdict,
       FinalWithoutReversion, InteractionReversion, SearchEnds, Report, TrialError,
       ConfirmationError, SearchError, Abort, Concluded

\* Builds that yield the current artifact, and finished stages, keep the order.
LEMMA BaselineFirstKept ==
    ASSUME TypeOK, BaselineFirst, Drifting, UNCHANGED <<controls, yields>>,
           references' \in {references, <<>>, Append(references, Now)},
           variants' \in {variants, <<>>, Append(variants, Now)},
           batch' \in {batch, <<>>, Append(batch, Now)}
    PROVE  BaselineFirst'
<1>1. Now' = Now /\ Baseline' = Baseline /\ controls' = controls
  BY DEF Now, Baseline
<1>2. Now \in Artifacts
  BY DriftingYields DEF TypeOK
<1>3. ASSUME NEW run \in Seq(Artifacts), NEW next \in {run, <<>>, Append(run, Now)},
             Now = Baseline, ~AnyDiffer(run)
      PROVE  ~AnyDiffer(next)
  <2>1. ~AnyDiffer(<<>>)
    BY DEF AnyDiffer
  <2>2. ~AnyDiffer(Append(run, Now))
    BY <1>2, <1>3, AppendDiffers
  <2> QED
    BY <1>3, <2>1, <2>2
<1>4. ASSUME controls # <<>>, Now = Baseline
      PROVE  AllBaseline'
  <2>1. AllBaseline
    BY <1>4 DEF BaselineFirst
  <2>2. /\ ~AnyDiffer(references') /\ ~AnyDiffer(variants') /\ ~AnyDiffer(batch')
        /\ ~AnyDiffer(controls)
    BY <1>3, <1>4, <2>1 DEF AllBaseline, TypeOK
  <2> QED
    BY <1>1, <2>2 DEF AllBaseline, AnyDiffer
<1> QED
  BY <1>1, <1>4 DEF BaselineFirst

\* A completed CPU probe under one lasting change supports no effect: without a
\* changed reference only the last variant can have changed.
LEMMA NoEffectFromDrift ==
    ASSUME 2 * AlphaNum < AlphaDen, TypeOK, ProbeShape, Probing, OnlyLastDiffers
    PROVE  Effect # "supported"
<1> SUFFICES ASSUME Kind = "cpu", Len(variants) = RunCount(Kind),
                    Len(references) = RunCount(Kind)
             PROVE  Effect # "supported"
  BY DEF Effect
<1> DEFINE n == RunCount(Kind)
           k == Differing(variants)
           r == Differing(references)
<1>1. n \in Nat \ {0}
  BY RunCountPositive
<1>2. Effect = Classification(r, n, k, n)
  BY DEF Effect
<1>3. /\ r \in Nat /\ (r > 0 <=> AnyDiffer(references))
      /\ k \in Nat
  BY DifferingPositive DEF TypeOK
<1>4. CASE r > 0
  BY <1>2, <1>4 DEF Classification
<1>5. CASE r = 0
  <2>1. DOMAIN references = 1..n /\ DOMAIN variants = 1..n
    BY DEF TypeOK
  <2>2. ~AnyDiffer(references)
    BY <1>3, <1>5
  <2>3. \A j \in 1..n : variants[j] # Baseline => j = n
    <3> SUFFICES ASSUME NEW j \in 1..n, variants[j] # Baseline, j # n PROVE FALSE
      OBVIOUS
    <3> HIDE DEF n
    <3>1. n \in 1..n /\ j < n
      BY <1>1
    <3> QED
      BY <2>1, <2>2, <3>1 DEF OnlyLastDiffers, AnyDiffer
  <2>4. {i \in DOMAIN variants : variants[i] # Baseline} \subseteq {n}
    BY <2>1, <2>3
  <2>5. k <= 1
    <3>1. IsFiniteSet({n}) /\ Cardinality({n}) = 1
      BY FS_Singleton
    <3>2. Cardinality({i \in DOMAIN variants : variants[i] # Baseline}) <= 1
      BY <2>4, <3>1, FS_Subset
    <3> QED
      BY <3>2 DEF Differing
  <2>6. k \in 0..1
    BY <1>3, <2>5
  <2> QED
    BY <1>1, <1>2, <1>5, <2>6, OneChangedSupportsNothing
<1> QED
  BY <1>3, <1>4, <1>5

\* The result of an intervention that the machine's change made look effective:
\* what the confirmation yields is the changed artifact again.
LEMMA ConcludedUnderDrift ==
    ASSUME 2 * AlphaNum < AlphaDen, CheckInv, OneChangeOnly, Drifting,
           Probing, ~TrialsLeft, UNCHANGED yields,
           NEW reverted \in Option, NEW failed \in BOOLEAN,
           Concluded(reverted, failed),
           AnyDiffer(variants) => reverted # "yes"
    PROVE  BaselineFirst' /\ OnlyLastDiffers' /\ SearchIsVacuous' /\ NothingPromoted'
           /\ NothingSupported' /\ NothingJoint'
<1>t. /\ TypeOK /\ ProbeShape /\ StageOrder
      /\ results \in Seq(Result) /\ Len(results) \in Nat /\ pc = "sweep"
  BY DEF CheckInv, TypeOK, Probing
<1>1. PICK traced \in BOOLEAN :
         results' = Append(results, Outcome(reverted, failed, traced))
  <2>1. TraceablyChanged(reverted) \in BOOLEAN
    BY DEF TraceablyChanged, AnyDiffer
  <2> QED
    BY <2>1 DEF Concluded
<1> DEFINE r == Outcome(reverted, failed, traced)
           n == Len(results)
<1>2. r \in Result
  BY <1>t, OutcomeTyped
<1>3. r.effect = Effect /\ (r.changed <=> AnyDiffer(variants)) /\ r.reverted = reverted
  BY DEF Outcome
<1>4. Effect # "supported"
  BY <1>t, NoEffectFromDrift DEF OneChangeOnly
<1> HIDE DEF r
<1>5. /\ DOMAIN results = 1..n /\ DOMAIN results' = 1..(n + 1)
      /\ \A i \in 1..n : results'[i] = results[i]
      /\ results'[n + 1] = r
  BY <1>t, <1>1, <1>2 DEF r
<1>6. \A i \in 1..(n + 1) : i \in 1..n \/ i = n + 1
  BY <1>t
<1> HIDE DEF n
<1>7. NothingSupported'
  BY <1>3, <1>4, <1>5, <1>6 DEF NothingSupported, OneChangeOnly
<1>8. /\ references' = <<>> /\ variants' = <<>>
      /\ UNCHANGED <<pc, controls, batch, interaction, report, yields>>
  BY DEF Concluded, searchVars
<1>9. BaselineFirst'
  BY <1>t, <1>8, BaselineFirstKept DEF OneChangeOnly
<1> QED
  BY <1>t, <1>7, <1>8, <1>9
     DEF OnlyLastDiffers, SearchIsVacuous, NothingPromoted, NothingJoint, OneChangeOnly

LEMMA OneChangeOnlyStep ==
    ASSUME 2 * AlphaNum < AlphaDen
    PROVE  CheckInv /\ OneChangeOnly /\ [Next]_vars => OneChangeOnly'
<1> SUFFICES ASSUME CheckInv, OneChangeOnly, [Next]_vars, Drifting'
             PROVE  BaselineFirst' /\ OnlyLastDiffers' /\ SearchIsVacuous'
                    /\ NothingPromoted' /\ NothingSupported' /\ NothingJoint'
  BY DEF OneChangeOnly
<1>t. /\ TypeOK /\ ProbeShape /\ StageOrder
      /\ controls \in Seq(Artifacts) /\ references \in Seq(Artifacts)
      /\ variants \in Seq(Artifacts) /\ batch \in Seq(Artifacts)
  BY DEF CheckInv, TypeOK
<1>y. Drifting
  BY YieldsKept DEF Drifting, Drift
<1>i. /\ BaselineFirst /\ OnlyLastDiffers /\ SearchIsVacuous
      /\ NothingPromoted /\ NothingSupported /\ NothingJoint
  BY <1>y DEF OneChangeOnly
<1>n. /\ yields = {Now} /\ Now \in Artifacts
      /\ \A y \in yields : y = Now
  BY <1>t, <1>y, DriftingYields DEF TypeOK
\* A step that neither builds nor finishes anything.
<1>q. ASSUME UNCHANGED <<controls, references, variants, yields>>,
             batch' \in {batch, <<>>},
             UNCHANGED results \/ NothingSupported',
             UNCHANGED interaction \/ NothingPromoted',
             UNCHANGED report \/ NothingJoint',
             (UNCHANGED <<pc, batch, phase, current>>
              \/ pc' \notin {"minimize", "final"}) \/ SearchIsVacuous'
      PROVE  BaselineFirst' /\ OnlyLastDiffers' /\ SearchIsVacuous'
             /\ NothingPromoted' /\ NothingSupported' /\ NothingJoint'
  <2>1. BaselineFirst'
    BY <1>i, <1>q, <1>t, <1>y, BaselineFirstKept
  <2>2. Now' = Now /\ Baseline' = Baseline
    BY <1>q DEF Now, Baseline
  <2>3. OnlyLastDiffers'
    BY <1>i, <1>q, <2>2 DEF OnlyLastDiffers
  <2>4. SearchIsVacuous'
    BY <1>i, <1>q, <2>2 DEF SearchIsVacuous
  <2> QED
    BY <1>i, <1>q, <2>1, <2>3, <2>4
       DEF NothingPromoted, NothingSupported, NothingJoint
<1>1. CASE ControlBuild
  <2>1. controls' = Append(controls, Now)
    BY <1>1, <1>n DEF ControlBuild
  <2>2. /\ pc = "control" /\ pc' = "control" /\ batch = <<>>
        /\ references = <<>> /\ variants = <<>>
        /\ UNCHANGED <<pc, batch, references, variants, results, interaction, report,
                       yields>>
    BY <1>1, <1>t
       DEF ControlBuild, ProbeShape, StageOrder, probeVars, searchVars
  <2>3. Now' = Now
    BY <2>2 DEF Now
  <2>4. CASE controls = <<>>
    <3>1. controls' = <<Now>> /\ Baseline' = Now
      BY <2>1, <2>4 DEF Baseline
    <3>2. AllBaseline'
      BY <2>2, <3>1 DEF AllBaseline, AnyDiffer
    <3> QED
      BY <1>i, <2>2, <2>3, <3>1, <3>2
         DEF BaselineFirst, OnlyLastDiffers, SearchIsVacuous, NothingPromoted,
             NothingSupported, NothingJoint
  <2>5. CASE controls # <<>>
    <3>1. Baseline' = Baseline
      BY <1>t, <2>1, <2>5 DEF Baseline
    <3>2. AnyDiffer(controls)' <=> AnyDiffer(controls) \/ Now # Baseline
      <4>1. AnyDiffer(Append(controls, Now)) <=> AnyDiffer(controls) \/ Now # Baseline
        BY <1>n, <1>t, AppendDiffers
      <4> QED
        BY <2>1, <3>1, <4>1 DEF AnyDiffer
    <3>3. Now = Baseline => AllBaseline'
      BY <1>i, <2>2, <2>5, <3>1, <3>2 DEF BaselineFirst, AllBaseline, AnyDiffer
    <3> QED
      BY <1>i, <2>2, <2>3, <2>5, <3>1, <3>3
         DEF BaselineFirst, OnlyLastDiffers, SearchIsVacuous, NothingPromoted,
             NothingSupported, NothingJoint
  <2> QED
    BY <2>4, <2>5
<1>2. CASE ControlsCompared \/ SweepOver
  BY <1>2, <1>q
     DEF ControlsCompared, SweepOver, evidenceVars, probeVars, searchVars, ddminVars
<1>b. ASSUME pc = "sweep", UNCHANGED <<pc, controls, batch, results, interaction, report,
                                      yields>>,
             \/ references' = Append(references, Now) /\ UNCHANGED variants
             \/ variants' = Append(variants, Now) /\ UNCHANGED references
      PROVE  /\ BaselineFirst' /\ SearchIsVacuous' /\ NothingPromoted'
             /\ NothingSupported' /\ NothingJoint'
             /\ Now' = Now /\ Baseline' = Baseline
             /\ Now # Baseline \/ ~AnyDiffer(variants)
  <2>1. BaselineFirst'
    BY <1>b, <1>i, <1>t, <1>y, BaselineFirstKept
  <2>2. controls # <<>>
    BY <1>b, <1>t DEF StageOrder
  <2>3. Now' = Now /\ Baseline' = Baseline
    BY <1>b DEF Now, Baseline
  <2> QED
    BY <1>b, <1>i, <2>1, <2>2, <2>3
       DEF SearchIsVacuous, NothingPromoted, NothingSupported, NothingJoint,
           BaselineFirst, AllBaseline
<1>3. CASE ReferenceBuild
  <2>1. /\ references' = Append(references, Now) /\ pc = "sweep"
        /\ UNCHANGED <<pc, controls, variants, batch, results, interaction, report,
                       yields>>
    BY <1>3, <1>n DEF ReferenceBuild, Probing, searchVars
  <2>2. /\ Now' = Now /\ Baseline' = Baseline
        /\ Now # Baseline \/ ~AnyDiffer(variants)
    BY <1>b, <2>1
  <2>3. \A i \in DOMAIN references' :
           references'[i] = Now \/ (i \in DOMAIN references
                                    /\ references'[i] = references[i])
    BY <1>n, <1>t, <2>1
  <2>4. OnlyLastDiffers'
    <3> SUFFICES ASSUME NEW i \in DOMAIN references', NEW j \in DOMAIN variants,
                        j < i, variants[j] # Baseline
                 PROVE  references'[i] # Baseline
      BY <2>1, <2>2 DEF OnlyLastDiffers
    <3>1. Now # Baseline
      BY <2>2 DEF AnyDiffer
    <3> QED
      BY <1>i, <2>3, <3>1 DEF OnlyLastDiffers
  <2> QED
    BY <1>b, <2>1, <2>4
<1>4. CASE VariantBuild
  <2>1. /\ variants' = Append(variants, Now) /\ pc = "sweep" /\ Probing
        /\ UNCHANGED <<pc, controls, references, batch, results, interaction, report,
                       yields>>
    BY <1>4, <1>n DEF VariantBuild, Probing, searchVars
  <2>2. Now' = Now /\ Baseline' = Baseline
    BY <1>b, <2>1
  <2>3. /\ Len(variants) \in Nat /\ DOMAIN variants' = 1..(Len(variants) + 1)
        /\ \A j \in 1..Len(variants) : variants'[j] = variants[j]
        /\ DOMAIN variants = 1..Len(variants)
    BY <1>n, <1>t, <2>1
  <2>4. DOMAIN references \subseteq 1..(Len(variants) + 1)
    <3>1. Len(references) <= Len(variants) + 1
      BY <1>t, <2>1 DEF ProbeShape
    <3> QED
      BY <1>t, <2>3, <3>1
  <2>5. OnlyLastDiffers'
    <3> SUFFICES ASSUME NEW i \in DOMAIN references, NEW j \in DOMAIN variants',
                        j < i, variants'[j] # Baseline
                 PROVE  references[i] # Baseline
      BY <2>1, <2>2 DEF OnlyLastDiffers
    <3>1. j \in 1..Len(variants)
      BY <2>3, <2>4
    <3> QED
      BY <1>i, <2>3, <3>1 DEF OnlyLastDiffers
  <2> QED
    BY <1>b, <2>1, <2>5
<1>5. CASE VariantFailure \/ TrialError
  BY <1>5, <1>q DEF VariantFailure, TrialError, searchVars, ddminVars
<1>6. CASE Unconfirmed
  <2>1. /\ Concluded("none", FALSE) /\ Probing /\ ~TrialsLeft /\ UNCHANGED yields
        /\ "none" \in Option /\ "none" # "yes"
    BY <1>6 DEF Unconfirmed, Concluded, Option
  <2> QED
    BY <1>y, <2>1, ConcludedUnderDrift
<1>7. CASE ConfirmationBuild
  <2>1. /\ Concluded(YesNo(Now = Baseline), FALSE) /\ Probing /\ ~TrialsLeft
        /\ UNCHANGED yields
    BY <1>7, <1>n DEF ConfirmationBuild, Concluded
  <2>2. YesNo(Now = Baseline) \in Option
    BY DEF YesNo, Option
  <2>3. AnyDiffer(variants) => YesNo(Now = Baseline) # "yes"
    <3>1. controls # <<>>
      BY <1>t, <2>1 DEF StageOrder, Probing
    <3>2. AnyDiffer(variants) => Now # Baseline
      BY <1>i, <3>1 DEF BaselineFirst, AllBaseline
    <3> QED
      BY <3>2 DEF YesNo
  <2> QED
    BY <1>y, <2>1, <2>2, <2>3, ConcludedUnderDrift
<1>8. CASE ConfirmationError
  <2>1. /\ Concluded("none", TRUE) /\ Probing /\ ~TrialsLeft /\ UNCHANGED yields
        /\ "none" \in Option /\ "none" # "yes"
    BY <1>8 DEF ConfirmationError, Concluded, Option
  <2> QED
    BY <1>y, <2>1, ConcludedUnderDrift
<1>9. CASE SubsetBuild
  <2>1. /\ batch' = Append(batch, Now) /\ pc \in {"full", "minimize", "final"}
        /\ UNCHANGED <<pc, controls, references, variants, results, interaction, report,
                       phase, current, yields>>
    BY <1>9, <1>n DEF SubsetBuild, probeVars, ddminVars
  <2>2. BaselineFirst'
    BY <1>i, <1>t, <1>y, <2>1, BaselineFirstKept
  <2>3. Now' = Now /\ Baseline' = Baseline
    BY <2>1 DEF Now, Baseline
  <2>4. \A i \in DOMAIN batch' : batch'[i] = Now
                                 \/ (i \in DOMAIN batch /\ batch'[i] = batch[i])
    BY <1>n, <1>t, <2>1
  <2>5. SearchIsVacuous'
    BY <1>i, <2>1, <2>3, <2>4 DEF SearchIsVacuous
  <2> QED
    BY <1>i, <2>1, <2>2, <2>3, <2>5
       DEF OnlyLastDiffers, NothingPromoted, NothingSupported, NothingJoint
<1>10. CASE FullReproduces
  <2>1. /\ pc = "full" /\ Len(batch) = InteractionRuns /\ AllDiffer(batch)
        /\ batch' = <<>>
        /\ UNCHANGED <<controls, references, variants, results, interaction, report,
                       yields>>
    BY <1>10 DEF FullReproduces, BatchFull, JointEffect, probeVars
  <2>2. Now # Baseline
    <3>1. 1 \in DOMAIN batch
      BY <1>t, <2>1, OptionsAssumption
    <3>2. AnyDiffer(batch)
      BY <2>1, <3>1 DEF AllDiffer, AnyDiffer
    <3>3. controls # <<>>
      BY <1>t, <2>1 DEF StageOrder
    <3> QED
      BY <1>i, <3>2, <3>3 DEF BaselineFirst, AllBaseline
  <2>3. phase' = "subsets"
    BY <1>10, CallsStart
  <2>4. Now' = Now /\ Baseline' = Baseline
    BY <2>1 DEF Now, Baseline
  <2>5. SearchIsVacuous'
    BY <2>1, <2>2, <2>3, <2>4 DEF SearchIsVacuous
  <2> QED
    BY <1>q, <2>1, <2>5
<1>11. CASE FullDoesNotReproduce
  <2>1. /\ pc' = "report" /\ batch' = <<>> /\ interaction'.minimal = <<>>
        /\ UNCHANGED <<controls, references, variants, results, report, yields>>
    BY <1>11 DEF FullDoesNotReproduce, NothingFound, probeVars
  <2>2. NothingPromoted'
    <3>1. Len(interaction'.minimal) = 0
      BY <2>1
    <3> QED
      BY <3>1 DEF NothingPromoted
  <2> QED
    BY <1>q, <2>1, <2>2
<1>12. CASE SubsetVerdict
  <2>1. /\ pc = "minimize" /\ batch' = <<>> /\ phase # "done"
        /\ UNCHANGED <<controls, references, variants, results, interaction, report,
                       yields>>
    BY <1>12, <1>t DEF SubsetVerdict, StageOrder, probeVars
  <2>2. /\ Now # Baseline /\ phase = "subsets"
        /\ \A i \in DOMAIN batch : batch[i] = Now
    BY <1>i, <2>1 DEF SearchIsVacuous
  <2>3. JointEffect
    BY <2>2 DEF JointEffect, AllDiffer, Agree
  <2>4. D!KeepSubset
    BY <1>12, <2>2, <2>3 DEF SubsetVerdict, D!KeepComplement
  <2>5. phase' \in {"subsets", "done"} /\ (phase' = "done" => ~(Len(current') >= 2))
    BY <2>4 DEF D!KeepSubset, D!ReduceTo, D!LoopPhase
  <2>6. Len(current') \in Nat
    <3>1. TypeOK'
      BY TypeStep
    <3> QED
      BY <2>5, <3>1 DEF TypeOK, D!TypeOK
  <2>7. Now' = Now /\ Baseline' = Baseline
    BY <2>1 DEF Now, Baseline
  <2>8. SearchIsVacuous'
    BY <2>1, <2>2, <2>5, <2>6, <2>7 DEF SearchIsVacuous
  <2> QED
    BY <1>q, <2>1, <2>8
<1>13. CASE FinalWithoutReversion \/ InteractionReversion
  <2>1. /\ pc = "final" /\ pc' = "report" /\ batch' = <<>>
        /\ interaction'.minimal = current
        /\ UNCHANGED <<controls, references, variants, results, report, yields>>
    BY <1>13
       DEF FinalWithoutReversion, InteractionReversion, SearchEnds, probeVars
  <2>2. Len(current) < 2
    BY <1>i, <1>t, <2>1 DEF SearchIsVacuous, StageOrder
  <2>3. NothingPromoted'
    BY <2>1, <2>2 DEF NothingPromoted
  <2> QED
    BY <1>q, <2>1, <2>3
<1>14. CASE SearchError
  BY <1>14, <1>q DEF SearchError, probeVars
<1>15. CASE Report
  <2>1. ~InteractionPromoted(interaction)
    <3>1. Len(interaction.minimal) \in Nat
      BY <1>t DEF TypeOK
    <3> QED
      BY <1>i, <3>1 DEF InteractionPromoted, NothingPromoted
  <2>2. InteractionDiagnoses = {}
    BY <2>1 DEF InteractionDiagnoses
  <2>3. \A d \in SingleDiagnoses : Cardinality(d.causes) = 1
    BY FS_Singleton DEF SingleDiagnoses
  <2>4. NothingJoint'
    BY <1>15, <2>2, <2>3 DEF Report, NothingJoint
  <2> QED
    BY <1>15, <1>q, <2>4 DEF Report, probeVars, searchVars
<1>16. CASE Abort
  BY <1>16, <1>q DEF Abort, probeVars, searchVars
<1>17. CASE Drift
  <2>1. /\ Now # Drifted /\ Now' = Drifted
        /\ UNCHANGED <<pc, controls, references, variants, results, batch, phase,
                       current, interaction, report>>
    BY <1>17, <1>n DEF Drift, Now, probeVars, searchVars, ddminVars
  <2>2. controls # <<>> => Baseline = Now /\ Baseline' = Baseline
    BY <1>i, <2>1 DEF BaselineFirst, Baseline
  <2>3. pc \notin {"minimize", "final"}
    BY <1>i, <1>t, <2>2 DEF SearchIsVacuous, StageOrder
  <2>4. Baseline' = Baseline
    BY <2>1 DEF Baseline
  <2> QED
    BY <1>i, <2>1, <2>2, <2>3, <2>4
       DEF BaselineFirst, OnlyLastDiffers, SearchIsVacuous, NothingPromoted,
           NothingSupported, NothingJoint
<1>18. CASE UNCHANGED vars
  BY <1>18, <1>q DEF vars, probeVars, searchVars, ddminVars
<1> QED
  BY <1>1, <1>2, <1>3, <1>4, <1>5, <1>6, <1>7, <1>8, <1>9, <1>10, <1>11, <1>12,
     <1>13, <1>14, <1>15, <1>16, <1>17, <1>18
     DEF Next, Engine, Steps, Errors

\* For every plan, every number of trials and every significance level below one
\* half: a machine that changes once, at any moment of a check, is reported neither
\* as a supported stochastic effect, nor as a cause that reverted, nor as an
\* interaction (execute_intervention interleaves references and variants,
\* assess_stochastic_effect needs more than the last variant to have changed).
THEOREM DriftIsNeverCausal ==
    ASSUME 2 * AlphaNum < AlphaDen
    PROVE  Spec => []DriftIsNotCausal
<1>1. Init => OneChangeOnly
  <2> SUFFICES ASSUME Init PROVE OneChangeOnly
    OBVIOUS
  <2>1. /\ controls = <<>> /\ references = <<>> /\ results = <<>> /\ pc = "control"
        /\ report.diagnoses = {} /\ ~interaction.changed
    BY DEF Init, NoReport, NothingFound
  <2> QED
    BY <2>1
       DEF OneChangeOnly, BaselineFirst, OnlyLastDiffers, SearchIsVacuous,
           NothingPromoted, NothingSupported, NothingJoint
<1>2. OneChangeOnly => DriftIsNotCausal
  BY DEF OneChangeOnly, NothingSupported, NothingJoint, DriftIsNotCausal
<1>3. CheckInv /\ OneChangeOnly /\ [Next]_vars => OneChangeOnly'
  BY OneChangeOnlyStep
<1> QED
  BY <1>1, <1>2, <1>3, CheckInvariant, PTL DEF Spec

===============================================================================
