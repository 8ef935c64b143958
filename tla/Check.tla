-------------------------------- MODULE Check --------------------------------
(***************************************************************************)
(* One `reprobisect check`: the experiment engine of src/engine/control.rs *)
(* from the first control build to the persisted report.                   *)
(*                                                                         *)
(* The builds themselves are outside the engine: a build that succeeds     *)
(* yields one of the artifact signatures it may yield at that moment, and  *)
(* every build may fail.  The interaction search embeds the minimiser of   *)
(* Ddmin, whose predicate is here a batch of builds; its items are the     *)
(* positions of Plan.                                                      *)
(***************************************************************************)
EXTENDS Statistics, Diagnosis

CONSTANTS
    Plan,                     \* the kinds of plan_interventions, in order
    Artifacts,                \* artifact signatures a build can produce
    ExitCodes,                \* exit codes of a failing build command
    Worlds,                   \* what successful builds may yield at the start
    Drifted,                  \* ... and after the machine has drifted
    ControlRuns,
    InterventionRuns,
    ConfirmationRuns,
    StochasticRuns,
    InteractionSearch,        \* experiments.interaction_search
    InteractionRuns,
    MaxInteractionVariables

\* Config::validate and validate_check_options.
ASSUME OptionsAssumption ==
    /\ Plan \in Seq(Kinds)
    /\ Worlds \subseteq SUBSET Artifacts /\ {} \notin Worlds
    /\ Drifted \in Artifacts
    /\ ControlRuns \in 2..32
    /\ InterventionRuns \in 1..32
    /\ ConfirmationRuns \in {0, 1}
    /\ StochasticRuns \in 3..1024
    /\ InteractionSearch \in BOOLEAN
    /\ InteractionRuns \in 2..32
    /\ MaxInteractionVariables \in 2..32

VARIABLES
    pc,           \* "control", "sweep", "full", "minimize", "final", "report",
                  \* "done", or "aborted": an error left check_project
    ordinal,      \* the next build's number in the evidence
    controls,     \* artifacts of the control runs, controls[1] the baseline
    references,   \* execute_intervention: reference_runs
    variants,     \*   intervention_runs
    failures,     \*   build_failures, as exit codes
    error,        \*   error.is_some()
    results,      \* intervention_results
    batch,        \* run_interaction_subset: runs so far
    interaction,  \* interaction_search
    interactionFailed,
    report,       \* the CheckReport, once persisted
    \* Ddmin's state, phase "idle" until the search starts
    current, granularity, phase, index, tests, refuted,
    \* external: what the build may yield now
    yields,
    \* history
    observed,     \* groups of builds in which one differed from the baseline
    lastRecord    \* ordinal of the newest build record in the evidence

D == INSTANCE Ddmin WITH N <- Len(Plan)

evidenceVars == <<ordinal, lastRecord, observed>>
probeVars == <<references, variants, failures, error>>
ddminVars == <<current, granularity, phase, index, tests, refuted>>
searchVars == <<batch, interaction, interactionFailed, ddminVars>>
vars == <<pc, evidenceVars, controls, probeVars, results, searchVars, report,
          yields>>

-------------------------------------------------------------------------------
Baseline == controls[1]

AnyDiffer(runs) == \E i \in DOMAIN runs : runs[i] # Baseline
AllDiffer(runs) == \A i \in DOMAIN runs : runs[i] # Baseline

\* distinct_artifact_outcomes(runs) <= 1
Agree(runs) == \A i, j \in DOMAIN runs : runs[i] = runs[j]

Differing(runs) == Cardinality({i \in DOMAIN runs : runs[i] # Baseline})

YesNo(b) == IF b THEN "yes" ELSE "no"

\* A build of `group` yields artifact a and its record is persisted.
Recorded(group, a) ==
    /\ a \in yields
    /\ lastRecord' = ordinal
    /\ ordinal' = ordinal + 1
    /\ observed' = IF controls = <<>> \/ a = Baseline
                   THEN observed
                   ELSE observed \cup {group}

\* A build fails and leaves no record, though its number is used up.
Unrecorded ==
    /\ ordinal' = ordinal + 1
    /\ UNCHANGED <<lastRecord, observed>>

NothingFound ==
    [changed |-> FALSE, stable |-> FALSE, minimal |-> <<>>, reverted |-> "none"]

NoReport == [status |-> "none", diagnoses |-> {}]

Init ==
    /\ pc = "control"
    /\ ordinal = 1
    /\ controls = <<>>
    /\ references = <<>> /\ variants = <<>> /\ failures = <<>> /\ error = FALSE
    /\ results = <<>>
    /\ batch = <<>>
    /\ interaction = NothingFound /\ interactionFailed = FALSE
    /\ report = NoReport
    /\ current = <<>> /\ granularity = 0 /\ phase = "idle" /\ index = 0
    /\ tests = 0 /\ refuted = {}
    /\ yields \in Worlds
    /\ observed = {}
    /\ lastRecord = 0

-------------------------------------------------------------------------------
\* Control builds.

ControlsStable == Agree(controls)

ControlBuild ==
    /\ pc = "control"
    /\ Len(controls) < ControlRuns
    /\ \E a \in yields :
          /\ controls' = Append(controls, a)
          /\ Recorded("control", a)
    /\ UNCHANGED <<pc, probeVars, results, searchVars, report, yields>>

\* The stability gate.
ControlsCompared ==
    /\ pc = "control"
    /\ Len(controls) = ControlRuns
    /\ pc' = IF ControlsStable THEN "sweep" ELSE "report"
    /\ UNCHANGED <<evidenceVars, controls, probeVars, results, searchVars,
                   report, yields>>

-------------------------------------------------------------------------------
\* The one-variable sweep: execute_intervention for Plan[Len(results) + 1].

Probing == pc = "sweep" /\ Len(results) < Len(Plan)

Kind == Plan[Len(results) + 1]

AtLeast(n, least) == IF n >= least THEN n ELSE least

RunCount(kind) ==
    CASE kind = "cpu"             -> AtLeast(StochasticRuns, InterventionRuns)
      [] FailureObservable(kind)  -> AtLeast(InterventionRuns, 2)
      [] OTHER                    -> InterventionRuns

TrialsLeft == ~error /\ Len(variants) + Len(failures) < RunCount(Kind)

\* Faulty: all references are built before the first variant.
ReferencesFirst == Kind = "cpu" /\ Len(references) < RunCount(Kind)

\* A CPU trial is a baseline reference and then the variant.
ReferenceNext == Kind = "cpu" /\ Len(references) = Len(variants)

ReferenceBuild ==
    /\ Probing
    /\ TrialsLeft
    /\ ReferenceNext
    /\ \E a \in yields :
          /\ references' = Append(references, a)
          /\ Recorded("reference", a)
    /\ UNCHANGED <<pc, controls, variants, failures, error, results, searchVars,
                   report, yields>>

VariantBuild ==
    /\ Probing
    /\ TrialsLeft
    /\ ~ReferenceNext
    /\ \E a \in yields :
          /\ variants' = Append(variants, a)
          /\ Recorded("variant", a)
    /\ UNCHANGED <<pc, controls, references, failures, error, results,
                   searchVars, report, yields>>

\* RunOutcome::BuildFailed is evidence, and has a record of its own.
VariantFailure ==
    /\ Probing
    /\ TrialsLeft
    /\ FailureObservable(Kind)
    /\ \E code \in ExitCodes : failures' = Append(failures, code)
    /\ lastRecord' = ordinal
    /\ ordinal' = ordinal + 1
    /\ UNCHANGED <<pc, observed, controls, references, variants, error, results,
                   searchVars, report, yields>>

\* Any other failed build ends the trials of this intervention.
TrialError ==
    /\ Probing
    /\ TrialsLeft
    /\ error' = TRUE
    /\ Unrecorded
    /\ UNCHANGED <<pc, controls, references, variants, failures, results,
                   searchVars, report, yields>>

VariantStable ==
    IF FailureObservable(Kind) /\ variants # <<>> /\ failures # <<>>
    THEN "no"
    ELSE IF variants = <<>> /\ failures = <<>>
    THEN "none"
    ELSE YesNo(Agree(variants) /\ Agree(failures))

\* Faulty: baseline and variant counts are exchanged.
EffectExchanged ==
    IF /\ Kind = "cpu"
       /\ Len(variants) = RunCount(Kind)
       /\ Len(references) = RunCount(Kind)
    THEN Classification(Differing(variants), Len(variants),
                        Differing(references), Len(references))
    ELSE "none"

\* Only a complete probe is assessed.
Effect ==
    IF /\ Kind = "cpu"
       /\ Len(variants) = RunCount(Kind)
       /\ Len(references) = RunCount(Kind)
    THEN Classification(Differing(references), Len(references),
                        Differing(variants), Len(variants))
    ELSE "none"

\* Corroboration needs an artifact that changed or a run that used the binding.
TraceablyChanged(reverted) ==
    CASE Kind = "network"    -> FALSE
      [] Kind = "toolchain"  -> variants # <<>> /\ reverted # "none"
      [] Kind = "dependency" -> variants # <<>>
      [] OTHER               -> AnyDiffer(variants)

\* What execute_intervention returns; `failed` is a confirmation that did not
\* build.
Outcome(reverted, failed, traced) ==
    [built      |-> Len(variants),
     failed     |-> Len(failures),
     differed   |-> Differing(variants),
     unsteady   |-> Differing(references),
     changed    |-> AnyDiffer(variants),
     stable     |-> VariantStable,
     failures   |-> {failures[i] : i \in DOMAIN failures},
     consistent |-> Agree(variants),
     effect     |-> Effect,
     reverted   |-> reverted,
     error      |-> error \/ failed,
     traced     |-> traced]

Concluded(reverted, failed) ==
    /\ \E traced \in {FALSE, TraceablyChanged(reverted)} :
          results' = Append(results, Outcome(reverted, failed, traced))
    /\ references' = <<>> /\ variants' = <<>> /\ failures' = <<>>
    /\ error' = FALSE
    /\ UNCHANGED <<pc, controls, searchVars, report, yields>>

\* `changed || build_failure_effect`, whether or not the trials were completed.
EffectSeen ==
    AnyDiffer(variants) \/ (FailureObservable(Kind) /\ failures # <<>>)

\* Faulty: the baseline is restored after every probe.
ConfirmationAlways == ConfirmationRuns = 1

ConfirmationDue == EffectSeen /\ ConfirmationRuns = 1

Unconfirmed ==
    /\ Probing
    /\ ~TrialsLeft
    /\ ~ConfirmationDue
    /\ Concluded("none", FALSE)
    /\ UNCHANGED evidenceVars

ConfirmationBuild ==
    /\ Probing
    /\ ~TrialsLeft
    /\ ConfirmationDue
    /\ \E a \in yields :
          /\ Recorded("reversion", a)
          /\ Concluded(YesNo(a = Baseline), FALSE)

ConfirmationError ==
    /\ Probing
    /\ ~TrialsLeft
    /\ ConfirmationDue
    /\ Unrecorded
    /\ Concluded("none", TRUE)

-------------------------------------------------------------------------------
\* The interaction search.

\* late_baseline_instability
Late == \E i \in DOMAIN results : results[i].effect = "baseline_unstable"

\* Faulty: variables that changed the artifact on their own are candidates.
EligibleChanged ==
    {i \in DOMAIN results : EligibleKind(Plan[i]) /\ ~results[i].error}

\* eligible_candidates, as positions of Plan.
Eligible ==
    {i \in DOMAIN results :
        EligibleKind(Plan[i]) /\ ~results[i].changed /\ ~results[i].error}

\* The positions of a set in the order of the plan.
InPlanOrder(positions) ==
    {s \in [1..Cardinality(positions) -> positions] :
        \A i, j \in DOMAIN s : i < j => s[i] < s[j]}

\* Faulty: the search runs although a reference changed.
SearchDespiteLate ==
    /\ InteractionSearch
    /\ Cardinality(Eligible) \in 2..MaxInteractionVariables

SearchWanted ==
    /\ ~Late
    /\ InteractionSearch
    /\ Cardinality(Eligible) \in 2..MaxInteractionVariables

SweepOver ==
    /\ pc = "sweep"
    /\ Len(results) = Len(Plan)
    /\ pc' = IF SearchWanted THEN "full" ELSE "report"
    /\ UNCHANGED <<evidenceVars, controls, probeVars, results, searchVars,
                   report, yields>>

\* Faulty: `0..=runs`.
BatchOneMore == Len(batch) > InteractionRuns

BatchFull == Len(batch) = InteractionRuns

\* One build of run_interaction_subset, all of whose runs are joint variants.
SubsetBuild ==
    /\ pc \in {"full", "minimize", "final"}
    /\ ~BatchFull
    /\ \E a \in yields :
          /\ batch' = Append(batch, a)
          /\ Recorded("joint", a)
    /\ UNCHANGED <<pc, controls, probeVars, results, interaction,
                   interactionFailed, ddminVars, report, yields>>

\* The criterion of every stage: all runs changed, and to the same artifacts.
JointEffect == AllDiffer(batch) /\ Agree(batch)

FullReproduces ==
    /\ pc = "full"
    /\ BatchFull
    /\ JointEffect
    /\ pc' = "minimize"
    /\ batch' = <<>>
    /\ current' \in InPlanOrder(Eligible)
    /\ granularity' = D!Least(2, Len(current'))
    /\ phase' = D!LoopPhase(current')
    /\ UNCHANGED <<evidenceVars, controls, probeVars, results, interaction,
                   interactionFailed, index, tests, refuted, report, yields>>

\* Nothing to minimise; a change seen in some runs is still reported.
FullDoesNotReproduce ==
    /\ pc = "full"
    /\ BatchFull
    /\ ~JointEffect
    /\ pc' = "report"
    /\ batch' = <<>>
    /\ interaction' = [NothingFound EXCEPT !.changed = AnyDiffer(batch)]
    /\ UNCHANGED <<evidenceVars, controls, probeVars, results,
                   interactionFailed, ddminVars, report, yields>>

\* The predicate passed to ddmin::minimize returns.
SubsetVerdict ==
    /\ pc = "minimize"
    /\ BatchFull
    /\ IF JointEffect
       THEN D!KeepSubset \/ D!KeepComplement
       ELSE D!NextPart \/ D!SubsetsExhausted \/ D!Refine \/ D!Finish
    /\ pc' = IF phase' = "done" THEN "final" ELSE pc
    /\ batch' = <<>>
    /\ UNCHANGED <<evidenceVars, controls, probeVars, results, interaction,
                   interactionFailed, report, yields>>

\* The minimal subset was built again: promote it, or take it to the reversion.
SearchEnds(changed, stable, reverted) ==
    /\ pc' = "report"
    /\ batch' = <<>>
    /\ interaction' = [changed |-> changed, stable |-> stable,
                       minimal |-> current, reverted |-> reverted]
    /\ UNCHANGED <<controls, probeVars, results, interactionFailed, ddminVars,
                   report, yields>>

RevertInteraction == JointEffect /\ ConfirmationRuns = 1

\* Faulty: a minimal subset that changes nothing any more has no result.
FinalOnlyIfReproduced ==
    /\ pc = "final"
    /\ BatchFull
    /\ JointEffect
    /\ ~RevertInteraction
    /\ SearchEnds(AllDiffer(batch), JointEffect, "none")
    /\ UNCHANGED evidenceVars

FinalWithoutReversion ==
    /\ pc = "final"
    /\ BatchFull
    /\ ~RevertInteraction
    /\ SearchEnds(AllDiffer(batch), JointEffect, "none")
    /\ UNCHANGED evidenceVars

InteractionReversion ==
    /\ pc = "final"
    /\ BatchFull
    /\ RevertInteraction
    /\ \E a \in yields :
          /\ Recorded("reversion", a)
          /\ SearchEnds(TRUE, TRUE, YesNo(a = Baseline))

\* A build or its record fails inside execute_interaction_search, which returns
\* the error; check_project keeps going without the search.
SearchError ==
    /\ pc \in {"full", "minimize", "final"}
    /\ ~BatchFull \/ (pc = "final" /\ RevertInteraction)
    /\ pc' = "report"
    /\ batch' = <<>>
    /\ interactionFailed' = TRUE
    /\ IF pc = "minimize" THEN D!PredicateError ELSE UNCHANGED ddminVars
    /\ UNCHANGED <<evidenceVars, controls, probeVars, results, interaction,
                   report, yields>>

-------------------------------------------------------------------------------
\* The report.

\* Faulty: only the one-variable results decide the verdict.
StatusOfSweep ==
    IF ~ControlsStable \/ Late
    THEN "uncontrolled_nondeterminism"
    ELSE ClassifyStatus(
            \E i \in DOMAIN results : results[i].changed,
            \E i \in DOMAIN results :
                FailureObservable(Plan[i]) /\ results[i].failures # {},
            \E i \in DOMAIN results : results[i].error,
            interactionFailed)

Status ==
    IF ~ControlsStable \/ Late
    THEN "uncontrolled_nondeterminism"
    ELSE ClassifyStatus(
            interaction.changed \/ \E i \in DOMAIN results : results[i].changed,
            \E i \in DOMAIN results :
                FailureObservable(Plan[i]) /\ results[i].failures # {},
            \E i \in DOMAIN results : results[i].error,
            interactionFailed)

SingleDiagnoses ==
    {[causes |-> {i}, confidence |-> Confidence(Plan[i], results[i])] :
        i \in {j \in DOMAIN results : ObservedEffect(Plan[j], results[j])}}

InteractionDiagnoses ==
    IF InteractionPromoted(interaction)
    THEN {[causes |-> {interaction.minimal[i] : i \in DOMAIN interaction.minimal},
           confidence |-> InteractionConfidence(interaction)]}
    ELSE {}

Report ==
    /\ pc = "report"
    /\ pc' = "done"
    /\ report' =
          [status    |-> Status,
           diagnoses |-> IF ~ControlsStable \/ Late
                         THEN {}
                         ELSE SingleDiagnoses \cup InteractionDiagnoses]
    /\ UNCHANGED <<evidenceVars, controls, probeVars, results, searchVars,
                   yields>>

\* An error that reaches the caller of check_project, leaving no report: a
\* control build fails, or evidence cannot be written outside the search.
Abort ==
    /\ \/ pc = "control" /\ Len(controls) < ControlRuns
       \/ Probing /\ (TrialsLeft \/ ConfirmationDue)
       \/ pc = "report"
    /\ pc' = "aborted"
    /\ UNCHANGED <<evidenceVars, controls, probeVars, results, searchVars,
                   report, yields>>

-------------------------------------------------------------------------------
\* External: between two builds the machine changes, once and for good, in a
\* way that shows in every later artifact.
Drift ==
    /\ pc \notin {"done", "aborted"}
    /\ \E a \in Artifacts \ {Drifted} : yields = {a}
    /\ yields' = {Drifted}
    /\ UNCHANGED <<pc, evidenceVars, controls, probeVars, results, searchVars,
                   report>>

Steps ==
    \/ ControlBuild \/ ControlsCompared
    \/ ReferenceBuild \/ VariantBuild \/ VariantFailure
    \/ Unconfirmed \/ ConfirmationBuild
    \/ SweepOver
    \/ SubsetBuild
    \/ FullReproduces \/ FullDoesNotReproduce
    \/ SubsetVerdict
    \/ FinalWithoutReversion \/ InteractionReversion
    \/ Report

Errors == TrialError \/ ConfirmationError \/ SearchError \/ Abort

Engine == Steps \/ Errors

Next == Engine \/ Drift

Spec == Init /\ [][Next]_vars

\* check_project is one thread and every build it waits for has a timeout.  An
\* error is never forced: a check must end by its own steps.
FairSpec == Spec /\ WF_vars(Steps)

-------------------------------------------------------------------------------
(***************************************************************************)
(* What a check guarantees.                                                *)
(***************************************************************************)
Reported == pc = "done"

Option == {"none", "yes", "no"}

Groups == {"control", "reference", "variant", "reversion", "joint"}

Result ==
    [built      : Nat,
     failed     : Nat,
     differed   : Nat,
     unsteady   : Nat,
     changed    : BOOLEAN,
     stable     : Option,
     failures   : SUBSET ExitCodes,
     consistent : BOOLEAN,
     effect     : {"none", "baseline_unstable", "supported", "not_supported"},
     reverted   : Option,
     error      : BOOLEAN,
     traced     : BOOLEAN]

\* Type invariant.
TypeOK ==
    /\ pc \in {"control", "sweep", "full", "minimize", "final", "report", "done",
              "aborted"}
    /\ ordinal \in Nat \ {0} /\ lastRecord \in Nat
    /\ controls \in Seq(Artifacts)
    /\ references \in Seq(Artifacts) /\ variants \in Seq(Artifacts)
    /\ failures \in Seq(ExitCodes) /\ error \in BOOLEAN
    /\ results \in Seq(Result) /\ Len(results) <= Len(Plan)
    /\ batch \in Seq(Artifacts)
    /\ interaction \in [changed : BOOLEAN, stable : BOOLEAN,
                        minimal : Seq(1..Len(Plan)), reverted : Option]
    /\ interactionFailed \in BOOLEAN
    /\ report.status \in {"none", "reproducible", "non_reproducible",
                          "uncontrolled_nondeterminism", "inconclusive"}
    /\ report.diagnoses \subseteq
          [causes : SUBSET (1..Len(Plan)), confidence : {"low", "medium", "high"}]
    /\ phase = "idle" \/ D!TypeOK
    /\ yields \in (SUBSET Artifacts) \ {{}}
    /\ observed \subseteq Groups

\* What the trials of the intervention under test look like between two builds.
ProbeShape ==
    /\ Len(results) <= Len(Plan)
    /\ pc \notin {"sweep", "aborted"} \/ Len(results) = Len(Plan)
           => references = <<>> /\ variants = <<>> /\ failures = <<>> /\ ~error
    /\ Probing =>
          /\ Len(variants) + Len(failures) <= RunCount(Kind)
          /\ failures # <<>> => FailureObservable(Kind)
          /\ IF Kind = "cpu"
             THEN \/ Len(references) = Len(variants)
                  \/ /\ Len(references) = Len(variants) + 1
                     /\ Len(variants) < RunCount(Kind)
             ELSE references = <<>>

\* Where in the collected results a differing build of each group shows.
ResultsTellAll ==
    /\ "control" \in observed <=> AnyDiffer(controls)
    /\ "reference" \in observed =>
          \/ AnyDiffer(references)
          \/ \E i \in DOMAIN results :
                results[i].effect = "baseline_unstable" \/ results[i].error
    /\ AnyDiffer(references) \/ Late => "reference" \in observed
    /\ "variant" \in observed <=>
          AnyDiffer(variants) \/ \E i \in DOMAIN results : results[i].changed
    /\ "reversion" \in observed =>
          \/ interaction.changed
          \/ \E i \in DOMAIN results :
                results[i].changed \/ results[i].failures # {}
    /\ AnyDiffer(batch) \/ interaction.changed => "joint" \in observed
    /\ \A i \in DOMAIN results :
          results[i].failures # {} => FailureObservable(Plan[i])

\* When the search runs and when the report is due.
StageOrder ==
    /\ IF pc \in {"full", "minimize", "final"}
       THEN Len(results) = Len(Plan)
       ELSE batch = <<>>
    /\ pc \notin {"report", "done", "aborted"} => interaction = NothingFound
    /\ pc \in {"control", "sweep", "full"} => phase = "idle"
    /\ pc = "full" => SearchWanted
    /\ pc = "minimize" => phase \notin {"idle", "done", "failed"}
    /\ pc = "final" => phase = "done"
    /\ IF phase = "idle"
       THEN index = 0 /\ tests = 0 /\ refuted = {}
       ELSE D!SearchInv
    /\ pc = "report" /\ ControlsStable => Len(results) = Len(Plan)
    /\ pc \notin {"control", "aborted"} => controls # <<>>
    /\ pc # "done" => report = NoReport
    /\ lastRecord < ordinal

\* Exit code 0 is given away only for this verdict, so it must be earned by the
\* whole sweep: "reproducible" is reported only if every intervention of the plan
\* was tried, no control, reference, variant or reversion build differed from the
\* baseline, none failed, and no search broke off.  (Builds of the interaction
\* search are excluded: see JointChangeIsReported.)
ReproducibleIsEarned ==
    report.status = "reproducible" =>
        /\ Len(results) = Len(Plan)
        /\ observed \subseteq {"joint"}
        /\ \A i \in DOMAIN results : ~results[i].error /\ results[i].failures = {}
        /\ ~interactionFailed

\* The two accusing verdicts rest on builds that were really seen: a baseline
\* that differed from itself, or a perturbed build that differed from a baseline
\* whose complete repetitions agreed.
VerdictIsWitnessed ==
    /\ report.status = "uncontrolled_nondeterminism"
           => observed \cap {"control", "reference"} # {}
    /\ report.status = "non_reproducible"
           => /\ observed \cap {"variant", "joint"} # {}
              /\ "control" \notin observed

\* The inductive strengthening behind the two properties above.
CheckInv ==
    /\ TypeOK
    /\ ProbeShape
    /\ ResultsTellAll
    /\ StageOrder
    /\ ReproducibleIsEarned
    /\ VerdictIsWitnessed

\* "no member of the minimized set was positive in the one-variable sweep, while
\* the joint intervention changed artifact bytes" and "returned a 1-minimal
\* observed interaction" (the evidence of diagnosis_from_interaction): when an
\* interaction is diagnosed, each of its members was tried alone, completed and
\* was inert, and each set with one member removed was built and refused.
InteractionIrreducible ==
    \A d \in report.diagnoses : Cardinality(d.causes) >= 2 =>
        /\ \A i \in d.causes :
              ~results[i].changed /\ ~results[i].error /\ EligibleKind(Plan[i])
        /\ \A i \in d.causes :
              d.causes \ {i} \in {D!Items(s) : s \in refuted}

\* A high-confidence cause separates the builds of the check.  Every build without
\* it gave the baseline's artifacts: all controls, the matched references of its
\* trials, and the reversion.  With it, all planned trials were carried out, and all
\* that built gave other artifacts, or none did and some trial failed as evidence.
\* (That failing and building may be mixed is HighToolchainIsStable.)
Separated(r) == r.differed = r.built \/ (r.differed = 0 /\ r.failed > 0)

HighConfidenceSeparates ==
    \A d \in report.diagnoses : d.confidence = "high" =>
        /\ Agree(controls)
        /\ \E i \in DOMAIN results :
              /\ d.causes = {i}
              /\ results[i].unsteady = 0
              /\ results[i].reverted = "yes"
              /\ results[i].built + results[i].failed = RunCount(Plan[i])
              /\ Separated(results[i])

\* The second stability gate: after CPU probes that ran to completion, a baseline
\* reference that changed overrides everything else that was found, and no joint
\* build is spent.
LateInstabilityWins ==
    /\ Len(results) = Len(Plan)
    /\ "reference" \in observed
    /\ \A i \in DOMAIN results : Plan[i] = "cpu" => ~results[i].error
    => /\ pc \in {"sweep", "report", "done", "aborted"}
       /\ "joint" \notin observed
       /\ Reported => report = [status |-> "uncontrolled_nondeterminism",
                               diagnoses |-> {}]

\* The reason references and variants are interleaved: when one lasting change of
\* the machine is all that ever differs, whenever it happens, nothing is reported
\* as a confirmed cause: no high confidence, no interaction, no supported
\* stochastic effect and no effect that reverted.
Drifting == \E a \in Artifacts : yields = {a}

DriftIsNotCausal ==
    Drifting =>
        /\ \A i \in DOMAIN results :
              /\ results[i].effect # "supported"
              /\ results[i].changed => results[i].reverted # "yes"
        /\ \A d \in report.diagnoses : Cardinality(d.causes) = 1

\* What the p-value means: a completed CPU probe supports an effect exactly when
\* some variants changed, no reference did, and at most alpha of the ways to
\* place the changed trials among all trials put as many into the variants.
ProbeComplete == Probing /\ Kind = "cpu" /\ ~TrialsLeft /\ ~error

SupportedMeansRare ==
    ProbeComplete =>
        LET trials == 1..(Len(references) + Len(variants))
            placements ==
                kSubset(Differing(references) + Differing(variants), trials)
            extreme == {p \in placements :
                Cardinality(p \cap 1..Len(variants)) >= Differing(variants)}
        IN  Effect = "supported" <=>
                /\ AnyDiffer(variants) /\ ~AnyDiffer(references)
                /\ Cardinality(extreme) * AlphaDen
                      <= AlphaNum * Cardinality(placements)

\* Builds are the cost of a check.  They are bounded before it starts, by the
\* options and the plan.
ProbeBuilds(kind) ==
    RunCount(kind) * (IF kind = "cpu" THEN 2 ELSE 1) + ConfirmationRuns

JointBuilds ==
    InteractionRuns * (2 + D!MostTests(MaxInteractionVariables)) + ConfirmationRuns

\* The builds of the first n interventions.
PlannedBuilds[n \in 0..Len(Plan)] ==
    IF n = 0 THEN 0 ELSE PlannedBuilds[n - 1] + ProbeBuilds(Plan[n])

BuildBudget == ordinal - 1 <= ControlRuns + PlannedBuilds[Len(Plan)] + JointBuilds

-------------------------------------------------------------------------------
(***************************************************************************)
(* What the documentation says and the engine does not keep.               *)
(***************************************************************************)

\* docs/architecture.md:122, of the references of a CPU probe: "If any reference
\* changes, [...] the entire check is reclassified as UNCONTROLLED_NONDETERMINISM".
AnyChangedReferenceReclassifies ==
    Reported /\ "reference" \in observed
        => report.status = "uncontrolled_nondeterminism"

\* docs/experiment-model.md:37: "A successful result is reported as reproducible
\* within the tested space", which the joint builds belong to.
JointChangeIsReported ==
    report.status = "reproducible" => "joint" \notin observed

\* docs/architecture.md:82: "A high-confidence toolchain diagnosis therefore
\* requires observed invocations on both sides in addition to stable artifact
\* change and reversion."
HighToolchainIsStable ==
    \A d \in report.diagnoses :
        d.confidence = "high" =>
            \A i \in d.causes : Plan[i] = "toolchain"
                => results[i].changed /\ results[i].stable = "yes"

-------------------------------------------------------------------------------
\* Every check comes to a report or to an error, whatever the builds do.
Termination == <>(pc \in {"done", "aborted"})
===============================================================================
