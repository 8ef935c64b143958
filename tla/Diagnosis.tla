------------------------------ MODULE Diagnosis ------------------------------
(***************************************************************************)
(* What a check concludes from its results: the diagnosis rules of         *)
(* src/engine/diagnosis.rs and the verdict of src/engine/control.rs.       *)
(*                                                                         *)
(* A result is the record `execute_intervention` returns, with each        *)
(* Option<bool> as "none", "yes" or "no":                                  *)
(*   built        number of variant runs that built (`runs`)               *)
(*   failed       number of those that failed as evidence                  *)
(*   differed     number of `runs` unlike the baseline artifacts           *)
(*   unsteady     number of `reference_runs` unlike them                   *)
(*   changed      some variant run differs from the baseline artifacts     *)
(*   stable       variant_stable                                           *)
(*   failures     exit codes of the builds that failed as evidence         *)
(*   consistent   intervention_runs_consistent                             *)
(*   effect       stochastic classification, or "none"                     *)
(*   reverted     reverted_to_baseline                                     *)
(*   error        some run could not be completed                          *)
(*   traced       the kind's own corroboration: controlled markers in the  *)
(*                artifact, the tool invoked on both sides, the override   *)
(*                seen to replace the dependency's bytes                   *)
(***************************************************************************)
EXTENDS Naturals, Sequences

\* Kinds of planned interventions.  "plain" stands for the ten kinds the engine
\* treats alike: paths, epoch, mtime, time zone, locale, hostname, environment
\* variable, umask and copy order.
Kinds == {"plain", "cpu", "network", "image", "toolchain", "dependency"}

\* build_failure_is_observable and failure_observable
FailureObservable(kind) == kind \in {"network", "toolchain", "dependency"}

EligibleKind(kind) == kind = "plain"

ObservedEffect(kind, r) ==
    IF kind = "cpu"
    THEN r.changed /\ r.effect = "supported"
    ELSE r.changed \/ (FailureObservable(kind) /\ r.failures # {})

-------------------------------------------------------------------------------
\* A CPU variant whose trials disagree is judged by the statistics instead.
Scattered(kind, r) == kind = "cpu" /\ r.stable = "no"

\* Faulty: a reversion makes up for trials that were never completed.
HighDespiteError(kind, r) ==
    /\ kind \notin {"network", "image"}
    /\ ~Scattered(kind, r)
    /\ r.reverted = "yes"
    /\ r.consistent
    /\ r.traced

HighConfidence(kind, r) ==
    /\ ~r.error
    /\ kind \notin {"network", "image"}
    /\ ~Scattered(kind, r)
    /\ r.reverted = "yes"
    /\ r.consistent
    /\ r.traced

MediumConfidence(kind, r) ==
    /\ ~r.error
    /\ CASE kind = "network"   -> r.stable = "yes" /\ r.reverted = "yes"
         [] kind = "toolchain" -> FALSE
         [] kind \in {"image", "dependency"} -> r.reverted = "yes" /\ r.consistent
         [] Scattered(kind, r) -> r.reverted = "yes" /\ r.effect = "supported"
         [] OTHER -> r.consistent /\ (r.reverted = "yes" \/ r.traced)

Confidence(kind, r) ==
    CASE HighConfidence(kind, r) -> "high"
      [] ~HighConfidence(kind, r) /\ MediumConfidence(kind, r) -> "medium"
      [] OTHER -> "low"

\* An interaction is promoted when its minimal set is a joint cause.
InteractionPromoted(found) ==
    found.changed /\ found.stable /\ Len(found.minimal) >= 2

InteractionConfidence(found) ==
    IF found.reverted = "yes" THEN "medium" ELSE "low"

-------------------------------------------------------------------------------
\* Faulty: probes that broke off do not cast doubt on the verdict.
StatusDespiteErrors(anyChanged, outcomeDependency, someFailed, interactionFailed) ==
    CASE anyChanged -> "non_reproducible"
      [] ~anyChanged /\ (outcomeDependency \/ interactionFailed)
            -> "inconclusive"
      [] OTHER -> "reproducible"

\* classify_status
ClassifyStatus(anyChanged, outcomeDependency, someFailed, interactionFailed) ==
    CASE anyChanged -> "non_reproducible"
      [] ~anyChanged /\ (outcomeDependency \/ someFailed \/ interactionFailed)
            -> "inconclusive"
      [] OTHER -> "reproducible"
===============================================================================
