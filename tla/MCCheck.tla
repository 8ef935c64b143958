------------------------------- MODULE MCCheck -------------------------------
(***************************************************************************)
(* Plans and worlds for model checking Check, in the order                 *)
(* plan_interventions uses.                                                *)
(***************************************************************************)
EXTENDS Check

CONSTANTS a, b, c    \* artifact signatures

\* Three variables that may interact, behind an image that may not.
InteractionPlan == <<"image", "plain", "plain", "plain">>

\* The stochastic probe, between variables that may interact.
ProbePlan == <<"toolchain", "plain", "cpu", "plain">>

\* The kinds whose failing builds are evidence.
OutcomePlan == <<"image", "toolchain", "dependency", "network">>

NoisyAB == {{a, b}, {a}}
NoisyABC == {{a, b, c}, {a}}
===============================================================================
