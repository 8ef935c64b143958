------------------------------ MODULE Combination ------------------------------
(***************************************************************************)
(* The two searches over environments.  `check` plans interventions around *)
(* a baseline and combines some of them; `compare` applies manifests to    *)
(* the baseline and moves from the known-good environment towards the      *)
(* known-bad one, change by change.  Either takes its steps in the order   *)
(* of a list; here they come in any order, so that the order cannot be     *)
(* what makes them right.                                                  *)
(***************************************************************************)
EXTENDS Environments

CONSTANTS
    Configs,    \* the configurations found on disk
    Manifests   \* the manifests `compare` is given

ASSUME CombinationAssumption == \A c \in Configs : WellTyped(c)

VARIABLES
    phase,      \* "start", "rejected", "combine" or "compare"
    config,
    combined,   \* the environment reached
    included,   \* the interventions combined
    good, bad,  \* the endpoints of a comparison
    applied     \* the changes applied

searchVars == <<phase, config, combined, included, good, bad, applied>>

Baseline == baseline_environment(config)
Plan == plan_interventions(config, Baseline)
Candidates == {p \in Plan : eligible_for_interaction_search(p)}
Delta == diff_environments(good, bad)

SearchInit ==
    /\ phase = "start"
    /\ config = <<>>
    /\ combined = <<>>
    /\ included = {}
    /\ good = <<>>
    /\ bad = <<>>
    /\ applied = {}

\* Config::load refuses the configuration.
Reject ==
    /\ phase = "start"
    /\ config' \in {c \in Configs : ~Valid(c)}
    /\ phase' = "rejected"
    /\ UNCHANGED <<combined, included, good, bad, applied>>

Check ==
    /\ phase = "start"
    /\ config' \in {c \in Configs : Valid(c)}
    /\ combined' = baseline_environment(config')
    /\ phase' = "combine"
    /\ UNCHANGED <<included, good, bad, applied>>

Include ==
    /\ phase = "combine"
    /\ \E p \in Candidates \ included :
        /\ included' = included \cup {p}
        /\ combined' = Combine(Baseline, combined, p.environment)
    /\ UNCHANGED <<phase, config, good, bad, applied>>

Compare ==
    /\ phase = "start"
    /\ config' \in {c \in Configs : Valid(c)}
    /\ \E goodManifest, badManifest \in {m \in Manifests : ManifestValid(m)} :
        /\ good' = ApplyManifest(goodManifest, baseline_environment(config'), config')
        /\ bad' = ApplyManifest(badManifest, baseline_environment(config'), config')
    /\ combined' = good'
    /\ phase' = "compare"
    /\ UNCHANGED <<included, applied>>

Apply ==
    /\ phase = "compare"
    /\ \E c \in Delta \ applied :
        /\ applied' = applied \cup {c}
        /\ combined' = ApplyChange(combined, c)
    /\ UNCHANGED <<phase, config, included, good, bad>>

SearchNext == Reject \/ Check \/ Include \/ Compare \/ Apply

SearchSpec == SearchInit /\ [][SearchNext]_searchVars

-------------------------------------------------------------------------------
(* Properties                                                              *)

\* What a build notices of an intervention alone.
Touched(p) ==
    {place \in Places : Inputs(config, p.environment)[place] # Inputs(config, Baseline)[place]}

\* The interventions of an accepted configuration are independent switches, as
\* the interaction search takes them to be: each is visible to the build, no
\* two that may be combined are visible at the same place, and a combination
\* shows at every place what the one intervention visible there shows alone.
TogglesAreIndependent ==
    phase = "combine" =>
        /\ \A p \in Plan : Touched(p) # {}
        /\ \A p, q \in Candidates : p # q => Touched(p) \cap Touched(q) = {}
        /\ \A place \in Places :
            Inputs(config, combined)[place] =
                IF \E p \in included : place \in Touched(p)
                THEN Inputs(config, (CHOOSE p \in included : place \in Touched(p)).environment)[place]
                ELSE Inputs(config, Baseline)[place]

\* A scalar or an entry a change is about.
Changed(field, key) == \E c \in applied : c.field = field /\ c.key = key

\* What minimisation of a comparison rests on: after any of the changes, in any
\* order, exactly the scalars and entries they are about have moved to the
\* known-bad side, and after all of them the environment is the known-bad one.
DeltaRestores ==
    phase = "compare" =>
        /\ \A f \in Scalars : combined[f] = IF Changed(f, Unset) THEN bad[f] ELSE good[f]
        /\ \A m \in Maps : \A k \in DOMAIN good[m] :
            combined[m][k] = IF Changed(m, k) THEN bad[m][k] ELSE good[m][k]
        /\ applied = Delta => combined = bad
===============================================================================
