----------------------------------- MODULE Fix -----------------------------------
(***************************************************************************)
(* The fix engine, src/engine/fix.rs: a diagnosis yields plans, and each   *)
(* plan is verified by builds of the fixed project, while the user edits   *)
(* it and until the process ends or is stopped.                            *)
(*                                                                         *)
(* A tree is a project's configuration and its build files; it stands for  *)
(* its digest.  Copying and reading a tree are one step each.              *)
(***************************************************************************)
EXTENDS Environments, ProjectPatch, Evidence

CONSTANTS
    Trees,      \* the states a project may be in: records of config and files
    Artifacts,
    MaxEdits    \* how often the user changes the project while the command runs

ASSUME FixAssumption ==
    /\ MaxEdits \in Nat
    /\ \A t \in Trees : WellTyped(t.config)

VARIABLES
    pc,             \* what the command does next
    tree, edits,    \* the project, and how often it was edited
    diagnosis,      \* of check_project: configuration, digest, the results to act on
    pending,        \* the candidates to verify
    current,        \* the verification under way
    verifications

fixVars == <<pc, tree, edits, diagnosis, pending, current, verifications>>
allFixVars == <<fixVars, evidenceVars>>

Nothing == <<>>

Plans(config) == plan_interventions(config, baseline_environment(config))

-------------------------------------------------------------------------------
(* Plans                                                                   *)

PathKinds == {"SourcePath", "BuildPath"}
FixableKinds == PathKinds \cup {"SourceDateEpoch", "SourceMtime", "Umask"}
FlagKeys == {"CFLAGS", "CXXFLAGS", "RUSTFLAGS"}

\* path_remap_plan, source_date_epoch_plan, source_mtime_plan and umask_plan.
ProjectPatchFor(config, files, kind, id) ==
    CASE kind \in PathKinds -> PathPatch(files, config.tools, id)
      [] kind = "SourceDateEpoch" -> EpochPatch(files, config.tools, id)
      [] OTHER -> ArchivePatch(files, config.tools, id)

FixPlan(config, files, result) ==
    LET patch == ProjectPatchFor(config, files, result.kind, result.variable)
    IN  [kind |-> result.kind,
         variable |-> result.variable,
         patch |-> patch,
         supported |-> \/ result.kind \notin PathKinds
                       \/ patch # NoPatch
                       \/ FlagKeys \cap Bound(config.env) # {}]

generate_fix_plans(config, files, results) == {FixPlan(config, files, r) : r \in results}

Operational(plan) == plan.patch = NoPatch

-------------------------------------------------------------------------------
(* What a verification builds                                              *)

\* append_flags, to the flags the configuration already declares.
Flagged(config, plan) ==
    IF Operational(plan) /\ plan.kind \in PathKinds
    THEN [config EXCEPT !.env =
            [k \in DOMAIN @ |-> IF k \in FlagKeys \cap Bound(@) THEN "remapped" ELSE @[k]]]
    ELSE config

\* apply_plan_to_environments
Pinned(plan, environment, baseline) ==
    IF ~Operational(plan) THEN environment
    ELSE IF plan.kind = "SourceDateEpoch"
    THEN SetKeys(environment, {"SOURCE_DATE_EPOCH"}, baseline.environment["SOURCE_DATE_EPOCH"])
    ELSE IF plan.kind = "SourceMtime"
    THEN [environment EXCEPT !.source_mtime_epoch = baseline.source_mtime_epoch]
    ELSE IF plan.kind = "Umask"
    THEN [environment EXCEPT !.umask = baseline.umask]
    ELSE environment

\* The tree verified: a private copy with the patch applied, or the project itself.
Verified(plan) ==
    IF Operational(plan) THEN tree ELSE [tree EXCEPT !.files = Patched(@, plan.patch)]

\* Its configuration: the one in the copy, or the one the command began with.
ConfigFor(plan) == IF Operational(plan) THEN diagnosis.config ELSE tree.config

\* Faulty: a verification that cannot be carried out stays to be done.
FailedRetried(plan) ==
    /\ verifications' = verifications \cup
                            {[plan |-> plan, attempted |-> TRUE, verified |-> FALSE, run |-> Nothing]}
    /\ UNCHANGED pending

\* The Err arm of verify_plan: what was built is not reported.
Failed(plan) ==
    /\ verifications' = verifications \cup
                            {[plan |-> plan, attempted |-> TRUE, verified |-> FALSE, run |-> Nothing]}
    /\ pending' = pending \ {plan}

-------------------------------------------------------------------------------
(* The command                                                             *)

FixInit ==
    /\ pc = "load"
    /\ tree = Nothing
    /\ edits = 0
    /\ diagnosis = Nothing
    /\ pending = {}
    /\ current = Nothing
    /\ verifications = {}

\* run_fix loads the configuration, check_project digests the tree.
LoadConfig ==
    /\ pc = "load"
    /\ \E t \in Trees :
        /\ tree' = t
        /\ diagnosis' = [config |-> t.config, digest |-> Nothing, results |-> {}]
        /\ pc' = IF Valid(t.config) THEN "digest" ELSE "ended"
    /\ UNCHANGED <<edits, pending, current, verifications, evidenceVars>>

DigestSource ==
    /\ pc = "digest"
    /\ diagnosis' = [diagnosis EXCEPT !.digest = tree]
    /\ pc' = "diagnose"
    /\ UNCHANGED <<tree, edits, pending, current, verifications, evidenceVars>>

\* The diagnosis may attribute changes to any planned interventions, with the
\* confidence and the evidence a plan asks for.
Diagnose ==
    /\ pc = "diagnose"
    /\ \E results \in SUBSET {p \in Plans(diagnosis.config) : p.kind \in FixableKinds} :
        diagnosis' = [diagnosis EXCEPT !.results = results]
    /\ pc' = "plan"
    /\ UNCHANGED <<tree, edits, pending, current, verifications, evidenceVars>>

\* With --verify every candidate is verified, without it none.
GeneratePlans ==
    /\ pc = "plan"
    /\ pending' \in {{}, generate_fix_plans(diagnosis.config, tree.files, diagnosis.results)}
    /\ pc' = "verify"
    /\ UNCHANGED <<tree, edits, diagnosis, current, verifications, evidenceVars>>

SkipUnsupported ==
    /\ pc = "verify"
    /\ \E plan \in pending :
        /\ ~plan.supported
        /\ verifications' = verifications \cup
                {[plan |-> plan, attempted |-> FALSE, verified |-> FALSE, run |-> Nothing]}
        /\ pending' = pending \ {plan}
    /\ UNCHANGED <<pc, tree, edits, diagnosis, current, evidenceVars>>

\* verify_plan_inner up to the first build.
StartVerification ==
    /\ pc = "verify"
    /\ \E plan \in pending :
        LET config == ConfigFor(plan)
            baseline == baseline_environment(config)
            pin == baseline_environment(diagnosis.config)
        IN  /\ plan.supported
            /\ IF Operational(plan) THEN tree = diagnosis.digest
               ELSE Precondition(tree.files, plan.patch)
            /\ Valid(config)
            /\ \E planned \in Plans(config) :
                /\ planned.variable = plan.variable
                /\ current' = [plan |-> plan,
                               copied |-> tree,
                               digest |-> Verified(plan),
                               config |-> Flagged(config, plan),
                               baseline |-> Pinned(plan, baseline, pin),
                               intervention |-> Pinned(plan, planned.environment, pin),
                               builds |-> <<>>]
    /\ pc' = "build"
    /\ UNCHANGED <<tree, edits, diagnosis, pending, verifications, evidenceVars>>

\* A plan that cannot start, for a stale patch, an edited source, an invalid
\* configuration, a lost intervention or any failure of the system.
RefuseVerification ==
    /\ pc = "verify"
    /\ \E plan \in pending : plan.supported /\ Failed(plan)
    /\ UNCHANGED <<pc, tree, edits, diagnosis, current, evidenceVars>>

\* Two baseline builds, then two of the intervention.  A private copy keeps what
\* was verified; the project itself is copied again for each build.
VerificationRuns == 2

Build ==
    /\ pc = "build"
    /\ Len(current.builds) < 2 * VerificationRuns
    /\ \E artifact \in Artifacts :
        current' = [current EXCEPT !.builds =
            Append(@, [tree |-> IF Operational(current.plan) THEN tree ELSE current.digest,
                       environment |-> IF Len(@) < VerificationRuns THEN current.baseline
                                       ELSE current.intervention,
                       artifact |-> artifact])]
    /\ UNCHANGED <<pc, tree, edits, diagnosis, pending, verifications, evidenceVars>>

\* A build that fails, or that cannot be persisted.
AbandonVerification ==
    /\ pc = "build"
    /\ Len(current.builds) < 2 * VerificationRuns
    /\ Failed(current.plan)
    /\ current' = Nothing
    /\ pc' = "verify"
    /\ UNCHANGED <<tree, edits, diagnosis, evidenceVars>>

same_artifact_hashes(left, right) == left.artifact = right.artifact

runs_stable(builds) == \A i \in DOMAIN builds : same_artifact_hashes(builds[1], builds[i])

ConcludeVerification ==
    /\ pc = "build"
    /\ Len(current.builds) = 2 * VerificationRuns
    /\ LET Baseline == SubSeq(current.builds, 1, VerificationRuns)
           Intervention == SubSeq(current.builds, VerificationRuns + 1, 2 * VerificationRuns)
       IN  verifications' = verifications \cup
            {[plan |-> current.plan,
              attempted |-> TRUE,
              verified |-> /\ runs_stable(Baseline)
                           /\ runs_stable(Intervention)
                           /\ \A i \in DOMAIN Intervention :
                                same_artifact_hashes(Baseline[1], Intervention[i]),
              run |-> current]}
    /\ pending' = pending \ {current.plan}
    /\ current' = Nothing
    /\ pc' = "verify"
    /\ UNCHANGED <<tree, edits, diagnosis, evidenceVars>>

\* persist_fix_report
CreateReport ==
    /\ pc = "verify"
    /\ pending = {}
    /\ \E p \in RealPaths : CreateNew(p)
    /\ pc' = "fill"
    /\ UNCHANGED <<tree, edits, diagnosis, pending, current, verifications, job>>

FillReport ==
    /\ pc = "fill"
    /\ \E p \in RealPaths, report \in Documents :
        /\ disk[p] = Partial
        /\ report.kind = "fix_report" /\ report.version = Current("fix_report")
        /\ FillIn(p, report)
    /\ pc' = "ended"
    /\ UNCHANGED <<tree, edits, diagnosis, pending, current, verifications, job>>

\* The process is stopped, or the command ends with an error.
StopFix ==
    /\ pc \notin {"load", "ended"}
    /\ pc' = "ended"
    /\ UNCHANGED <<tree, edits, diagnosis, pending, current, verifications, evidenceVars>>

EditProject ==
    /\ pc \notin {"load", "ended"}
    /\ edits < MaxEdits
    /\ edits' = edits + 1
    /\ tree' \in Trees \ {tree}
    /\ UNCHANGED <<pc, diagnosis, pending, current, verifications, evidenceVars>>

FixNext ==
    \/ LoadConfig
    \/ DigestSource
    \/ Diagnose
    \/ GeneratePlans
    \/ SkipUnsupported
    \/ StartVerification
    \/ RefuseVerification
    \/ Build
    \/ AbandonVerification
    \/ ConcludeVerification
    \/ CreateReport
    \/ FillReport
    \/ StopFix
    \/ EditProject

FixSpec == FixInit /\ EvidenceInit /\ [][FixNext]_allFixVars

-------------------------------------------------------------------------------
(* Properties                                                              *)

ReplayedSoFar(run) ==
    \A i \in DOMAIN run.builds :
        /\ run.builds[i].environment =
              IF i <= VerificationRuns THEN run.baseline ELSE run.intervention
        /\ ~Operational(run.plan) => run.builds[i].tree = run.digest

\* What a verification has established when its first build starts, and keeps.
Started(run) ==
    /\ run.plan.supported
    /\ Operational(run.plan) => run.digest = diagnosis.digest /\ run.copied = run.digest
    /\ ~Operational(run.plan) =>
        /\ run.copied.files[run.plan.patch.path] = run.plan.patch.expected
        /\ run.digest = [run.copied EXCEPT !.files = Patched(@, run.plan.patch)]
    /\ ReplayedSoFar(run)

\* Each candidate is verified once, and not before the candidates are known; the
\* one under way is still to be reported and keeps to the sources it began with;
\* no report is persisted before all of them are done.
FixInv ==
    /\ pc \in {"load", "digest", "diagnose", "plan"} => pending = {} /\ verifications = {}
    /\ \A v \in verifications : v.plan \notin pending
    /\ \A v, w \in verifications : v.plan = w.plan => v = w
    /\ pc = "build" => /\ current.plan \in pending
                       /\ Len(current.builds) <= 2 * VerificationRuns
                       /\ Started(current)
    /\ pc = "fill" => pending = {}

\* The intervention builds differ from the baseline builds in something a build
\* can notice.
Replayed(run) == Inputs(run.config, run.intervention) # Inputs(run.config, run.baseline)

\* "Verified" is earned: by four builds with the same artifacts, two of them of
\* the original intervention; of the diagnosed sources, or of a copy whose file
\* had the very contents the patch was written for and which no edit reached
\* between the builds.  Pinning (a timestamp or umask fix without a patch) is
\* left out of the replay: it makes both environments the same.
VerifiedIsEarned ==
    \A v \in verifications :
        v.verified =>
            /\ v.attempted
            /\ Len(v.run.builds) = 2 * VerificationRuns
            /\ \A i, j \in DOMAIN v.run.builds :
                v.run.builds[i].artifact = v.run.builds[j].artifact
            /\ Started(v.run)
            /\ ~Operational(v.plan) \/ v.plan.kind \in PathKinds => Replayed(v.run)
================================================================================
