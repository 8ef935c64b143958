-------------------------------- MODULE FixProofs --------------------------------
(***************************************************************************)
(* The fix engine reports as verified only what its builds have shown, for *)
(* every project, every edit of it and every outcome of the builds.        *)
(***************************************************************************)
EXTENDS Fix, TLAPS, SequenceTheorems

\* The names a fixable result goes by, from which the verification recovers the
\* intervention.
FixableVariables ==
    {<<"source_path">>, <<"build_path">>, <<"SOURCE_DATE_EPOCH">>, <<"source_mtime">>,
     <<"umask">>}

-------------------------------------------------------------------------------
(* The interventions of a fixable result                                   *)

LEMMA FixableAreNamed ==
    ASSUME NEW c, NEW p \in Plans(c), p.kind \in FixableKinds
    PROVE  p.variable \in FixableVariables
<1> DEFINE b == baseline_environment(c)
<1>1. \/ p \in ImageInterventions(c, b)
      \/ p \in ToolchainInterventions(c, b)
      \/ p \in DependencyInterventions(c, b)
      \/ p \in ScalarInterventions(c, b)
      \/ p \in KeyInterventions(c, b)
      \/ p \in VariableInterventions(c, b)
  BY DEF Plans, plan_interventions
<1> HIDE DEF b
<1>2. CASE p \in ImageInterventions(c, b)
  BY <1>2 DEF ImageInterventions, Planned, FixableKinds, PathKinds
<1>3. CASE p \in ToolchainInterventions(c, b)
  BY <1>3 DEF ToolchainInterventions, Planned, FixableKinds, PathKinds
<1>4. CASE p \in DependencyInterventions(c, b)
  BY <1>4 DEF DependencyInterventions, Planned, FixableKinds, PathKinds
<1>5. CASE p \in ScalarInterventions(c, b)
  <2>1. PICK d \in DOMAIN ScalarDimensions :
            p.kind = ScalarDimensions[d][1] /\ p.variable = <<d>>
    BY <1>5 DEF ScalarInterventions, Planned
  <2> QED
    BY <2>1 DEF ScalarDimensions, FixableKinds, PathKinds, FixableVariables
<1>6. CASE p \in KeyInterventions(c, b)
  <2>1. PICK d \in DOMAIN KeyDimensions :
            p.kind = KeyDimensions[d][1] /\ p.variable = <<KeyDimensions[d][2]>>
    BY <1>6 DEF KeyInterventions, Planned
  <2> QED
    BY <2>1 DEF KeyDimensions, FixableKinds, PathKinds, FixableVariables
<1>7. CASE p \in VariableInterventions(c, b)
  <2>1. PICK k \in Pairs(c.environment_variables) :
            p = Planned("EnvironmentVariable", <<k>>, SetKeys(b, {k}, c.environment_variables[k][2]))
    BY <1>7, Zenon DEF VariableInterventions
  <2> QED
    BY <2>1 DEF Planned, FixableKinds, PathKinds
<1> QED
  BY <1>1, <1>2, <1>3, <1>4, <1>5, <1>6, <1>7

\* A setting, or a variable no wrapper or hint replaces, reaches the build.
LEMMA SettingIsNoticed ==
    ASSUME NEW d, NEW e, NEW g, NEW f \in Scalars \ {"image_override"}, e[f] # g[f]
    PROVE  Inputs(d, e) # Inputs(d, g)
<1>1. <<"setting", f>> \in Places /\ <<"setting", f>> # <<"setting", "image_override">>
  BY DEF Places
<1>2. Inputs(d, e)[<<"setting", f>>] = e[f] /\ Inputs(d, g)[<<"setting", f>>] = g[f]
  BY <1>1 DEF Inputs
<1> QED
  BY <1>2

LEMMA VariableIsNoticed ==
    ASSUME NEW d, NEW e, NEW g, NEW k \in EnvironmentKeys, k # "REPROBISECT_CPU_COUNT",
           k \in Tools => e.toolchain_bindings[k] = Unset /\ g.toolchain_bindings[k] = Unset,
           e.environment[k] # Unset, g.environment[k] # Unset,
           e.environment[k] # g.environment[k]
    PROVE  Inputs(d, e) # Inputs(d, g)
<1>1. <<"variable", k>> \in Places /\ <<"variable", k>> # <<"setting", "image_override">>
  BY DEF Places
<1>2. /\ Inputs(d, e)[<<"variable", k>>] = Variable(d, e, k)
      /\ Inputs(d, g)[<<"variable", k>>] = Variable(d, g, k)
  BY <1>1 DEF Inputs
<1>3. Variable(d, e, k) = e.environment[k] /\ Variable(d, g, k) = g.environment[k]
  BY DEF Variable, Or
<1> QED
  BY <1>2, <1>3

\* The intervention recovered by a fixable name shows, whatever the flags the
\* build is given: it may be a variable that happens to have the name.
LEMMA RecoveredIsNoticed ==
    ASSUME NEW c, WellTyped(c), Valid(c), NEW p \in Plans(c), p.variable \in FixableVariables,
           NEW d
    PROVE  Inputs(d, p.environment) # Inputs(d, baseline_environment(c))
<1> DEFINE b == baseline_environment(c)
<1>1. \/ p \in ImageInterventions(c, b)
      \/ p \in ToolchainInterventions(c, b)
      \/ p \in DependencyInterventions(c, b)
      \/ p \in ScalarInterventions(c, b)
      \/ p \in KeyInterventions(c, b)
      \/ p \in VariableInterventions(c, b)
  BY DEF Plans, plan_interventions
<1>2. CASE p \in ImageInterventions(c, b)
  BY <1>2 DEF ImageInterventions, Planned, FixableVariables
<1>3. CASE p \in ToolchainInterventions(c, b)
  BY <1>3 DEF ToolchainInterventions, Planned, FixableVariables
<1>4. CASE p \in DependencyInterventions(c, b)
  BY <1>4 DEF DependencyInterventions, Planned, FixableVariables
<1>5. CASE p \in ScalarInterventions(c, b)
  <2>1. PICK dimension \in c.dimensions \cap DOMAIN ScalarDimensions :
            /\ p.variable = <<dimension>>
            /\ p.environment = [b EXCEPT ![ScalarDimensions[dimension][2]] =
                                    ScalarDimensions[dimension][3]]
    BY <1>5 DEF ScalarInterventions, Planned
  <2>2. dimension \in {"source_path", "build_path", "source_mtime", "umask"}
    BY <2>1 DEF FixableVariables, ScalarDimensions
  <2> DEFINE f == ScalarDimensions[dimension][2]
  <2>3. f \in Scalars \ {"image_override"} /\ f \in DOMAIN b
    BY <2>2 DEF ScalarDimensions, Scalars, baseline_environment
  <2>4. b[f] # ScalarDimensions[dimension][3]
    BY <2>1, <2>2 DEF ScalarDimensions, baseline_environment, When
  <2>5. p.environment[f] # b[f]
    BY <2>1, <2>3, <2>4
  <2> HIDE DEF f, b
  <2> QED
    BY <2>3, <2>5, SettingIsNoticed DEF b
<1>6. CASE p \in KeyInterventions(c, b)
  <2>1. PICK dimension \in c.dimensions \cap DOMAIN KeyDimensions :
            /\ p.variable = <<KeyDimensions[dimension][2]>>
            /\ p.environment = SetKeys(b, KeyDimensions[dimension][3], KeyDimensions[dimension][4])
    BY <1>6 DEF KeyInterventions, Planned
  <2>2. p.environment = SetKeys(b, {"SOURCE_DATE_EPOCH"}, "1577836800")
    BY <2>1 DEF FixableVariables, KeyDimensions
  <2> DEFINE k == "SOURCE_DATE_EPOCH"
  <2>3. k \in EnvironmentKeys /\ k \in BuiltInKeys /\ k \notin Tools
    BY EnvironmentsAssumption DEF EnvironmentKeys, BuiltInKeys, BuiltInVariables, ToolchainKeys
  <2>4. c.environment_variables[k] = <<>>
    BY <2>3 DEF Valid, ValidVariables, Pairs, WellTyped
  <2>5. b.environment[k] = "946684800"
    BY <2>3, <2>4 DEF baseline_environment, When, BuiltInVariables
  <2>6. p.environment.environment[k] = "1577836800"
    BY <2>2, <2>3 DEF SetKeys, baseline_environment
  <2> QED
    BY <2>3, <2>5, <2>6, VariableIsNoticed, EnvironmentsAssumption DEF OwnValues
<1>7. CASE p \in VariableInterventions(c, b)
  <2>1. PICK k \in Pairs(c.environment_variables) :
            p.environment = SetKeys(b, {k}, c.environment_variables[k][2])
    BY <1>7 DEF VariableInterventions, Planned
  <2>2. k \in EnvironmentKeys /\ c.environment_variables[k] # <<>>
    BY <2>1 DEF Pairs, WellTyped
  <2>3. k # "REPROBISECT_CPU_COUNT" /\ Differ(c.environment_variables[k])
    BY <2>1 DEF Valid, ValidVariables
  <2>4. c.environment_variables[k] \in Seq(Values)
    BY <2>2 DEF WellTyped
  <2>5. c.environment_variables[k][1] \in Values /\ c.environment_variables[k][2] \in Values
    BY <2>3, <2>4 DEF Differ
  <2>6. b.environment[k] = c.environment_variables[k][1]
    BY <2>2 DEF baseline_environment
  <2>7. p.environment.environment[k] = c.environment_variables[k][2]
    BY <2>1, <2>2 DEF SetKeys, baseline_environment
  <2>8. k \in Tools => b.toolchain_bindings[k] = Unset
    <3>1. k \in Tools => c.toolchain_variables[k] = <<>>
      BY <2>2 DEF Valid, ValidToolchains, Pairs, WellTyped
    <3> QED
      BY <3>1 DEF baseline_environment, First
  <2>9. p.environment.toolchain_bindings = b.toolchain_bindings
    BY <2>1 DEF SetKeys, baseline_environment
  <2> HIDE DEF b
  <2> QED
    BY <2>2, <2>3, <2>5, <2>6, <2>7, <2>8, <2>9, VariableIsNoticed, EnvironmentsAssumption
       DEF Differ, b
<1> QED
  BY <1>1, <1>2, <1>3, <1>4, <1>5, <1>6, <1>7

-------------------------------------------------------------------------------
(* The invariant                                                           *)

\* What a verification under way has besides Started: the builds it has made, and
\* an intervention that can be noticed.
BuildsOf(run) ==
    [tree : Trees \cup {run.digest}, environment : {run.baseline, run.intervention},
     artifact : Artifacts]

IsRun(run) ==
    /\ DOMAIN run = {"plan", "copied", "digest", "config", "baseline", "intervention", "builds"}
    /\ run.builds \in Seq(BuildsOf(run))
    /\ Len(run.builds) <= 2 * VerificationRuns
    /\ Started(run)
    /\ ~Operational(run.plan) \/ run.plan.kind \in PathKinds => Replayed(run)

Steps == {"load", "digest", "diagnose", "plan", "verify", "build", "fill", "ended"}

FixIInv ==
    /\ pc \in Steps
    /\ pc # "load" => tree \in Trees
    /\ pc \notin {"load", "ended"} => /\ DOMAIN diagnosis = {"config", "digest", "results"}
                                     /\ WellTyped(diagnosis.config) /\ Valid(diagnosis.config)
    /\ pc \in {"load", "digest", "diagnose", "plan"} => pending = {} /\ verifications = {}
    /\ pc = "plan" => \A r \in diagnosis.results : r.variable \in FixableVariables
    /\ \A plan \in pending : plan.variable \in FixableVariables
    /\ \A v \in verifications : v.plan \notin pending
    /\ \A v, w \in verifications : v.plan = w.plan => v = w
    /\ pc = "build" => current.plan \in pending /\ IsRun(current)
    /\ pc = "fill" => pending = {}
    /\ VerifiedIsEarned

LEMMA FixInvHolds == FixIInv => FixInv
BY DEF FixIInv, FixInv, IsRun

\* A new verification that does not claim success keeps the invariant's parts
\* about verifications.
LEMMA Reported ==
    ASSUME FixIInv, NEW plan \in pending, NEW v, v.plan = plan,
           v.verified = FALSE,
           verifications' = verifications \cup {v},
           pending' = pending \ {plan},
           UNCHANGED diagnosis
    PROVE  /\ \A w \in verifications' : w.plan \notin pending'
           /\ \A w, x \in verifications' : w.plan = x.plan => w = x
           /\ \A p \in pending' : p.variable \in FixableVariables
           /\ VerifiedIsEarned'
<1>1. \A w \in verifications : w.plan # plan
  BY DEF FixIInv
<1>2. \A w \in verifications' : w \in verifications \/ w = v
  OBVIOUS
<1>3. VerifiedIsEarned'
  BY <1>2 DEF FixIInv, VerifiedIsEarned, Started
<1> QED
  BY <1>1, <1>2, <1>3 DEF FixIInv

LEMMA FixIInit == FixInit => FixIInv
BY DEF FixInit, FixIInv, Steps, VerifiedIsEarned

LEMMA LoadConfigStep ==
    ASSUME FixIInv, LoadConfig
    PROVE  FixIInv'
<1>1. PICK t \in Trees :
            /\ tree' = t
            /\ diagnosis' = [config |-> t.config, digest |-> Nothing, results |-> {}]
            /\ pc' = IF Valid(t.config) THEN "digest" ELSE "ended"
  BY DEF LoadConfig
<1>2. pc = "load" /\ pending' = {} /\ verifications' = {}
  BY DEF LoadConfig, FixIInv
<1>3. WellTyped(t.config)
  BY FixAssumption
<1> QED
  BY <1>1, <1>2, <1>3 DEF FixIInv, Steps, VerifiedIsEarned

LEMMA StartVerificationStep ==
    ASSUME FixIInv, StartVerification
    PROVE  FixIInv'
<1>1. /\ pc = "verify" /\ pc' = "build"
      /\ UNCHANGED <<tree, edits, diagnosis, pending, verifications>>
  BY DEF StartVerification
<1>2. PICK plan \in pending :
        LET config == ConfigFor(plan)
            baseline == baseline_environment(config)
            pin == baseline_environment(diagnosis.config)
        IN  /\ plan.supported
            /\ IF Operational(plan) THEN tree = diagnosis.digest
               ELSE Precondition(tree.files, plan.patch)
            /\ Valid(config)
            /\ \E planned \in Plans(config) :
                /\ planned.variable = plan.variable
                /\ current' = [plan |-> plan,
                               copied |-> tree,
                               digest |-> Verified(plan),
                               config |-> Flagged(config, plan),
                               baseline |-> Pinned(plan, baseline, pin),
                               intervention |-> Pinned(plan, planned.environment, pin),
                               builds |-> <<>>]
  BY DEF StartVerification
<1> DEFINE config == ConfigFor(plan)
           baseline == baseline_environment(config)
           pin == baseline_environment(diagnosis.config)
<1>3. /\ plan.supported /\ Valid(config)
      /\ IF Operational(plan) THEN tree = diagnosis.digest
         ELSE Precondition(tree.files, plan.patch)
  BY <1>2
<1>4. PICK planned \in Plans(config) :
        /\ planned.variable = plan.variable
        /\ current' = [plan |-> plan,
                       copied |-> tree,
                       digest |-> Verified(plan),
                       config |-> Flagged(config, plan),
                       baseline |-> Pinned(plan, baseline, pin),
                       intervention |-> Pinned(plan, planned.environment, pin),
                       builds |-> <<>>]
  BY <1>2
<1>5. tree \in Trees /\ WellTyped(diagnosis.config)
  BY <1>1 DEF FixIInv
<1>6. WellTyped(config)
  BY <1>5, FixAssumption DEF ConfigFor
<1>7. plan.variable \in FixableVariables
  BY DEF FixIInv
<1>8. \A d : Inputs(d, planned.environment) # Inputs(d, baseline)
  BY <1>3, <1>4, <1>6, <1>7, RecoveredIsNoticed
<1> HIDE DEF config, baseline, pin
<1>9. ~Operational(plan) \/ plan.kind \in PathKinds => Replayed(current')
  <2>1. SUFFICES ASSUME ~Operational(plan) \/ plan.kind \in PathKinds
                 PROVE  Replayed(current')
    OBVIOUS
  <2>2. /\ Pinned(plan, baseline, pin) = baseline
        /\ Pinned(plan, planned.environment, pin) = planned.environment
    BY <2>1 DEF Pinned, PathKinds
  <2> QED
    BY <1>4, <1>8, <2>2 DEF Replayed
<1>10. Started(current)'
  <2>1. Operational(plan) => Verified(plan) = diagnosis.digest /\ tree = Verified(plan)
    BY <1>3 DEF Verified
  <2>2. ~Operational(plan) =>
            /\ tree.files[plan.patch.path] = plan.patch.expected
            /\ Verified(plan) = [tree EXCEPT !.files = Patched(@, plan.patch)]
    BY <1>3 DEF Verified, Precondition
  <2>3. ReplayedSoFar(current')
    BY <1>4 DEF ReplayedSoFar
  <2> QED
    BY <1>1, <1>3, <1>4, <2>1, <2>2, <2>3 DEF Started
<1>11. IsRun(current)'
  <2>1. current'.builds = <<>> /\ current'.builds \in Seq(BuildsOf(current'))
    BY <1>4
  <2>2. DOMAIN current' = {"plan", "copied", "digest", "config", "baseline", "intervention",
                           "builds"}
    BY <1>4
  <2>3. current'.plan = plan
    BY <1>4
  <2> QED
    BY <1>9, <1>10, <2>1, <2>2, <2>3 DEF IsRun, VerificationRuns, BuildsOf
<1>12. current'.plan \in pending'
  BY <1>1, <1>4
<1>13. VerifiedIsEarned'
  BY <1>1 DEF FixIInv, VerifiedIsEarned, Started
<1> QED
  BY <1>1, <1>11, <1>12, <1>13 DEF FixIInv, Steps

LEMMA BuildStep ==
    ASSUME FixIInv, Build
    PROVE  FixIInv'
<1> DEFINE position == Len(current.builds)
<1>1. PICK artifact \in Artifacts :
        current' = [current EXCEPT !.builds =
            Append(current.builds,
                   [tree |-> IF Operational(current.plan) THEN tree ELSE current.digest,
                    environment |-> IF position < VerificationRuns THEN current.baseline
                                    ELSE current.intervention,
                    artifact |-> artifact])]
  BY DEF Build
<1>2. /\ pc = "build" /\ Len(current.builds) < 2 * VerificationRuns
      /\ UNCHANGED <<pc, tree, edits, diagnosis, pending, verifications>>
  BY DEF Build
<1>3. IsRun(current) /\ current.plan \in pending /\ tree \in Trees
  BY <1>2 DEF FixIInv
<1> DEFINE build == [tree |-> IF Operational(current.plan) THEN tree ELSE current.digest,
                     environment |-> IF position < VerificationRuns THEN current.baseline
                                     ELSE current.intervention,
                     artifact |-> artifact]
           S == BuildsOf(current)
<1>4. build \in S
  BY <1>3 DEF BuildsOf
<1>5. /\ current'.builds = Append(current.builds, build)
      /\ \A f \in DOMAIN current \ {"builds"} : current'[f] = current[f]
      /\ DOMAIN current' = DOMAIN current
  BY <1>1, <1>3 DEF IsRun
<1>6. /\ current'.plan = current.plan /\ current'.copied = current.copied
      /\ current'.digest = current.digest /\ current'.config = current.config
      /\ current'.baseline = current.baseline /\ current'.intervention = current.intervention
  BY <1>3, <1>5 DEF IsRun
<1>7. current.builds \in Seq(S) /\ position \in Nat
  BY <1>3 DEF IsRun
<1>8. /\ Len(current'.builds) = position + 1
      /\ current'.builds \in Seq(S)
      /\ \A i \in 1..position : current'.builds[i] = current.builds[i]
      /\ current'.builds[position + 1] = build
  <2> HIDE DEF build, S
  <2> QED
    BY <1>4, <1>5, <1>7
<1> HIDE DEF S
<1>9. ReplayedSoFar(current')
  <2>1. SUFFICES ASSUME NEW i \in DOMAIN current'.builds
                 PROVE  /\ current'.builds[i].environment =
                              IF i <= VerificationRuns THEN current'.baseline
                              ELSE current'.intervention
                        /\ ~Operational(current'.plan) => current'.builds[i].tree = current'.digest
    BY DEF ReplayedSoFar
  <2>2. i \in 1..(position + 1)
    BY <1>8, <2>1
  <2>3. CASE i \in 1..position
    <3>1. i \in DOMAIN current.builds
      BY <1>7, <2>3
    <3> QED
      BY <1>3, <1>6, <1>8, <2>3, <3>1 DEF IsRun, Started, ReplayedSoFar
  <2>4. CASE i = position + 1
    <3>1. current'.builds[i] = build
      BY <1>8, <2>4
    <3>2. i <= VerificationRuns <=> position < VerificationRuns
      BY <1>7, <2>4 DEF VerificationRuns
    <3> QED
      BY <1>6, <3>1, <3>2
  <2> QED
    BY <1>7, <2>2, <2>3, <2>4
<1>10. Started(current)'
  BY <1>2, <1>3, <1>6, <1>9 DEF IsRun, Started
<1>11. BuildsOf(current') = S
  BY <1>6 DEF BuildsOf, S
<1>12. Replayed(current') <=> Replayed(current)
  BY <1>6 DEF Replayed
<1>13. IsRun(current)'
  <2>1. Len(current'.builds) <= 2 * VerificationRuns
    BY <1>2, <1>7, <1>8 DEF VerificationRuns
  <2>2. current'.builds \in Seq(BuildsOf(current'))
    BY <1>8, <1>11
  <2> QED
    BY <1>3, <1>5, <1>6, <1>10, <1>12, <2>1, <2>2 DEF IsRun
<1>14. VerifiedIsEarned'
  BY <1>2 DEF FixIInv, VerifiedIsEarned, Started
<1> QED
  BY <1>2, <1>3, <1>6, <1>13, <1>14 DEF FixIInv

\* Stable baseline builds, stable intervention builds, and the same artifacts on
\* both sides make all four the same.
LEMMA AllTheSame ==
    ASSUME NEW S, NEW builds \in Seq(S), Len(builds) = 4,
           runs_stable(SubSeq(builds, 1, 2)), runs_stable(SubSeq(builds, 3, 4)),
           \A i \in DOMAIN SubSeq(builds, 3, 4) :
                same_artifact_hashes(SubSeq(builds, 1, 2)[1], SubSeq(builds, 3, 4)[i])
    PROVE  \A i, j \in DOMAIN builds : builds[i].artifact = builds[j].artifact
<1> DEFINE left == SubSeq(builds, 1, 2)
           right == SubSeq(builds, 3, 4)
<1>1. Len(left) = 2 /\ left[1] = builds[1] /\ left[2] = builds[2] /\ DOMAIN left = 1..2
  OBVIOUS
<1>2. Len(right) = 2 /\ right[1] = builds[3] /\ right[2] = builds[4] /\ DOMAIN right = 1..2
  OBVIOUS
<1>0. runs_stable(left) /\ \A i \in DOMAIN right : same_artifact_hashes(left[1], right[i])
  OBVIOUS
<1> HIDE DEF left, right
<1>3. builds[1].artifact = builds[2].artifact
  BY <1>0, <1>1 DEF runs_stable, same_artifact_hashes
<1>4. builds[1].artifact = builds[3].artifact /\ builds[1].artifact = builds[4].artifact
  BY <1>0, <1>1, <1>2 DEF same_artifact_hashes
<1>5. DOMAIN builds = 1..4
  OBVIOUS
<1>6. \A i \in 1..4 : i = 1 \/ i = 2 \/ i = 3 \/ i = 4
  OBVIOUS
<1> QED
  BY <1>3, <1>4, <1>5, <1>6

LEMMA ConcludeVerificationStep ==
    ASSUME FixIInv, ConcludeVerification
    PROVE  FixIInv'
<1> DEFINE left == SubSeq(current.builds, 1, VerificationRuns)
           right == SubSeq(current.builds, VerificationRuns + 1, 2 * VerificationRuns)
           verdict == /\ runs_stable(left)
                      /\ runs_stable(right)
                      /\ \A i \in DOMAIN right : same_artifact_hashes(left[1], right[i])
           v == [plan |-> current.plan, attempted |-> TRUE, verified |-> verdict, run |-> current]
<1>1. /\ pc = "build" /\ pc' = "verify" /\ Len(current.builds) = 2 * VerificationRuns
      /\ verifications' = verifications \cup {v}
      /\ pending' = pending \ {current.plan}
      /\ UNCHANGED <<tree, edits, diagnosis>>
  BY DEF ConcludeVerification
<1>2. IsRun(current) /\ current.plan \in pending
  BY <1>1 DEF FixIInv
<1>3. v.verified =>
        /\ v.attempted
        /\ Len(v.run.builds) = 2 * VerificationRuns
        /\ \A i, j \in DOMAIN v.run.builds : v.run.builds[i].artifact = v.run.builds[j].artifact
        /\ Started(v.run)
        /\ ~Operational(v.plan) \/ v.plan.kind \in PathKinds => Replayed(v.run)
  <2>1. SUFFICES ASSUME verdict
                 PROVE  \A i, j \in DOMAIN current.builds :
                            current.builds[i].artifact = current.builds[j].artifact
    BY <1>1, <1>2 DEF IsRun
  <2>2. left = SubSeq(current.builds, 1, 2) /\ right = SubSeq(current.builds, 3, 4)
        /\ Len(current.builds) = 4
    BY <1>1 DEF VerificationRuns
  <2>3. current.builds \in Seq(BuildsOf(current))
    BY <1>2 DEF IsRun
  <2> HIDE DEF left, right
  <2> QED
    BY <2>1, <2>2, <2>3, AllTheSame
<1>4. v.plan = current.plan
  OBVIOUS
<1> HIDE DEF v
<1>5. \A w \in verifications' : w \in verifications \/ w = v
  BY <1>1
<1>6. \A w \in verifications : w.plan # current.plan
  BY <1>2 DEF FixIInv
<1>7. VerifiedIsEarned'
  <2>1. SUFFICES ASSUME NEW w \in verifications', w.verified
                 PROVE  /\ w.attempted
                        /\ Len(w.run.builds) = 2 * VerificationRuns
                        /\ \A i, j \in DOMAIN w.run.builds :
                            w.run.builds[i].artifact = w.run.builds[j].artifact
                        /\ Started(w.run)'
                        /\ ~Operational(w.plan) \/ w.plan.kind \in PathKinds => Replayed(w.run)
    BY DEF VerifiedIsEarned
  <2>2. Started(w.run)' <=> Started(w.run)
    BY <1>1 DEF Started
  <2>3. CASE w = v
    BY <1>3, <2>1, <2>2, <2>3
  <2>4. CASE w \in verifications
    BY <2>1, <2>2, <2>4 DEF FixIInv, VerifiedIsEarned
  <2> QED
    BY <1>5, <2>3, <2>4
<1>8. /\ \A w \in verifications' : w.plan \notin pending'
      /\ \A w, x \in verifications' : w.plan = x.plan => w = x
      /\ \A p \in pending' : p.variable \in FixableVariables
  BY <1>1, <1>4, <1>5, <1>6 DEF FixIInv
<1> QED
  BY <1>1, <1>7, <1>8 DEF FixIInv, Steps

LEMMA FixStutter ==
    FixIInv /\ UNCHANGED fixVars => FixIInv'
BY DEF fixVars, FixIInv, VerifiedIsEarned, IsRun, Started, BuildsOf

LEMMA FixStep ==
    FixIInv /\ [FixNext]_allFixVars => FixIInv'
<1> SUFFICES ASSUME FixIInv, [FixNext]_allFixVars
             PROVE  FixIInv'
  OBVIOUS
<1>1. CASE LoadConfig
  BY <1>1, LoadConfigStep
<1>2. CASE DigestSource
  BY <1>2 DEF DigestSource, FixIInv, Steps, VerifiedIsEarned
<1>3. CASE Diagnose
  <2>1. PICK results \in SUBSET {p \in Plans(diagnosis.config) : p.kind \in FixableKinds} :
            diagnosis' = [diagnosis EXCEPT !.results = results]
    BY <1>3 DEF Diagnose
  <2>2. diagnosis'.config = diagnosis.config /\ diagnosis'.results = results
    BY <2>1 DEF FixIInv
  <2>3. \A r \in results : r.variable \in FixableVariables
    BY FixableAreNamed
  <2> QED
    BY <1>3, <2>2, <2>3 DEF Diagnose, FixIInv, Steps, VerifiedIsEarned
<1>4. CASE GeneratePlans
  <2>1. pending' \in {{}, {FixPlan(diagnosis.config, tree.files, r) : r \in diagnosis.results}}
    BY <1>4 DEF GeneratePlans, generate_fix_plans
  <2>2. \A r : FixPlan(diagnosis.config, tree.files, r).variable = r.variable
    BY DEF FixPlan
  <2>3. \A plan \in pending' : plan.variable \in FixableVariables
    BY <1>4, <2>1, <2>2 DEF GeneratePlans, FixIInv
  <2>4. VerifiedIsEarned'
    BY <1>4 DEF GeneratePlans, FixIInv, VerifiedIsEarned, Started
  <2> QED
    BY <1>4, <2>3, <2>4 DEF GeneratePlans, FixIInv, Steps
<1>5. CASE SkipUnsupported
  <2>1. PICK plan \in pending :
            /\ verifications' = verifications \cup
                    {[plan |-> plan, attempted |-> FALSE, verified |-> FALSE, run |-> Nothing]}
            /\ pending' = pending \ {plan}
    BY <1>5 DEF SkipUnsupported
  <2> QED
    BY <1>5, <2>1, Reported DEF SkipUnsupported, FixIInv
<1>6. CASE StartVerification
  BY <1>6, StartVerificationStep
<1>7. CASE RefuseVerification
  <2>1. PICK plan \in pending : Failed(plan)
    BY <1>7 DEF RefuseVerification
  <2> QED
    BY <1>7, <2>1, Reported DEF RefuseVerification, Failed, FixIInv
<1>8. CASE Build
  BY <1>8, BuildStep
<1>9. CASE AbandonVerification
  <2>1. current.plan \in pending /\ Failed(current.plan)
    BY <1>9 DEF AbandonVerification, FixIInv
  <2> QED
    BY <1>9, <2>1, Reported DEF AbandonVerification, Failed, FixIInv, Steps
<1>10. CASE ConcludeVerification
  BY <1>10, ConcludeVerificationStep
<1>11. CASE CreateReport
  BY <1>11 DEF CreateReport, FixIInv, Steps, VerifiedIsEarned, Started
<1>12. CASE FillReport
  BY <1>12 DEF FillReport, FixIInv, Steps, VerifiedIsEarned, Started
<1>13. CASE StopFix
  BY <1>13 DEF StopFix, FixIInv, Steps, VerifiedIsEarned, Started
<1>14. CASE EditProject
  BY <1>14 DEF EditProject, FixIInv, Steps, VerifiedIsEarned, IsRun, BuildsOf, Started
<1>15. CASE UNCHANGED allFixVars
  BY <1>15, FixStutter DEF allFixVars
<1> QED
  BY <1>1, <1>2, <1>3, <1>4, <1>5, <1>6, <1>7, <1>8, <1>9, <1>10, <1>11, <1>12, <1>13,
     <1>14, <1>15 DEF FixNext

-------------------------------------------------------------------------------
(* The theorems                                                            *)

\* Whatever the project, the edits and the builds, a candidate is verified once, the
\* one under way keeps to the sources it began with, and no report is persisted
\* before all are done (verify_plan, persist_fix_report).
THEOREM FixInvariant == FixSpec => []FixInv
<1>1. FixInit => FixIInv
  BY FixIInit
<1>2. FixIInv /\ [FixNext]_allFixVars => FixIInv'
  BY FixStep
<1>3. FixIInv => FixInv
  BY FixInvHolds
<1> QED
  BY <1>1, <1>2, <1>3, PTL DEF FixSpec

\* For all of them, a fix reported as verified had four builds with the same
\* artifacts, of the sources it is about, two under an intervention that a build
\* can notice (verify_plan_inner).
THEOREM VerifiedFixesAreEarned == FixSpec => []VerifiedIsEarned
<1>1. FixInit => FixIInv
  BY FixIInit
<1>2. FixIInv /\ [FixNext]_allFixVars => FixIInv'
  BY FixStep
<1>3. FixIInv => VerifiedIsEarned
  BY DEF FixIInv
<1> QED
  BY <1>1, <1>2, <1>3, PTL DEF FixSpec
================================================================================
