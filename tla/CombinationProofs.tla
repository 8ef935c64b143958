--------------------------- MODULE CombinationProofs ---------------------------
(***************************************************************************)
(* The difference of two environments and its application, for every      *)
(* configuration and all manifests.                                        *)
(***************************************************************************)
EXTENDS Combination, WellFoundedInduction, TLAPS

Fields == Scalars \cup Maps \cup {"observed"}
KeysOf == [environment |-> EnvironmentKeys, toolchain_bindings |-> Tools,
           source_file_overrides |-> Files]

\* A record of the fields of ControlledEnvironment, with maps over all keys.
IsEnvironment(e) ==
    /\ DOMAIN e = Fields
    /\ e = [f \in Fields |-> e[f]]
    /\ \A m \in Maps : DOMAIN e[m] = KeysOf[m] /\ e[m] = [k \in KeysOf[m] |-> e[m][k]]

LEMMA FieldsApart ==
    /\ Scalars \cap Maps = {} /\ Scalars \subseteq Fields /\ Maps \subseteq Fields
    /\ "observed" \in Fields \ (Scalars \cup Maps)
BY DEF Scalars, Maps, Fields

LEMMA BaselineIsEnvironment ==
    ASSUME NEW c
    PROVE  /\ IsEnvironment(baseline_environment(c))
           /\ baseline_environment(c).observed = c.observed
<1> DEFINE b == baseline_environment(c)
<1>1. DOMAIN b = Fields
  BY DEF baseline_environment, Fields, Scalars, Maps
<1>2. b = [f \in Fields |-> b[f]]
  BY <1>1 DEF baseline_environment
<1>3. DOMAIN b.environment = EnvironmentKeys /\ b.environment = [k \in EnvironmentKeys |-> b.environment[k]]
  BY DEF baseline_environment
<1>4. DOMAIN b.toolchain_bindings = Tools /\ b.toolchain_bindings = [k \in Tools |-> b.toolchain_bindings[k]]
  BY DEF baseline_environment
<1>5. /\ DOMAIN b.source_file_overrides = Files
      /\ b.source_file_overrides = [f \in Files |-> b.source_file_overrides[f]]
  BY DEF baseline_environment
<1>6. b.observed = c.observed
  BY DEF baseline_environment
<1> HIDE DEF b
<1> QED
  BY <1>1, <1>2, <1>3, <1>4, <1>5, <1>6 DEF IsEnvironment, Maps, KeysOf, b

LEMMA SetKeysIsEnvironment ==
    ASSUME NEW e, IsEnvironment(e), NEW keys, NEW value
    PROVE  /\ IsEnvironment(SetKeys(e, keys, value))
           /\ SetKeys(e, keys, value).observed = e.observed
<1> DEFINE s == SetKeys(e, keys, value)
<1>1. DOMAIN s = Fields /\ s = [f \in Fields |-> s[f]]
  BY DEF SetKeys, IsEnvironment
<1>2. \A f \in Fields : f # "environment" => s[f] = e[f]
  BY DEF SetKeys, IsEnvironment
<1>3. s["environment"] = [k \in EnvironmentKeys |-> IF k \in keys THEN value ELSE e["environment"][k]]
  BY DEF SetKeys, IsEnvironment, Fields, Maps
<1>4. /\ DOMAIN s["environment"] = EnvironmentKeys
      /\ s["environment"] = [k \in EnvironmentKeys |-> s["environment"][k]]
  BY <1>3
<1> HIDE DEF s
<1>5. \A m \in Maps : DOMAIN s[m] = KeysOf[m] /\ s[m] = [k \in KeysOf[m] |-> s[m][k]]
  BY <1>2, <1>4 DEF IsEnvironment, Maps, KeysOf, Fields
<1>6. s.observed = e.observed
  BY <1>2 DEF Fields
<1> QED
  BY <1>1, <1>5, <1>6 DEF IsEnvironment, s

\* A record with twelve fields replaced is a function.
LEMMA Rebuilt ==
    ASSUME NEW e, NEW v1, NEW v2, NEW v3, NEW v4, NEW v5, NEW v6, NEW v7, NEW v8, NEW v9,
           NEW v10, NEW v11, NEW v12
    PROVE  LET a == [e EXCEPT !.image_override = v1, !.container_source_path = v2,
                        !.container_work_path = v3, !.source_copy_order = v4,
                        !.source_mtime_epoch = v5, !.hostname = v6, !.cpu_count = v7,
                        !.umask = v8, !.network_mode = v9, !.environment = v10,
                        !.toolchain_bindings = v11, !.source_file_overrides = v12]
           IN  a = [f \in DOMAIN a |-> a[f]]
OBVIOUS

\* What the three shorthands of a manifest do to the baseline.
LEMMA ManifestIsEnvironment ==
    ASSUME NEW m, NEW c
    PROVE  /\ IsEnvironment(ApplyManifest(m, baseline_environment(c), c))
           /\ ApplyManifest(m, baseline_environment(c), c).observed = c.observed
<1> DEFINE b == baseline_environment(c)
           Timed == IF m.source_date_epoch # Unset
                    THEN SetKeys(b, {"SOURCE_DATE_EPOCH"}, m.source_date_epoch) ELSE b
           Zoned == IF m.timezone # Unset THEN SetKeys(Timed, {"TZ"}, m.timezone) ELSE Timed
           Localised == IF m.locale # Unset THEN SetKeys(Zoned, {"LANG", "LC_ALL"}, m.locale)
                        ELSE Zoned
           a == ApplyManifest(m, b, c)
<1>1. IsEnvironment(b) /\ b.observed = c.observed
  BY BaselineIsEnvironment
<1> HIDE DEF b
<1>2. IsEnvironment(Timed) /\ Timed.observed = c.observed
  BY <1>1, SetKeysIsEnvironment
<1> HIDE DEF Timed
<1>3. IsEnvironment(Zoned) /\ Zoned.observed = c.observed
  BY <1>2, SetKeysIsEnvironment
<1> HIDE DEF Zoned
<1>4. IsEnvironment(Localised) /\ Localised.observed = c.observed
  BY <1>3, SetKeysIsEnvironment
<1>5. DOMAIN a = DOMAIN Localised
  BY DEF ApplyManifest, Zoned, Timed
<1>6. a.environment = [k \in EnvironmentKeys |->
            Or(m.variables[k], IF k \in m.unset_variables THEN Unset ELSE Localised.environment[k])]
  BY <1>4 DEF ApplyManifest, Zoned, Timed, IsEnvironment, Fields, Maps
<1>7. a.toolchain_bindings = [k \in Tools |->
            Or(m.toolchain[k], IF k \in m.unset_toolchain THEN Unset
                               ELSE Localised.toolchain_bindings[k])]
  BY <1>4 DEF ApplyManifest, Zoned, Timed, IsEnvironment, Fields, Maps
<1>8. a.source_file_overrides =
        [f \in Files |-> Or(m.dependency_overrides[f], Localised.source_file_overrides[f])]
  BY <1>4 DEF ApplyManifest, Zoned, Timed, IsEnvironment, Fields, Maps
<1>9. a.observed = Localised.observed
  BY <1>4 DEF ApplyManifest, Zoned, Timed, IsEnvironment, Fields
<1>10. a = [f \in DOMAIN a |-> a[f]]
  <2> DEFINE e == Localised
  <2>1. a = [e EXCEPT
            !.image_override = IF m.image = Unset THEN e.image_override
                               ELSE When(m.image # c.image, m.image),
            !.container_source_path = Or(m.source_path, e.container_source_path),
            !.container_work_path = Or(m.build_path, e.container_work_path),
            !.source_copy_order = Or(m.source_copy_order, e.source_copy_order),
            !.source_mtime_epoch = Or(m.source_mtime_epoch, e.source_mtime_epoch),
            !.hostname = Or(m.hostname, e.hostname),
            !.cpu_count = Or(m.cpu_count, e.cpu_count),
            !.umask = Or(m.umask, e.umask),
            !.network_mode = Or(m.network_mode, e.network_mode),
            !.environment = a.environment,
            !.toolchain_bindings = a.toolchain_bindings,
            !.source_file_overrides = a.source_file_overrides]
    BY <1>6, <1>7, <1>8 DEF ApplyManifest, Zoned, Timed
  <2> HIDE DEF a, e
  <2> QED
    BY <2>1, Rebuilt
<1> HIDE DEF a, Localised
<1>11. \A n \in Maps : DOMAIN a[n] = KeysOf[n] /\ a[n] = [k \in KeysOf[n] |-> a[n][k]]
  BY <1>6, <1>7, <1>8 DEF Maps, KeysOf
<1>12. DOMAIN a = Fields
  BY <1>4, <1>5 DEF IsEnvironment
<1> QED
  BY <1>4, <1>9, <1>10, <1>11, <1>12 DEF IsEnvironment, a, b

-------------------------------------------------------------------------------
(* The interventions as switches                                           *)

ToggleDimensions == DOMAIN ScalarDimensions \ {"network_access", "cpu_count"}

\* What an intervention moves: scalars, and entries of the environment's variables.
MovesScalar(p, b, f) == f \in Scalars /\ p.environment[f] # b[f]
MovesKey(p, b, k) == k \in EnvironmentKeys /\ p.environment.environment[k] # b.environment[k]

ScalarToggle(c, b, d) ==
    Planned(ScalarDimensions[d][1], <<d>>, [b EXCEPT ![ScalarDimensions[d][2]] = ScalarDimensions[d][3]])
KeyToggle(b, d) ==
    Planned(KeyDimensions[d][1], <<KeyDimensions[d][2]>>,
            SetKeys(b, KeyDimensions[d][3], KeyDimensions[d][4]))
VariableToggle(c, b, k) ==
    Planned("EnvironmentVariable", <<k>>, SetKeys(b, {k}, c.environment_variables[k][2]))

\* The interventions that may be combined, by family.
LEMMA ToggleFamilies ==
    ASSUME NEW c, NEW b, NEW p \in plan_interventions(c, b), eligible_for_interaction_search(p)
    PROVE  \/ \E d \in ToggleDimensions \cap c.dimensions : p = ScalarToggle(c, b, d)
           \/ \E d \in DOMAIN KeyDimensions \cap c.dimensions : p = KeyToggle(b, d)
           \/ \E k \in Pairs(c.environment_variables) : p = VariableToggle(c, b, k)
<1>1. \/ p \in ImageInterventions(c, b)
      \/ p \in ToolchainInterventions(c, b)
      \/ p \in DependencyInterventions(c, b)
      \/ p \in ScalarInterventions(c, b)
      \/ p \in KeyInterventions(c, b)
      \/ p \in VariableInterventions(c, b)
  BY DEF plan_interventions
<1>0. p.kind \notin {"CpuCount", "BuildImage", "ToolchainExecutable", "DependencyFile",
                     "NetworkAccess"}
  BY DEF eligible_for_interaction_search
<1>2. CASE p \in ImageInterventions(c, b)
  BY <1>0, <1>2 DEF ImageInterventions, Planned
<1>3. CASE p \in ToolchainInterventions(c, b)
  BY <1>0, <1>3 DEF ToolchainInterventions, Planned
<1>4. CASE p \in DependencyInterventions(c, b)
  BY <1>0, <1>4 DEF DependencyInterventions, Planned
<1>5. CASE p \in ScalarInterventions(c, b)
  <2>1. PICK d \in c.dimensions \cap DOMAIN ScalarDimensions : p = ScalarToggle(c, b, d)
    BY <1>5, Zenon DEF ScalarInterventions, ScalarToggle
  <2>2. p.kind = ScalarDimensions[d][1]
    BY <2>1 DEF ScalarToggle, Planned
  <2>3. d \in ToggleDimensions
    BY <1>0, <2>2 DEF ToggleDimensions, ScalarDimensions
  <2> QED
    BY <2>1, <2>3
<1>6. CASE p \in KeyInterventions(c, b)
  <2>1. PICK d \in c.dimensions \cap DOMAIN KeyDimensions : p = KeyToggle(b, d)
    BY <1>6, Zenon DEF KeyInterventions, KeyToggle
  <2> QED
    BY <2>1
<1>7. CASE p \in VariableInterventions(c, b)
  BY <1>7, Zenon DEF VariableInterventions, VariableToggle
<1> QED
  BY <1>1, <1>2, <1>3, <1>4, <1>5, <1>6, <1>7

\* The variables of the baseline by which an accepted configuration may be varied.
LEMMA VariableShape ==
    ASSUME NEW c, WellTyped(c), Valid(c), NEW k \in Pairs(c.environment_variables)
    PROVE  /\ k \in EnvironmentKeys \ (BuiltInKeys \cup {"REPROBISECT_CPU_COUNT"})
           /\ c.environment_variables[k][1] \in Values /\ c.environment_variables[k][2] \in Values
           /\ c.environment_variables[k][1] # c.environment_variables[k][2]
           /\ baseline_environment(c).environment[k] = c.environment_variables[k][1]
           /\ k \in Tools => baseline_environment(c).toolchain_bindings[k] = Unset
<1>1. k \in EnvironmentKeys /\ c.environment_variables[k] # <<>>
  BY DEF Pairs, WellTyped
<1>2. k \notin BuiltInKeys \cup {"REPROBISECT_CPU_COUNT"} /\ Differ(c.environment_variables[k])
  BY DEF Valid, ValidVariables
<1>3. c.environment_variables[k] \in Seq(Values)
  BY <1>1 DEF WellTyped
<1>4. c.environment_variables[k][1] \in Values /\ c.environment_variables[k][2] \in Values
  BY <1>2, <1>3 DEF Differ
<1>5. baseline_environment(c).environment[k] = c.environment_variables[k][1]
  BY <1>1 DEF baseline_environment
<1>6. k \in Tools => c.toolchain_variables[k] = <<>>
  BY <1>1 DEF Valid, ValidToolchains, Pairs, WellTyped
<1>7. k \in Tools => baseline_environment(c).toolchain_bindings[k] = Unset
  BY <1>6 DEF baseline_environment, First
<1> QED
  BY <1>1, <1>2, <1>4, <1>5, <1>7 DEF Differ

\* The program's own variables have its own values in the baseline.
LEMMA BuiltInShape ==
    ASSUME NEW c, WellTyped(c), Valid(c), NEW k \in BuiltInKeys
    PROVE  /\ k \in EnvironmentKeys /\ k \notin Tools /\ k # "REPROBISECT_CPU_COUNT"
           /\ baseline_environment(c).environment[k] = BuiltInVariables[k]
<1>1. k \in EnvironmentKeys /\ k \notin Tools /\ k # "REPROBISECT_CPU_COUNT"
  BY EnvironmentsAssumption DEF EnvironmentKeys, BuiltInKeys, BuiltInVariables, ToolchainKeys
<1>2. c.environment_variables[k] = <<>>
  BY <1>1 DEF Valid, ValidVariables, Pairs, WellTyped
<1> QED
  BY <1>1, <1>2 DEF baseline_environment, When

\* What each family moves, and to what.
LEMMA ScalarToggleMoves ==
    ASSUME NEW c, NEW d \in DOMAIN ScalarDimensions \cap c.dimensions,
           NEW b, b = baseline_environment(c), NEW p, p = ScalarToggle(c, b, d)
    PROVE  /\ \A f \in Fields : p.environment[f] # b[f] <=> f = ScalarDimensions[d][2]
           /\ ScalarDimensions[d][2] \in Scalars \ {"image_override"}
<1> DEFINE f == ScalarDimensions[d][2]
<1>1. p.environment = [b EXCEPT ![f] = ScalarDimensions[d][3]]
  BY DEF ScalarToggle, Planned
<1>2. f \in Scalars \ {"image_override"} /\ f \in Fields
  BY DEF ScalarDimensions, Scalars, Fields
<1>3. b[f] # ScalarDimensions[d][3]
  BY DEF ScalarDimensions, baseline_environment, When
<1>4. DOMAIN b = Fields
  BY BaselineIsEnvironment DEF IsEnvironment
<1> HIDE DEF f
<1>5. \A g \in Fields : p.environment[g] # b[g] <=> g = f
  BY <1>1, <1>2, <1>3, <1>4
<1> QED
  BY <1>2, <1>5 DEF f

LEMMA SetKeysMoves ==
    ASSUME NEW b, IsEnvironment(b), NEW keys, NEW value, NEW e, e = SetKeys(b, keys, value)
    PROVE  /\ \A f \in Fields \ {"environment"} : e[f] = b[f]
           /\ \A k \in EnvironmentKeys :
                e.environment[k] = IF k \in keys THEN value ELSE b.environment[k]
BY DEF SetKeys, IsEnvironment, Fields, Maps

LEMMA KeyToggleMoves ==
    ASSUME NEW c, WellTyped(c), Valid(c), NEW d \in DOMAIN KeyDimensions,
           NEW b, b = baseline_environment(c), NEW p, p = KeyToggle(b, d)
    PROVE  /\ \A f \in Fields \ {"environment"} : p.environment[f] = b[f]
           /\ \A k \in EnvironmentKeys : MovesKey(p, b, k) <=> k \in KeyDimensions[d][3]
           /\ \A k \in KeyDimensions[d][3] : p.environment.environment[k] \in OwnValues
           /\ KeyDimensions[d][3] \subseteq BuiltInKeys /\ KeyDimensions[d][3] # {}
<1> DEFINE keys == KeyDimensions[d][3]
           value == KeyDimensions[d][4]
<1>1. keys \subseteq BuiltInKeys /\ keys # {}
  BY DEF KeyDimensions, BuiltInKeys, BuiltInVariables
<1>2. value \in OwnValues /\ \A k \in keys : BuiltInVariables[k] # value
  BY DEF KeyDimensions, BuiltInVariables, OwnValues
<1>3. p.environment = SetKeys(b, keys, value)
  BY DEF KeyToggle, Planned
<1>4. keys \subseteq EnvironmentKeys /\ \A k \in keys : b.environment[k] = BuiltInVariables[k]
  BY <1>1, BuiltInShape
<1>5. IsEnvironment(b)
  BY BaselineIsEnvironment
<1> HIDE DEF keys, value
<1>6. /\ \A f \in Fields \ {"environment"} : p.environment[f] = b[f]
      /\ \A k \in EnvironmentKeys :
            p.environment.environment[k] = IF k \in keys THEN value ELSE b.environment[k]
  BY <1>3, <1>4, <1>5, SetKeysMoves
<1>7. \A k \in EnvironmentKeys : MovesKey(p, b, k) <=> k \in keys
  BY <1>2, <1>4, <1>6 DEF MovesKey
<1>8. \A k \in keys : p.environment.environment[k] \in OwnValues
  BY <1>2, <1>4, <1>6
<1> QED
  BY <1>1, <1>6, <1>7, <1>8 DEF keys

LEMMA VariableToggleMoves ==
    ASSUME NEW c, WellTyped(c), Valid(c), NEW k \in Pairs(c.environment_variables),
           NEW b, b = baseline_environment(c), NEW p, p = VariableToggle(c, b, k)
    PROVE  /\ \A f \in Fields \ {"environment"} : p.environment[f] = b[f]
           /\ \A j \in EnvironmentKeys : MovesKey(p, b, j) <=> j = k
           /\ p.environment.environment[k] \in Values
<1> DEFINE value == c.environment_variables[k][2]
<1>1. k \in EnvironmentKeys /\ value \in Values /\ b.environment[k] # value
  BY VariableShape
<1>2. p.environment = SetKeys(b, {k}, value)
  BY DEF VariableToggle, Planned
<1>3. IsEnvironment(b)
  BY BaselineIsEnvironment
<1> HIDE DEF value
<1>4. /\ \A f \in Fields \ {"environment"} : p.environment[f] = b[f]
      /\ \A j \in EnvironmentKeys :
            p.environment.environment[j] = IF j \in {k} THEN value ELSE b.environment[j]
  BY <1>1, <1>2, <1>3, SetKeysMoves
<1> QED
  BY <1>1, <1>4 DEF MovesKey

-------------------------------------------------------------------------------
(* One place, one switch                                                   *)

SearchPlan(c) == {p \in plan_interventions(c, baseline_environment(c)) :
                    eligible_for_interaction_search(p)}

\* What may be combined moves settings and variables only, variables to values.
LEMMA ToggleShape ==
    ASSUME NEW c, WellTyped(c), Valid(c), NEW p \in SearchPlan(c),
           NEW b, b = baseline_environment(c)
    PROVE  /\ \A f \in {"image_override", "cpu_count", "network_mode", "toolchain_bindings",
                        "source_file_overrides", "observed"} : p.environment[f] = b[f]
           /\ \A k \in EnvironmentKeys :
                MovesKey(p, b, k) =>
                    /\ p.environment.environment[k] # Unset
                    /\ k # "REPROBISECT_CPU_COUNT"
                    /\ k \in Tools => b.toolchain_bindings[k] = Unset
<1> DEFINE Still == {"image_override", "cpu_count", "network_mode", "toolchain_bindings",
                     "source_file_overrides", "observed"}
<1>0. Still \subseteq Fields \ {"environment"} /\ Unset \notin OwnValues /\ Unset \notin Values
  BY EnvironmentsAssumption DEF Fields, Scalars, Maps
<1>1. p \in plan_interventions(c, b) /\ eligible_for_interaction_search(p)
  BY DEF SearchPlan
<1>2. ASSUME NEW d \in ToggleDimensions \cap c.dimensions, p = ScalarToggle(c, b, d)
      PROVE  /\ \A f \in Still : p.environment[f] = b[f]
             /\ \A k \in EnvironmentKeys : ~MovesKey(p, b, k)
  <2>1. d \in DOMAIN ScalarDimensions \cap c.dimensions
    BY DEF ToggleDimensions
  <2>2. \A f \in Fields : p.environment[f] # b[f] <=> f = ScalarDimensions[d][2]
    BY <1>2, <2>1, ScalarToggleMoves
  <2>3. ScalarDimensions[d][2] \notin Still \cup {"environment"} /\ "environment" \in Fields
    BY DEF ToggleDimensions, ScalarDimensions, Fields, Maps
  <2> HIDE DEF Still
  <2> QED
    BY <1>0, <2>2, <2>3 DEF MovesKey
<1>3. ASSUME NEW d \in DOMAIN KeyDimensions, p = KeyToggle(b, d), NEW k \in EnvironmentKeys,
             MovesKey(p, b, k)
      PROVE  p.environment.environment[k] # Unset /\ k # "REPROBISECT_CPU_COUNT" /\ k \notin Tools
  <2>1. k \in KeyDimensions[d][3] /\ k \in BuiltInKeys
    BY <1>3, KeyToggleMoves
  <2>2. p.environment.environment[k] \in OwnValues
    BY <1>3, <2>1, KeyToggleMoves
  <2> QED
    BY <1>0, <2>1, <2>2, BuiltInShape
<1>4. ASSUME NEW j \in Pairs(c.environment_variables), p = VariableToggle(c, b, j),
             NEW k \in EnvironmentKeys, MovesKey(p, b, k)
      PROVE  /\ p.environment.environment[k] # Unset /\ k # "REPROBISECT_CPU_COUNT"
             /\ k \in Tools => b.toolchain_bindings[k] = Unset
  <2>1. k = j /\ p.environment.environment[k] \in Values
    BY <1>4, VariableToggleMoves
  <2> QED
    BY <1>0, <2>1, VariableShape
<1>5. (\E d \in DOMAIN KeyDimensions \cap c.dimensions : p = KeyToggle(b, d))
        => \A f \in Fields \ {"environment"} : p.environment[f] = b[f]
  BY KeyToggleMoves
<1>6. (\E k \in Pairs(c.environment_variables) : p = VariableToggle(c, b, k))
        => \A f \in Fields \ {"environment"} : p.environment[f] = b[f]
  BY VariableToggleMoves
<1>7. \/ \E d \in ToggleDimensions \cap c.dimensions : p = ScalarToggle(c, b, d)
      \/ \E d \in DOMAIN KeyDimensions \cap c.dimensions : p = KeyToggle(b, d)
      \/ \E k \in Pairs(c.environment_variables) : p = VariableToggle(c, b, k)
  BY <1>1, ToggleFamilies
<1>8. \A f \in Still : p.environment[f] = b[f]
  BY <1>0, <1>2, <1>5, <1>6, <1>7
<1> HIDE DEF Still
<1>9. \A k \in EnvironmentKeys : MovesKey(p, b, k) =>
        /\ p.environment.environment[k] # Unset
        /\ k # "REPROBISECT_CPU_COUNT"
        /\ k \in Tools => b.toolchain_bindings[k] = Unset
  BY <1>2, <1>3, <1>4, <1>7
<1> QED
  BY <1>8, <1>9 DEF Still

\* No two of them move the same scalar or the same variable.
LEMMA TogglesApart ==
    ASSUME NEW c, WellTyped(c), Valid(c), NEW p \in SearchPlan(c), NEW q \in SearchPlan(c), p # q,
           NEW b, b = baseline_environment(c)
    PROVE  /\ \A f \in Scalars : ~(MovesScalar(p, b, f) /\ MovesScalar(q, b, f))
           /\ \A k \in EnvironmentKeys : ~(MovesKey(p, b, k) /\ MovesKey(q, b, k))
<1> DEFINE Scalar(t) == \E d \in ToggleDimensions \cap c.dimensions : t = ScalarToggle(c, b, d)
           Key(t) == \E d \in DOMAIN KeyDimensions \cap c.dimensions : t = KeyToggle(b, d)
           Variables(t) == \E k \in Pairs(c.environment_variables) : t = VariableToggle(c, b, k)
<1>1. /\ Scalar(p) \/ Key(p) \/ Variables(p)
      /\ Scalar(q) \/ Key(q) \/ Variables(q)
  BY ToggleFamilies DEF SearchPlan
<1>2. \A t : Key(t) \/ Variables(t) => \A f \in Scalars : ~MovesScalar(t, b, f)
  <2>1. "environment" \notin Scalars /\ Scalars \subseteq Fields
    BY DEF Fields, Scalars
  <2> QED
    BY <2>1, KeyToggleMoves, VariableToggleMoves DEF MovesScalar
<1>3. ASSUME NEW d \in ToggleDimensions \cap c.dimensions
      PROVE  /\ \A f \in Scalars :
                    MovesScalar(ScalarToggle(c, b, d), b, f) <=> f = ScalarDimensions[d][2]
             /\ \A k \in EnvironmentKeys : ~MovesKey(ScalarToggle(c, b, d), b, k)
  <2>1. d \in DOMAIN ScalarDimensions \cap c.dimensions
    BY DEF ToggleDimensions
  <2> DEFINE t == ScalarToggle(c, b, d)
  <2>2. /\ \A f \in Fields : t.environment[f] # b[f] <=> f = ScalarDimensions[d][2]
        /\ ScalarDimensions[d][2] \in Scalars
    BY <2>1, ScalarToggleMoves
  <2> HIDE DEF t
  <2>3. Scalars \subseteq Fields /\ "environment" \in Fields \ Scalars
    BY DEF Fields, Scalars, Maps
  <2> QED
    BY <2>2, <2>3 DEF MovesScalar, MovesKey, t
<1>4. \A d, e \in ToggleDimensions : ScalarDimensions[d][2] = ScalarDimensions[e][2] => d = e
  BY DEF ToggleDimensions, ScalarDimensions
<1>5. \A d, e \in DOMAIN KeyDimensions :
        d # e => KeyDimensions[d][3] \cap KeyDimensions[e][3] = {}
  BY DEF KeyDimensions
<1>6. ASSUME NEW d \in DOMAIN KeyDimensions
      PROVE  /\ \A k \in EnvironmentKeys : MovesKey(KeyToggle(b, d), b, k) <=> k \in KeyDimensions[d][3]
             /\ KeyDimensions[d][3] \subseteq BuiltInKeys
  BY KeyToggleMoves
<1>7. ASSUME NEW k \in Pairs(c.environment_variables)
      PROVE  /\ \A j \in EnvironmentKeys : MovesKey(VariableToggle(c, b, k), b, j) <=> j = k
             /\ k \notin BuiltInKeys
  BY VariableToggleMoves, VariableShape
<1>8. ASSUME NEW f \in Scalars, MovesScalar(p, b, f), MovesScalar(q, b, f)
      PROVE  FALSE
  <2>1. Scalar(p) /\ Scalar(q)
    BY <1>1, <1>2, <1>8
  <2>2. PICK d \in ToggleDimensions \cap c.dimensions : p = ScalarToggle(c, b, d)
    BY <2>1
  <2>3. PICK e \in ToggleDimensions \cap c.dimensions : q = ScalarToggle(c, b, e)
    BY <2>1
  <2>4. f = ScalarDimensions[d][2] /\ f = ScalarDimensions[e][2]
    BY <1>3, <1>8, <2>2, <2>3
  <2> QED
    BY <1>4, <2>2, <2>3, <2>4
<1>9. ASSUME NEW k \in EnvironmentKeys, MovesKey(p, b, k), MovesKey(q, b, k)
      PROVE  FALSE
  <2>1. ~Scalar(p) /\ ~Scalar(q)
    BY <1>3, <1>9
  <2>2. CASE Key(p) /\ Key(q)
    BY <1>5, <1>6, <1>9, <2>2
  <2>3. CASE Variables(p) /\ Variables(q)
    BY <1>7, <1>9, <2>3
  <2>4. CASE Key(p) /\ Variables(q)
    BY <1>6, <1>7, <1>9, <2>4
  <2>5. CASE Variables(p) /\ Key(q)
    BY <1>6, <1>7, <1>9, <2>5
  <2> QED
    BY <1>1, <2>1, <2>2, <2>3, <2>4, <2>5
<1> QED
  BY <1>8, <1>9

\* What a build gets at a place depends on what is there.
LEMMA SameInputs ==
    ASSUME NEW c, NEW e, NEW g, NEW place \in Places,
           e.toolchain_bindings = g.toolchain_bindings,
           e.source_file_overrides = g.source_file_overrides,
           e.cpu_count = g.cpu_count,
           place[1] = "setting" => e[place[2]] = g[place[2]],
           place[1] = "variable" => e.environment[place[2]] = g.environment[place[2]],
           place[1] = "source" => e.container_source_path = g.container_source_path,
           place[1] = "build" => e.container_work_path = g.container_work_path
    PROVE  Inputs(c, e)[place] = Inputs(c, g)[place]
<1>1. \/ \E f \in Scalars : place = <<"setting", f>>
      \/ \E k \in EnvironmentKeys : place = <<"variable", k>>
      \/ \E k \in Tools : place \in {<<"tool", k>>, <<"source", k>>, <<"build", k>>}
      \/ \E f \in Files : place = <<"file", f>>
  BY DEF Places
<1>2. ASSUME NEW f \in Scalars, place = <<"setting", f>>
      PROVE  Inputs(c, e)[place] = Inputs(c, g)[place]
  <2>1. e[f] = g[f]
    BY <1>2
  <2> QED
    BY <1>2, <2>1 DEF Inputs
<1>3. ASSUME NEW k \in EnvironmentKeys, place = <<"variable", k>>
      PROVE  Inputs(c, e)[place] = Inputs(c, g)[place]
  <2>1. Variable(c, e, k) = Variable(c, g, k)
    BY <1>3 DEF Variable
  <2> QED
    BY <1>3, <2>1 DEF Inputs
<1>4. ASSUME NEW k \in Tools, place \in {<<"tool", k>>, <<"source", k>>, <<"build", k>>}
      PROVE  Inputs(c, e)[place] = Inputs(c, g)[place]
  <2>1. place[1] = "source" => Expanded(e, k, "source") = Expanded(g, k, "source")
    BY DEF Expanded
  <2>2. place[1] = "build" => Expanded(e, k, "build") = Expanded(g, k, "build")
    BY DEF Expanded
  <2> QED
    BY <1>4, <2>1, <2>2 DEF Inputs
<1>5. ASSUME NEW f \in Files, place = <<"file", f>>
      PROVE  Inputs(c, e)[place] = Inputs(c, g)[place]
  BY <1>5 DEF Inputs
<1> QED
  BY <1>1, <1>2, <1>3, <1>4, <1>5

Touches(c, p, b, place) == Inputs(c, p.environment)[place] # Inputs(c, b)[place]

\* Where an intervention of the search shows it has moved what is there.
LEMMA TouchedIsMoved ==
    ASSUME NEW c, WellTyped(c), Valid(c), NEW p \in SearchPlan(c),
           NEW b, b = baseline_environment(c),
           NEW place \in Places, Touches(c, p, b, place)
    PROVE  \/ place[1] = "setting" /\ MovesScalar(p, b, place[2])
           \/ place[1] = "variable" /\ MovesKey(p, b, place[2])
           \/ place[1] = "source" /\ MovesScalar(p, b, "container_source_path")
           \/ place[1] = "build" /\ MovesScalar(p, b, "container_work_path")
<1>1. /\ p.environment.toolchain_bindings = b.toolchain_bindings
      /\ p.environment.source_file_overrides = b.source_file_overrides
      /\ p.environment.cpu_count = b.cpu_count
  BY ToggleShape
<1>2. /\ place[1] = "setting" => place[2] \in Scalars
      /\ place[1] = "variable" => place[2] \in EnvironmentKeys
  BY DEF Places
<1>3. "container_source_path" \in Scalars /\ "container_work_path" \in Scalars
  BY DEF Scalars
<1>4. \/ place[1] = "setting" /\ p.environment[place[2]] # b[place[2]]
      \/ place[1] = "variable" /\ p.environment.environment[place[2]] # b.environment[place[2]]
      \/ place[1] = "source" /\ p.environment.container_source_path # b.container_source_path
      \/ place[1] = "build" /\ p.environment.container_work_path # b.container_work_path
  BY <1>1, SameInputs DEF Touches
<1> QED
  BY <1>2, <1>3, <1>4 DEF MovesScalar, MovesKey

LEMMA TouchedApart ==
    ASSUME NEW c, WellTyped(c), Valid(c), NEW p \in SearchPlan(c), NEW q \in SearchPlan(c), p # q,
           NEW b, b = baseline_environment(c), NEW place \in Places
    PROVE  ~(Touches(c, p, b, place) /\ Touches(c, q, b, place))
<1> SUFFICES ASSUME Touches(c, p, b, place), Touches(c, q, b, place)
             PROVE  FALSE
  OBVIOUS
<1>1. \/ place[1] = "setting" /\ MovesScalar(p, b, place[2]) /\ MovesScalar(q, b, place[2])
      \/ place[1] = "variable" /\ MovesKey(p, b, place[2]) /\ MovesKey(q, b, place[2])
      \/ /\ MovesScalar(p, b, "container_source_path")
         /\ MovesScalar(q, b, "container_source_path")
      \/ /\ MovesScalar(p, b, "container_work_path")
         /\ MovesScalar(q, b, "container_work_path")
  BY TouchedIsMoved
<1>2. /\ \A f : MovesScalar(p, b, f) => f \in Scalars
      /\ \A k : MovesKey(p, b, k) => k \in EnvironmentKeys
  BY DEF MovesScalar, MovesKey
<1> QED
  BY <1>1, <1>2, TogglesApart

-------------------------------------------------------------------------------
(* The files a build gets                                                  *)

\* Induction over the numbers, for a set in place of a predicate.
LEMMA NatSetInduction ==
    ASSUME NEW S, 0 \in S, \A n \in Nat : n \in S => n + 1 \in S
    PROVE  Nat \subseteq S
<1> DEFINE T == Nat \ S
           R == OpToRel(<, Nat)
<1> SUFFICES ASSUME T # {} PROVE FALSE
  OBVIOUS
<1>1. IsWellFoundedOn(R, Nat)
  BY NatLessThanWellFounded
<1>2. PICK x \in T : \A y \in T : ~(<<y, x>> \in R)
  <2> HIDE DEF R
  <2>1. T \subseteq Nat
    OBVIOUS
  <2> HIDE DEF T
  <2> QED
    BY <1>1, <2>1, WFMin
<1>3. x # 0 /\ x \in Nat
  OBVIOUS
<1>4. x - 1 \in Nat /\ x - 1 < x /\ x - 1 + 1 = x
  BY <1>3
<1>5. <<x - 1, x>> \in R
  BY <1>3, <1>4 DEF OpToRel
<1> QED
  BY <1>2, <1>3, <1>4, <1>5

\* Overrides that replace one file at most, and take every other one for itself:
\* from the replaced file's turn on it has the variant's contents.
OverrideAt(overrides, target, variant) ==
    \A f \in Files : overrides[f] = IF f = target THEN variant
                                    ELSE IF overrides[f] = Unset THEN Unset ELSE f

LEMMA ContentsOfOne ==
    ASSUME NEW overrides, NEW target \in Files, NEW variant \in Files,
           OverrideAt(overrides, target, variant)
    PROVE  Contents(overrides) = [f \in Files |-> IF f = target THEN variant ELSE f]
<1> DEFINE L == Len(FileOrder)
           replaced == [f \in Files |-> IF f = target THEN variant ELSE f]
           Step(h, i) ==
                IF i = 0 THEN [f \in Files |-> f]
                ELSE LET t == FileOrder[i]
                     IN  IF overrides[t] = Unset THEN h[i - 1]
                         ELSE [h[i - 1] EXCEPT ![t] = h[i - 1][overrides[t]]]
           Solves(h) == h = [i \in 0..L |-> Step(h, i)]
           given == [i \in 0..L |-> IF \E j \in 1..i : FileOrder[j] = target THEN replaced
                                    ELSE [f \in Files |-> f]]
           after == CHOOSE h : Solves(h)
<1>0. L \in Nat /\ \A i \in 1..L : FileOrder[i] \in Files
  BY EnvironmentsAssumption
<1>1. Contents(overrides) = after[L]
  BY DEF Contents
<1>2. Solves(given)
  <2>1. ASSUME NEW i \in 0..L
        PROVE  given[i] = Step(given, i)
    <3>1. CASE i = 0
      BY <3>1
    <3>2. CASE i # 0
      <4> DEFINE t == FileOrder[i]
      <4>1. i - 1 \in 0..L /\ i \in 1..L /\ t \in Files
        BY <1>0, <3>2
      <4>2. (\E j \in 1..i : FileOrder[j] = target)
                <=> (\E j \in 1..(i - 1) : FileOrder[j] = target) \/ t = target
        <5>1. 1..i = (1..(i - 1)) \cup {i}
          BY <4>1
        <5> QED
          BY <5>1
      <4>3. given[i - 1] \in {replaced, [f \in Files |-> f]}
        BY <4>1
      <4>4. CASE t # target
        <5>1. given[i] = given[i - 1]
          BY <4>1, <4>2, <4>4
        <5>2. overrides[t] = Unset \/ overrides[t] = t
          BY <4>1, <4>4 DEF OverrideAt
        <5>3. overrides[t] = t => [given[i - 1] EXCEPT ![t] = given[i - 1][overrides[t]]] = given[i - 1]
          BY <4>3
        <5> HIDE DEF given, t
        <5> QED
          BY <3>2, <5>1, <5>2, <5>3 DEF t
      <4>5. CASE t = target
        <5>1. overrides[t] = variant /\ variant # Unset
          BY <4>1, <4>5, EnvironmentsAssumption DEF OverrideAt
        <5>2. given[i] = replaced
          BY <4>2, <4>5
        <5>3. given[i - 1][variant] = variant
          BY <4>3
        <5>4. [given[i - 1] EXCEPT ![t] = variant] = replaced
          BY <4>3, <4>5
        <5> HIDE DEF given, t, replaced
        <5> QED
          BY <3>2, <5>1, <5>2, <5>3, <5>4 DEF t
      <4> QED
        BY <4>4, <4>5
    <3> QED
      BY <3>1, <3>2
  <2>2. given = [i \in 0..L |-> given[i]]
    OBVIOUS
  <2> HIDE DEF given, L, Step
  <2> QED
    BY <2>1, <2>2
<1>3. Solves(after)
  <2> HIDE DEF Solves
  <2> QED
    BY <1>2
<1>4. \A i \in 0..L : after[i] = Step(after, i) /\ given[i] = Step(given, i)
  <2> HIDE DEF Step, given, after, L
  <2> QED
    BY <1>2, <1>3
<1>5. after[L] = given[L]
  <2> DEFINE S == {n \in Nat : n \in 0..L => after[n] = given[n]}
  <2>1. 0 \in S
    <3>1. after[0] = Step(after, 0) /\ given[0] = Step(given, 0)
      <4>1. 0 \in 0..L
        BY <1>0
      <4> HIDE DEF Step, after, given, L
      <4> QED
        BY <1>4, <4>1
    <3>2. Step(after, 0) = Step(given, 0)
      OBVIOUS
    <3>3. after[0] = given[0]
      BY ONLY <3>1, <3>2
    <3> HIDE DEF Step, after, given
    <3> QED
      BY <3>3
  <2>2. ASSUME NEW n \in Nat, n \in S
        PROVE  n + 1 \in S
    <3>1. CASE n + 1 \in 0..L
      <4>1. after[n] = given[n]
        BY <1>0, <2>2, <3>1
      <4>2. n + 1 # 0 /\ (n + 1) - 1 = n
        OBVIOUS
      <4>3. Step(after, n + 1) = Step(given, n + 1)
        <5> HIDE DEF after, given
        <5> QED
          BY <4>1, <4>2
      <4> HIDE DEF Step, after, given
      <4> QED
        BY <1>4, <3>1, <4>3
    <3> QED
      BY <3>1
  <2> HIDE DEF S
  <2>3. L \in S
    BY <1>0, <2>1, <2>2, NatSetInduction
  <2> QED
    BY <1>0, <2>3 DEF S
<1>6. given[L] = replaced
  <2>1. \E j \in 1..L : FileOrder[j] = target
    BY <1>0, EnvironmentsAssumption DEF Files, Range
  <2> QED
    BY <1>0, <2>1
<1> QED
  BY <1>1, <1>5, <1>6

-------------------------------------------------------------------------------
(* Every intervention shows                                                *)

\* A variable that no wrapper or hint replaces reaches the build.
LEMMA VariableShows ==
    ASSUME NEW c, NEW e, NEW k \in EnvironmentKeys, k # "REPROBISECT_CPU_COUNT",
           k \in Tools => e.toolchain_bindings[k] = Unset, e.environment[k] # Unset
    PROVE  <<"variable", k>> \in Places /\ Inputs(c, e)[<<"variable", k>>] = e.environment[k]
<1>1. <<"variable", k>> \in Places
  BY DEF Places
<1>2. Variable(c, e, k) = e.environment[k]
  BY DEF Variable, Or
<1> QED
  BY <1>1, <1>2 DEF Inputs

LEMMA ToggleShows ==
    ASSUME NEW c, WellTyped(c), Valid(c), NEW p \in plan_interventions(c, baseline_environment(c)),
           NEW b, b = baseline_environment(c),
           NEW k \in EnvironmentKeys, MovesKey(p, b, k),
           k # "REPROBISECT_CPU_COUNT", k \in Tools => b.toolchain_bindings[k] = Unset,
           p.environment.toolchain_bindings = b.toolchain_bindings,
           p.environment.environment[k] # Unset, b.environment[k] # Unset
    PROVE  \E place \in Places : Touches(c, p, b, place)
<1>1. /\ <<"variable", k>> \in Places
      /\ Inputs(c, b)[<<"variable", k>>] = b.environment[k]
      /\ Inputs(c, p.environment)[<<"variable", k>>] = p.environment.environment[k]
  BY VariableShows
<1> QED
  BY <1>1 DEF Touches, MovesKey

LEMMA DependencyShows ==
    ASSUME NEW c, WellTyped(c), Valid(c), NEW v \in c.dependency_variants,
           NEW b, b = baseline_environment(c),
           NEW p, p.environment = [b EXCEPT !.source_file_overrides[v.target] = v.variant_file]
    PROVE  \E place \in Places : Touches(c, p, b, place)
<1> DEFINE before == b.source_file_overrides
           over == p.environment.source_file_overrides
<1>1. v.target \in Files /\ v.variant_file \in Files /\ v.target # v.variant_file
  BY DEF WellTyped, Valid, ValidDependencies
<1>2. before = [f \in Files |-> When(\E w \in c.dependency_variants : w.target = f, f)]
  BY DEF baseline_environment
<1>3. over = [before EXCEPT ![v.target] = v.variant_file]
  <2>1. DOMAIN b = Fields /\ "source_file_overrides" \in Fields
    BY BaselineIsEnvironment DEF IsEnvironment, Fields, Maps
  <2> QED
    BY <2>1
<1> HIDE DEF before, over
<1>4. OverrideAt(before, v.target, v.target)
  BY <1>1, <1>2 DEF OverrideAt, When
<1>5. OverrideAt(over, v.target, v.variant_file)
  BY <1>1, <1>2, <1>3 DEF OverrideAt, When
<1>6. Contents(before)[v.target] = v.target /\ Contents(over)[v.target] = v.variant_file
  BY <1>1, <1>4, <1>5, ContentsOfOne
<1>7. <<"file", v.target>> \in Places
  BY <1>1 DEF Places
<1>8. /\ Inputs(c, b)[<<"file", v.target>>] = Contents(before)[v.target]
      /\ Inputs(c, p.environment)[<<"file", v.target>>] = Contents(over)[v.target]
  BY <1>7 DEF Inputs, before, over
<1> QED
  BY <1>1, <1>6, <1>7, <1>8 DEF Touches

LEMMA PlanShows ==
    ASSUME NEW c, WellTyped(c), Valid(c), NEW b, b = baseline_environment(c),
           NEW p \in plan_interventions(c, b)
    PROVE  \E place \in Places : Touches(c, p, b, place)
<1>0. Unset \notin Values /\ Unset \notin OwnValues /\ IsEnvironment(b)
  BY EnvironmentsAssumption, BaselineIsEnvironment
<1>1. \/ p \in ImageInterventions(c, b)
      \/ p \in ToolchainInterventions(c, b)
      \/ p \in DependencyInterventions(c, b)
      \/ p \in ScalarInterventions(c, b)
      \/ p \in KeyInterventions(c, b)
      \/ p \in VariableInterventions(c, b)
  BY DEF plan_interventions
<1>2. CASE p \in ImageInterventions(c, b)
  <2>1. PICK image \in Range(c.image_variants) :
            p.environment = [b EXCEPT !.image_override = image]
    BY <1>2 DEF ImageInterventions, Planned
  <2>2. image \in Values /\ image # c.image
    BY DEF WellTyped, Valid, ValidImages, Range
  <2> DEFINE place == <<"setting", "image_override">>
  <2>3. place \in Places
    BY DEF Places, Scalars
  <2>4. p.environment.image_override = image /\ b.image_override = Unset
    BY <1>0, <2>1 DEF baseline_environment, IsEnvironment, Fields, Scalars
  <2>5. Inputs(c, p.environment)[place] = image /\ Inputs(c, b)[place] = c.image
    BY <1>0, <2>2, <2>3, <2>4 DEF Inputs, Or
  <2> QED
    BY <2>2, <2>3, <2>5 DEF Touches
<1>3. CASE p \in ToolchainInterventions(c, b)
  <2>0. PICK k \in Pairs(c.toolchain_variables) :
            p = Planned("ToolchainExecutable", <<"toolchain", k>>, [b EXCEPT !.toolchain_bindings[k] = c.toolchain_variables[k][2]])
    BY <1>3, Zenon DEF ToolchainInterventions
  <2>1. p.environment = [b EXCEPT !.toolchain_bindings[k] = c.toolchain_variables[k][2]]
    BY <2>0, Zenon DEF Planned
  <2>2. k \in Tools /\ c.toolchain_variables[k] # <<>> /\ Differ(c.toolchain_variables[k])
    BY DEF Pairs, WellTyped, Valid, ValidToolchains
  <2> DEFINE place == <<"tool", k>>
  <2>3. place \in Places
    BY <2>2 DEF Places
  <2>4. b.toolchain_bindings[k] = c.toolchain_variables[k][1] /\ k \in DOMAIN b.toolchain_bindings
    BY <2>2 DEF baseline_environment, First
  <2>5. p.environment.toolchain_bindings[k] = c.toolchain_variables[k][2]
    <3>1. "toolchain_bindings" \in DOMAIN b
      BY <1>0 DEF IsEnvironment, Fields, Maps
    <3> QED
      BY <2>1, <2>4, <3>1
  <2>6. /\ Inputs(c, p.environment)[place] = p.environment.toolchain_bindings[k]
        /\ Inputs(c, b)[place] = b.toolchain_bindings[k]
    BY <2>3 DEF Inputs
  <2> QED
    BY <2>2, <2>3, <2>4, <2>5, <2>6 DEF Touches, Differ
<1>4. CASE p \in DependencyInterventions(c, b)
  <2>0. PICK v \in c.dependency_variants :
            p = Planned("DependencyFile", <<"dependency", v.target>>, [b EXCEPT !.source_file_overrides[v.target] = v.variant_file])
    BY <1>4, Zenon DEF DependencyInterventions
  <2>1. p.environment = [b EXCEPT !.source_file_overrides[v.target] = v.variant_file]
    BY <2>0, Zenon DEF Planned
  <2> QED
    BY <2>1, DependencyShows
<1>5. CASE p \in ScalarInterventions(c, b)
  <2>1. PICK d \in c.dimensions \cap DOMAIN ScalarDimensions : p = ScalarToggle(c, b, d)
    BY <1>5, Zenon DEF ScalarInterventions, ScalarToggle
  <2>2. /\ \A f \in Fields : p.environment[f] # b[f] <=> f = ScalarDimensions[d][2]
        /\ ScalarDimensions[d][2] \in Scalars \ {"image_override"}
    BY <2>1, ScalarToggleMoves
  <2>3. PICK f \in Scalars \ {"image_override"} : p.environment[f] # b[f]
    BY <2>2, FieldsApart
  <2>4. <<"setting", f>> \in Places /\ <<"setting", f>> # <<"setting", "image_override">>
    BY DEF Places
  <2>5. /\ Inputs(c, p.environment)[<<"setting", f>>] = p.environment[f]
        /\ Inputs(c, b)[<<"setting", f>>] = b[f]
    BY <2>4 DEF Inputs
  <2> QED
    BY <2>3, <2>4, <2>5 DEF Touches
<1>6. CASE p \in KeyInterventions(c, b)
  <2>1. PICK d \in c.dimensions \cap DOMAIN KeyDimensions : p = KeyToggle(b, d)
    BY <1>6, Zenon DEF KeyInterventions, KeyToggle
  <2>2. PICK k \in KeyDimensions[d][3] : k \in BuiltInKeys
    BY <2>1, KeyToggleMoves
  <2>3. /\ k \in EnvironmentKeys /\ k \notin Tools /\ k # "REPROBISECT_CPU_COUNT"
        /\ b.environment[k] = BuiltInVariables[k]
    BY <2>2, BuiltInShape
  <2>4. MovesKey(p, b, k) /\ p.environment.environment[k] \in OwnValues
    BY <2>1, <2>3, KeyToggleMoves
  <2>5. p.environment.toolchain_bindings = b.toolchain_bindings
    <3>1. "toolchain_bindings" \in Fields \ {"environment"}
      BY DEF Fields, Maps
    <3>2. \A f \in Fields \ {"environment"} : p.environment[f] = b[f]
      BY <2>1, KeyToggleMoves
    <3> QED
      BY <3>1, <3>2
  <2>6. BuiltInVariables[k] \in OwnValues
    BY <2>2 DEF BuiltInKeys, BuiltInVariables, OwnValues
  <2> QED
    BY <1>0, <2>3, <2>4, <2>5, <2>6, ToggleShows
<1>7. CASE p \in VariableInterventions(c, b)
  <2>1. PICK k \in Pairs(c.environment_variables) : p = VariableToggle(c, b, k)
    BY <1>7, Zenon DEF VariableInterventions, VariableToggle
  <2>2. /\ k \in EnvironmentKeys /\ k # "REPROBISECT_CPU_COUNT" /\ b.environment[k] \in Values
        /\ k \in Tools => b.toolchain_bindings[k] = Unset
    BY VariableShape
  <2>3. MovesKey(p, b, k) /\ p.environment.environment[k] \in Values
    BY <2>1, <2>2, VariableToggleMoves
  <2>4. p.environment.toolchain_bindings = b.toolchain_bindings
    <3>1. "toolchain_bindings" \in Fields \ {"environment"}
      BY DEF Fields, Maps
    <3>2. \A f \in Fields \ {"environment"} : p.environment[f] = b[f]
      BY <2>1, VariableToggleMoves
    <3> QED
      BY <3>1, <3>2
  <2> QED
    BY <1>0, <2>2, <2>3, <2>4, ToggleShows
<1> QED
  BY <1>1, <1>2, <1>3, <1>4, <1>5, <1>6, <1>7

-------------------------------------------------------------------------------
(* The invariant                                                           *)

\* During a comparison the environments are environments, the applied changes are
\* of the difference, and the scalars and entries they are about are the ones that
\* have moved to the known-bad side.
ComparisonInv ==
    phase = "compare" =>
        /\ IsEnvironment(good) /\ IsEnvironment(bad) /\ IsEnvironment(combined)
        /\ good.observed = bad.observed /\ combined.observed = good.observed
        /\ applied \subseteq Delta
        /\ \A f \in Scalars : combined[f] = IF Changed(f, Unset) THEN bad[f] ELSE good[f]
        /\ \A m \in Maps : \A k \in KeysOf[m] :
            combined[m][k] = IF Changed(m, k) THEN bad[m][k] ELSE good[m][k]

\* While interventions are combined, what an included one moves is where that one has
\* moved it, and everything else is where the baseline has it.
CombinationInv ==
    phase = "combine" =>
        /\ config \in Configs /\ Valid(config)
        /\ included \subseteq SearchPlan(config)
        /\ combined.toolchain_bindings = Baseline.toolchain_bindings
        /\ combined.source_file_overrides = Baseline.source_file_overrides
        /\ \A f \in Scalars :
            /\ \A p \in included : MovesScalar(p, Baseline, f) => combined[f] = p.environment[f]
            /\ (\A p \in included : ~MovesScalar(p, Baseline, f)) => combined[f] = Baseline[f]
        /\ \A k \in EnvironmentKeys :
            /\ \A p \in included : MovesKey(p, Baseline, k) =>
                    combined.environment[k] = p.environment.environment[k]
            /\ (\A p \in included : ~MovesKey(p, Baseline, k)) =>
                    combined.environment[k] = Baseline.environment[k]

SearchInv ==
    /\ ComparisonInv
    /\ CombinationInv
    /\ phase = "start" => applied = {} /\ included = {}

LEMMA DeltaShape ==
    ASSUME IsEnvironment(good), IsEnvironment(bad), NEW c \in Delta
    PROVE  \/ \E f \in Scalars : c = ScalarChange(f, bad[f])
           \/ \E m \in Maps : \E k \in KeysOf[m] : c = EntryChange(m, k, bad[m][k])
<1> DEFINE Entries(m) == {EntryChange(m, k, bad[m][k]) :
                            k \in {j \in DOMAIN good[m] : good[m][j] # bad[m][j]}}
<1>1. \/ c \in {ScalarChange(f, bad[f]) : f \in {g \in Scalars : good[g] # bad[g]}}
      \/ c \in UNION {Entries(m) : m \in Maps}
  BY DEF Delta, diff_environments
<1>2. CASE c \in {ScalarChange(f, bad[f]) : f \in {g \in Scalars : good[g] # bad[g]}}
  BY <1>2
<1>3. CASE c \in UNION {Entries(m) : m \in Maps}
  <2>1. PICK m \in Maps : c \in Entries(m)
    BY <1>3
  <2>2. DOMAIN good[m] = KeysOf[m]
    BY DEF IsEnvironment
  <2>3. \E k \in KeysOf[m] : c = EntryChange(m, k, bad[m][k])
    BY <2>1, <2>2
  <2> QED
    BY <2>3
<1> QED
  BY <1>1, <1>2, <1>3

LEMMA ApplyStep ==
    ASSUME SearchInv, Apply
    PROVE  SearchInv'
<1>1. PICK c \in Delta \ applied :
            applied' = applied \cup {c} /\ combined' = ApplyChange(combined, c)
  BY DEF Apply
<1>2. phase = "compare" /\ phase' = phase /\ good' = good /\ bad' = bad /\ Delta' = Delta
  BY DEF Apply, Delta
<1>3. /\ IsEnvironment(good) /\ IsEnvironment(bad) /\ IsEnvironment(combined)
      /\ good.observed = bad.observed /\ combined.observed = good.observed
      /\ applied \subseteq Delta
  BY <1>2 DEF SearchInv, ComparisonInv
<1>4. \A f \in Scalars : combined[f] = IF Changed(f, Unset) THEN bad[f] ELSE good[f]
  BY <1>2 DEF SearchInv, ComparisonInv
<1>5. \A m \in Maps : \A k \in KeysOf[m] :
            combined[m][k] = IF Changed(m, k) THEN bad[m][k] ELSE good[m][k]
  BY <1>2 DEF SearchInv, ComparisonInv
<1>6. \A f, k : Changed(f, k)' <=> Changed(f, k) \/ (c.field = f /\ c.key = k)
  BY <1>1 DEF Changed
<1>7. CASE \E f \in Scalars : c = ScalarChange(f, bad[f])
  <2>1. PICK f \in Scalars : c = ScalarChange(f, bad[f])
    BY <1>7
  <2>2. c.field = f /\ c.key = Unset /\ c.value = bad[f]
    BY <2>1 DEF ScalarChange
  <2>3. combined' = [combined EXCEPT ![f] = bad[f]]
    BY <1>1, <2>2 DEF ApplyChange
  <2>4. IsEnvironment(combined') /\ combined'.observed = good.observed
    BY <1>3, <2>3, FieldsApart DEF IsEnvironment
  <2>5. \A g \in Scalars : combined'[g] = IF Changed(g, Unset)' THEN bad[g] ELSE good[g]
    BY <1>3, <1>4, <1>6, <2>2, <2>3, FieldsApart DEF IsEnvironment
  <2>6. \A m \in Maps : \A k \in KeysOf[m] :
            combined'[m][k] = IF Changed(m, k)' THEN bad[m][k] ELSE good[m][k]
    BY <1>3, <1>5, <1>6, <2>2, <2>3, FieldsApart DEF IsEnvironment
  <2> QED
    BY <1>1, <1>2, <1>3, <2>4, <2>5, <2>6 DEF SearchInv, ComparisonInv, CombinationInv
<1>8. CASE \E m \in Maps : \E k \in KeysOf[m] : c = EntryChange(m, k, bad[m][k])
  <2>0. PICK m \in Maps : \E k \in KeysOf[m] : c = EntryChange(m, k, bad[m][k])
    BY <1>8
  <2>1. PICK k \in KeysOf[m] : c = EntryChange(m, k, bad[m][k])
    BY <2>0
  <2>2. c.field = m /\ c.key = k /\ c.value = bad[m][k]
    BY <2>1 DEF EntryChange
  <2>3. combined' = [combined EXCEPT ![m] = [combined[m] EXCEPT ![k] = bad[m][k]]]
    BY <1>1, <2>2, FieldsApart DEF ApplyChange
  <2>4. IsEnvironment(combined') /\ combined'.observed = good.observed
    <3>1. DOMAIN combined' = Fields /\ combined' = [f \in Fields |-> combined'[f]]
      BY <1>3, <2>3 DEF IsEnvironment
    <3>2. combined'.observed = good.observed
      BY <1>3, <2>3, FieldsApart DEF IsEnvironment
    <3>3. ASSUME NEW n \in Maps
          PROVE  DOMAIN combined'[n] = KeysOf[n] /\ combined'[n] = [j \in KeysOf[n] |-> combined'[n][j]]
      <4>1. CASE n = m
        <5>1. combined'[n] = [combined[m] EXCEPT ![k] = bad[m][k]]
          BY <1>3, <2>3, <4>1, FieldsApart DEF IsEnvironment
        <5> QED
          BY <1>3, <4>1, <5>1 DEF IsEnvironment
      <4>2. CASE n # m
        <5>1. combined'[n] = combined[n]
          BY <1>3, <2>3, <4>2, FieldsApart DEF IsEnvironment
        <5> QED
          BY <1>3, <5>1 DEF IsEnvironment
      <4> QED
        BY <4>1, <4>2
    <3> QED
      BY <3>1, <3>2, <3>3 DEF IsEnvironment
  <2>5. \A g \in Scalars : combined'[g] = IF Changed(g, Unset)' THEN bad[g] ELSE good[g]
    BY <1>3, <1>4, <1>6, <2>2, <2>3, FieldsApart DEF IsEnvironment
  <2>6. ASSUME NEW n \in Maps, NEW j \in KeysOf[n]
        PROVE  combined'[n][j] = IF Changed(n, j)' THEN bad[n][j] ELSE good[n][j]
    <3>1. CASE n = m
      <4>1. combined'[n] = [combined[m] EXCEPT ![k] = bad[m][k]]
        BY <1>3, <2>3, <3>1, FieldsApart DEF IsEnvironment
      <4>2. combined'[n][j] = IF j = k THEN bad[n][j] ELSE combined[n][j]
        <5>1. DOMAIN combined[m] = KeysOf[m] /\ j \in KeysOf[m]
          BY <1>3, <3>1 DEF IsEnvironment
        <5> QED
          BY <3>1, <4>1, <5>1
      <4> QED
        BY <1>5, <1>6, <2>2, <3>1, <4>2
    <3>2. CASE n # m
      <4>1. combined'[n] = combined[n]
        BY <1>3, <2>3, <3>2, FieldsApart DEF IsEnvironment
      <4> QED
        BY <1>5, <1>6, <2>2, <3>2, <4>1
    <3> QED
      BY <3>1, <3>2
  <2> QED
    BY <1>1, <1>2, <1>3, <2>4, <2>5, <2>6 DEF SearchInv, ComparisonInv, CombinationInv
<1> QED
  BY <1>1, <1>3, <1>7, <1>8, DeltaShape

\* A round of combine_interventions moves what its intervention moves, and no other
\* intervention has moved that.
LEMMA IncludeStep ==
    ASSUME SearchInv, Include
    PROVE  SearchInv'
<1>1. PICK p \in Candidates \ included :
            /\ included' = included \cup {p}
            /\ combined' = Combine(Baseline, combined, p.environment)
  BY DEF Include
<1>2. /\ phase = "combine" /\ phase' = phase /\ config' = config /\ Baseline' = Baseline
      /\ UNCHANGED <<good, bad, applied>>
  BY DEF Include, Baseline
<1>3. /\ config \in Configs /\ Valid(config) /\ included \subseteq SearchPlan(config)
      /\ combined.toolchain_bindings = Baseline.toolchain_bindings
      /\ combined.source_file_overrides = Baseline.source_file_overrides
  BY <1>2 DEF SearchInv, CombinationInv
<1>4. WellTyped(config)
  BY <1>3, CombinationAssumption
<1>5. p \in SearchPlan(config) /\ p \notin included
  BY <1>1 DEF Candidates, Plan, SearchPlan, Baseline
<1>6. /\ \A f \in {"toolchain_bindings", "source_file_overrides"} :
            p.environment[f] = Baseline[f]
      /\ \A k \in EnvironmentKeys :
            MovesKey(p, Baseline, k) => p.environment.environment[k] # Unset
  BY <1>3, <1>4, <1>5, ToggleShape DEF Baseline
<1>7. \A q \in included :
        /\ \A f \in Scalars : ~(MovesScalar(p, Baseline, f) /\ MovesScalar(q, Baseline, f))
        /\ \A k \in EnvironmentKeys : ~(MovesKey(p, Baseline, k) /\ MovesKey(q, Baseline, k))
  BY <1>3, <1>4, <1>5, TogglesApart DEF Baseline
<1>8. IsEnvironment(Baseline)
  BY BaselineIsEnvironment DEF Baseline
<1>9. /\ combined'.toolchain_bindings = Baseline.toolchain_bindings
      /\ combined'.source_file_overrides = Baseline.source_file_overrides
  <2>1. ASSUME NEW m \in {"toolchain_bindings", "source_file_overrides"}
        PROVE  combined'[m] = Baseline[m]
    <3>1. m \in Maps /\ m \in Fields
      BY DEF Maps, Fields
    <3>2. p.environment[m] = Baseline[m] /\ combined[m] = Baseline[m]
      BY <1>3, <1>6
    <3>3. combined'[m] = [k \in DOMAIN Baseline[m] |-> Baseline[m][k]]
      BY <1>1, <1>8, <3>1, <3>2 DEF Combine, IsEnvironment
    <3> QED
      BY <1>8, <3>1, <3>3 DEF IsEnvironment
  <2> QED
    BY <2>1
<1>10. ASSUME NEW f \in Scalars
       PROVE  combined'[f] = IF MovesScalar(p, Baseline, f) THEN p.environment[f] ELSE combined[f]
  BY <1>1, <1>8, <1>10, FieldsApart DEF Combine, IsEnvironment, MovesScalar
<1>11. ASSUME NEW k \in EnvironmentKeys
       PROVE  combined'.environment[k] = IF MovesKey(p, Baseline, k)
                                         THEN p.environment.environment[k]
                                         ELSE combined.environment[k]
  <2>1. "environment" \in Maps /\ "environment" \in Fields
    BY DEF Maps, Fields
  <2>2. k \in DOMAIN Baseline["environment"]
    BY <1>8, <2>1 DEF IsEnvironment, KeysOf
  <2>3. combined'["environment"][k] =
            IF p.environment["environment"][k] \notin {Unset, Baseline["environment"][k]}
            THEN p.environment["environment"][k] ELSE combined["environment"][k]
    BY <1>1, <1>8, <2>1, <2>2 DEF Combine, IsEnvironment
  <2> QED
    BY <1>6, <2>3 DEF MovesKey
<1>12. CombinationInv'
  <2>1. included' \subseteq SearchPlan(config')
    BY <1>1, <1>2, <1>3, <1>5
  <2>2. ASSUME NEW f \in Scalars
        PROVE  /\ \A q \in included' : MovesScalar(q, Baseline, f) => combined'[f] = q.environment[f]
               /\ (\A q \in included' : ~MovesScalar(q, Baseline, f)) => combined'[f] = Baseline[f]
    <3>1. /\ \A q \in included : MovesScalar(q, Baseline, f) => combined[f] = q.environment[f]
          /\ (\A q \in included : ~MovesScalar(q, Baseline, f)) => combined[f] = Baseline[f]
      BY <1>2 DEF SearchInv, CombinationInv
    <3> QED
      BY <1>1, <1>7, <1>10, <3>1
  <2>3. ASSUME NEW k \in EnvironmentKeys
        PROVE  /\ \A q \in included' : MovesKey(q, Baseline, k) =>
                    combined'.environment[k] = q.environment.environment[k]
               /\ (\A q \in included' : ~MovesKey(q, Baseline, k)) =>
                    combined'.environment[k] = Baseline.environment[k]
    <3>1. /\ \A q \in included : MovesKey(q, Baseline, k) =>
                combined.environment[k] = q.environment.environment[k]
          /\ (\A q \in included : ~MovesKey(q, Baseline, k)) =>
                combined.environment[k] = Baseline.environment[k]
      BY <1>2 DEF SearchInv, CombinationInv
    <3> QED
      BY <1>1, <1>7, <1>11, <3>1
  <2> QED
    BY <1>2, <1>3, <1>9, <2>1, <2>2, <2>3 DEF CombinationInv
<1> QED
  BY <1>2, <1>12 DEF SearchInv, ComparisonInv

LEMMA SearchInvInit == SearchInit => SearchInv
BY DEF SearchInit, SearchInv, ComparisonInv, CombinationInv

LEMMA SearchInvStep == SearchInv /\ [SearchNext]_searchVars => SearchInv'
<1> SUFFICES ASSUME SearchInv, [SearchNext]_searchVars
             PROVE  SearchInv'
  OBVIOUS
<1>1. CASE Reject
  BY <1>1 DEF Reject, SearchInv, ComparisonInv, CombinationInv
<1>2. CASE Check
  <2>1. /\ phase = "start" /\ phase' = "combine" /\ included' = {} /\ combined' = Baseline'
        /\ config' \in Configs /\ Valid(config')
    BY <1>2 DEF Check, SearchInv, Baseline
  <2> QED
    BY <2>1 DEF SearchInv, ComparisonInv, CombinationInv
<1>3. CASE Include
  BY <1>3, IncludeStep
<1>4. CASE Compare
  <2>1. PICK goodManifest, badManifest :
            /\ good' = ApplyManifest(goodManifest, baseline_environment(config'), config')
            /\ bad' = ApplyManifest(badManifest, baseline_environment(config'), config')
    BY <1>4 DEF Compare
  <2>2. /\ IsEnvironment(good') /\ IsEnvironment(bad')
        /\ good'.observed = config'.observed /\ bad'.observed = config'.observed
    BY <2>1, ManifestIsEnvironment
  <2>3. combined' = good' /\ applied' = {} /\ phase' = "compare"
    BY <1>4 DEF Compare, SearchInv
  <2>4. \A f, k : ~Changed(f, k)'
    BY <2>3 DEF Changed
  <2> QED
    BY <2>2, <2>3, <2>4 DEF SearchInv, ComparisonInv, CombinationInv
<1>5. CASE Apply
  BY <1>5, ApplyStep
<1>6. CASE UNCHANGED searchVars
  BY <1>6 DEF searchVars, SearchInv, ComparisonInv, CombinationInv, Changed, Delta, Baseline
<1> QED
  BY <1>1, <1>2, <1>3, <1>4, <1>5, <1>6 DEF SearchNext

\* Applied changes decide each scalar and each entry, and all of them together give
\* the known-bad environment.
LEMMA InvRestores == SearchInv => DeltaRestores
<1> SUFFICES ASSUME SearchInv, phase = "compare"
             PROVE  /\ \A f \in Scalars : combined[f] = IF Changed(f, Unset) THEN bad[f] ELSE good[f]
                    /\ \A m \in Maps : \A k \in DOMAIN good[m] :
                        combined[m][k] = IF Changed(m, k) THEN bad[m][k] ELSE good[m][k]
                    /\ applied = Delta => combined = bad
  BY DEF DeltaRestores
<1>1. /\ IsEnvironment(good) /\ IsEnvironment(bad) /\ IsEnvironment(combined)
      /\ good.observed = bad.observed /\ combined.observed = good.observed
  BY DEF SearchInv, ComparisonInv
<1>2. \A f \in Scalars : combined[f] = IF Changed(f, Unset) THEN bad[f] ELSE good[f]
  BY DEF SearchInv, ComparisonInv
<1>3. \A m \in Maps : \A k \in KeysOf[m] :
        combined[m][k] = IF Changed(m, k) THEN bad[m][k] ELSE good[m][k]
  BY DEF SearchInv, ComparisonInv
<1>4. ASSUME applied = Delta
      PROVE  combined = bad
  <2>1. ASSUME NEW f \in Scalars
        PROVE  combined[f] = bad[f]
    <3>1. CASE good[f] = bad[f]
      BY <1>2, <3>1
    <3>2. CASE good[f] # bad[f]
      <4>1. ScalarChange(f, bad[f]) \in applied
        BY <1>4, <3>2 DEF Delta, diff_environments
      <4>2. Changed(f, Unset)
        BY <4>1 DEF Changed, ScalarChange
      <4> QED
        BY <1>2, <4>2
    <3> QED
      BY <3>1, <3>2
  <2>2. ASSUME NEW m \in Maps
        PROVE  combined[m] = bad[m]
    <3>1. ASSUME NEW k \in KeysOf[m]
          PROVE  combined[m][k] = bad[m][k]
      <4>1. CASE good[m][k] = bad[m][k]
        BY <1>3, <4>1
      <4>2. CASE good[m][k] # bad[m][k]
        <5>1. k \in DOMAIN good[m]
          BY <1>1 DEF IsEnvironment
        <5>2. EntryChange(m, k, bad[m][k]) \in applied
          BY <1>4, <4>2, <5>1 DEF Delta, diff_environments
        <5>3. Changed(m, k)
          BY <5>2 DEF Changed, EntryChange
        <5> QED
          BY <1>3, <5>3
      <4> QED
        BY <4>1, <4>2
    <3>2. combined[m] = [k \in KeysOf[m] |-> combined[m][k]] /\ bad[m] = [k \in KeysOf[m] |-> bad[m][k]]
      BY <1>1 DEF IsEnvironment
    <3> QED
      BY <3>1, <3>2
  <2>3. \A f \in Fields : combined[f] = bad[f]
    BY <1>1, <2>1, <2>2 DEF Fields
  <2>4. combined = [f \in Fields |-> combined[f]] /\ bad = [f \in Fields |-> bad[f]]
    BY <1>1 DEF IsEnvironment
  <2> QED
    BY <2>3, <2>4
<1>5. \A m \in Maps : DOMAIN good[m] = KeysOf[m]
  BY <1>1 DEF IsEnvironment
<1> QED
  BY <1>2, <1>3, <1>4, <1>5

\* An included intervention shows in the combination where it shows alone.
LEMMA ShownAsAlone ==
    ASSUME CombinationInv, phase = "combine", NEW place \in Places
    PROVE  /\ \A p \in included : Touches(config, p, Baseline, place) =>
                Inputs(config, combined)[place] = Inputs(config, p.environment)[place]
           /\ (\A p \in included : ~Touches(config, p, Baseline, place)) =>
                Inputs(config, combined)[place] = Inputs(config, Baseline)[place]
<1> DEFINE b == Baseline
<1>1. /\ WellTyped(config) /\ Valid(config) /\ included \subseteq SearchPlan(config)
      /\ combined.toolchain_bindings = b.toolchain_bindings
      /\ combined.source_file_overrides = b.source_file_overrides
  BY CombinationAssumption DEF CombinationInv
<1>2. \A p \in included :
        /\ p.environment.toolchain_bindings = b.toolchain_bindings
        /\ p.environment.source_file_overrides = b.source_file_overrides
        /\ p.environment.cpu_count = b.cpu_count
  BY <1>1, ToggleShape DEF Baseline
<1>3. combined.cpu_count = b.cpu_count
  <2>1. "cpu_count" \in Scalars
    BY DEF Scalars
  <2> QED
    BY <1>2, <2>1 DEF CombinationInv, MovesScalar
<1>4. /\ \A f \in Scalars :
            /\ \A p \in included : MovesScalar(p, b, f) => combined[f] = p.environment[f]
            /\ (\A p \in included : ~MovesScalar(p, b, f)) => combined[f] = b[f]
      /\ \A k \in EnvironmentKeys :
            /\ \A p \in included : MovesKey(p, b, k) =>
                    combined.environment[k] = p.environment.environment[k]
            /\ (\A p \in included : ~MovesKey(p, b, k)) => combined.environment[k] = b.environment[k]
  BY DEF CombinationInv
<1>5. /\ place[1] = "setting" => place[2] \in Scalars
      /\ place[1] = "variable" => place[2] \in EnvironmentKeys
      /\ "container_source_path" \in Scalars /\ "container_work_path" \in Scalars
  BY DEF Places, Scalars
<1>6. b = baseline_environment(config)
  BY DEF Baseline
<1> HIDE DEF b
<1> DEFINE Moves(p) ==
            \/ place[1] = "setting" /\ MovesScalar(p, b, place[2])
            \/ place[1] = "variable" /\ MovesKey(p, b, place[2])
            \/ place[1] = "source" /\ MovesScalar(p, b, "container_source_path")
            \/ place[1] = "build" /\ MovesScalar(p, b, "container_work_path")
<1>7. ASSUME NEW p \in included, Moves(p)
      PROVE  Inputs(config, combined)[place] = Inputs(config, p.environment)[place]
  <2>1. /\ place[1] = "setting" => combined[place[2]] = p.environment[place[2]]
        /\ place[1] = "variable" =>
            combined.environment[place[2]] = p.environment.environment[place[2]]
        /\ place[1] = "source" =>
            combined.container_source_path = p.environment.container_source_path
        /\ place[1] = "build" =>
            combined.container_work_path = p.environment.container_work_path
    BY <1>4, <1>5, <1>7
  <2> QED
    BY <1>1, <1>2, <1>3, <2>1, SameInputs
<1>8. ASSUME \A p \in included : ~Moves(p)
      PROVE  Inputs(config, combined)[place] = Inputs(config, b)[place]
  <2>1. /\ place[1] = "setting" => combined[place[2]] = b[place[2]]
        /\ place[1] = "variable" => combined.environment[place[2]] = b.environment[place[2]]
        /\ place[1] = "source" => combined.container_source_path = b.container_source_path
        /\ place[1] = "build" => combined.container_work_path = b.container_work_path
    BY <1>4, <1>5, <1>8
  <2> QED
    BY <1>1, <1>3, <2>1, SameInputs
<1>9. \A p \in included : Touches(config, p, b, place) => Moves(p)
  BY <1>1, <1>6, TouchedIsMoved
<1>10. ASSUME \A p \in included : ~Touches(config, p, b, place)
       PROVE  Inputs(config, combined)[place] = Inputs(config, b)[place]
  BY <1>7, <1>8, <1>10 DEF Touches
<1> QED
  BY <1>7, <1>9, <1>10 DEF b

LEMMA InvIndependent == SearchInv => TogglesAreIndependent
<1> SUFFICES ASSUME SearchInv, phase = "combine"
             PROVE  /\ \A p \in Plan : Touched(p) # {}
                    /\ \A p, q \in Candidates : p # q => Touched(p) \cap Touched(q) = {}
                    /\ \A place \in Places :
                        Inputs(config, combined)[place] =
                            IF \E p \in included : place \in Touched(p)
                            THEN Inputs(config, (CHOOSE p \in included :
                                                    place \in Touched(p)).environment)[place]
                            ELSE Inputs(config, Baseline)[place]
  BY DEF TogglesAreIndependent
<1>1. /\ CombinationInv /\ WellTyped(config) /\ Valid(config)
      /\ Baseline = baseline_environment(config)
  BY CombinationAssumption DEF SearchInv, CombinationInv, Baseline
<1>2. \A p : Touched(p) = {place \in Places : Touches(config, p, Baseline, place)}
  BY DEF Touched, Touches
<1>3. ASSUME NEW p \in Plan
      PROVE  Touched(p) # {}
  <2>1. \E place \in Places : Touches(config, p, Baseline, place)
    BY <1>1, PlanShows DEF Plan
  <2> QED
    BY <1>2, <2>1
<1>4. Candidates = SearchPlan(config)
  BY DEF Candidates, SearchPlan, Plan, Baseline
<1>5. ASSUME NEW p \in Candidates, NEW q \in Candidates, p # q
      PROVE  Touched(p) \cap Touched(q) = {}
  BY <1>1, <1>2, <1>4, <1>5, TouchedApart
<1>6. ASSUME NEW place \in Places
      PROVE  Inputs(config, combined)[place] =
                IF \E p \in included : place \in Touched(p)
                THEN Inputs(config, (CHOOSE p \in included :
                                        place \in Touched(p)).environment)[place]
                ELSE Inputs(config, Baseline)[place]
  <2> DEFINE shown == CHOOSE p \in included : place \in Touched(p)
  <2>1. ASSUME \E p \in included : place \in Touched(p)
        PROVE  Inputs(config, combined)[place] = Inputs(config, shown.environment)[place]
    <3>1. shown \in included /\ place \in Touched(shown)
      BY <2>1
    <3> HIDE DEF shown
    <3> QED
      BY <1>1, <1>2, <3>1, ShownAsAlone
  <2>2. ASSUME ~ \E p \in included : place \in Touched(p)
        PROVE  Inputs(config, combined)[place] = Inputs(config, Baseline)[place]
    BY <1>1, <1>2, <2>2, ShownAsAlone
  <2> QED
    BY <2>1, <2>2
<1> QED
  BY <1>3, <1>5, <1>6

\* For all configurations and manifests: the difference of two environments, applied
\* in any order and in part, moves exactly what it names, and applied in full gives
\* the known-bad environment (diff_environments and apply_delta_subset).
THEOREM DeltasRestore == SearchSpec => []DeltaRestores
<1>1. SearchInit => SearchInv
  BY SearchInvInit
<1>2. SearchInv /\ [SearchNext]_searchVars => SearchInv'
  BY SearchInvStep
<1>3. SearchInv => DeltaRestores
  BY InvRestores
<1> QED
  BY <1>1, <1>2, <1>3, PTL DEF SearchSpec
\* For all accepted configurations: what an intervention changes for the build is there
\* to be seen, no two that may be combined are seen at the same place, and a combination
\* is the union of its members, in whatever order it was built up (Config::validate,
\* plan_interventions, combine_interventions, run_attempt).
THEOREM InterventionsAreSwitches == SearchSpec => []TogglesAreIndependent
<1>1. SearchInit => SearchInv
  BY SearchInvInit
<1>2. SearchInv /\ [SearchNext]_searchVars => SearchInv'
  BY SearchInvStep
<1>3. SearchInv => TogglesAreIndependent
  BY InvIndependent
<1> QED
  BY <1>1, <1>2, <1>3, PTL DEF SearchSpec
================================================================================
