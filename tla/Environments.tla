----------------------------- MODULE Environments -----------------------------
(***************************************************************************)
(* Controlled environments: what a configuration admits                    *)
(* (src/config.rs), the baseline, the planned interventions and their      *)
(* combination (src/engine/interventions.rs), the manifests of `compare`,  *)
(* their difference and its application (src/environment.rs), and the      *)
(* inputs a build really gets from an environment (src/runner/oci.rs).     *)
(*                                                                         *)
(* Values are opaque: an optional value is a value or Unset, and a map is  *)
(* a function that is Unset where the program's map has no entry.          *)
(***************************************************************************)
EXTENDS Naturals, Sequences, FiniteSets, SequencesExt

CONSTANTS
    Unset,
    Keys,       \* names of environment variables besides those the program sets
    Tools,      \* keys of toolchain bindings
    Values,
    FileOrder,  \* the declaration files of the project, in path order
    Mentions    \* the placeholders, "source" or "build", in an executable's name

Files == Range(FileOrder)
BuiltInVariables ==
    [SOURCE_DATE_EPOCH |-> "946684800", TZ |-> "UTC", LANG |-> "C", LC_ALL |-> "C"]
BuiltInKeys == DOMAIN BuiltInVariables
EnvironmentKeys == BuiltInKeys \cup {"REPROBISECT_CPU_COUNT"} \cup Keys \cup Tools

\* The bindings that configurations and manifests may control.
ToolchainKeys == {"CC", "CXX", "LD", "AR", "RANLIB", "RUSTC"}

\* The values the program itself gives to variables; all other values are data.
OwnValues == {"946684800", "1577836800", "UTC", "HST10", "C", "C.UTF-8"}

ASSUME EnvironmentsAssumption ==
    /\ Unset \notin Values \cup Files \cup OwnValues
    /\ FileOrder \in Seq(Files)
    /\ Tools \subseteq ToolchainKeys

\* The fields of ControlledEnvironment, by their type.  `observed` stands for
\* the seven that only say what is recorded of a build.
Scalars == {"image_override", "container_source_path", "container_work_path",
            "source_copy_order", "hostname", "cpu_count", "source_mtime_epoch",
            "umask", "network_mode"}
Maps == {"environment", "toolchain_bindings", "source_file_overrides"}

Or(value, default) == IF value = Unset THEN default ELSE value
Nowhere(keys) == [k \in keys |-> Unset]
Bound(map) == {k \in DOMAIN map : map[k] # Unset}

-------------------------------------------------------------------------------
(* Config                                                                  *)

\* What parsing a configuration gives of the lists of values.  The files of a
\* dependency variant are files of the project (validate_regular_project_file).
WellTyped(config) ==
    /\ config.image_variants \in Seq(Values)
    /\ config.dependency_variants \subseteq [target : Files, variant_file : Files]
    /\ config.toolchain_variables \in [Tools -> Seq(Values)]
    /\ config.environment_variables \in [EnvironmentKeys -> Seq(Values)]

Pairs(map) == {k \in DOMAIN map : map[k] # <<>>}
Differ(pair) == Len(pair) = 2 /\ pair[1] # pair[2]

ValidImages(config) ==
    /\ Len(config.image_variants) <= 4
    /\ IsInjective(config.image_variants)
    /\ config.image \notin Range(config.image_variants)

\* Faulty: a key may be both a toolchain binding and an environment variable.
ValidToolchainsAlone(config) ==
    \A k \in Pairs(config.toolchain_variables) : Differ(config.toolchain_variables[k])

ValidToolchains(config) ==
    \A k \in Pairs(config.toolchain_variables) :
        /\ Differ(config.toolchain_variables[k])
        /\ config.environment_variables[k] = <<>>

ValidDependencies(config) ==
    /\ Cardinality(config.dependency_variants) <= 8
    /\ \A v \in config.dependency_variants :
        /\ v.target # v.variant_file
        /\ \A w \in config.dependency_variants : v.target = w.target => v = w

ValidVariables(config) ==
    \A k \in Pairs(config.environment_variables) :
        /\ k \notin BuiltInKeys \cup {"REPROBISECT_CPU_COUNT"}
        /\ Differ(config.environment_variables[k])

\* The part of Config::validate that interventions rest on.
Valid(config) ==
    /\ ValidImages(config)
    /\ ValidToolchains(config)
    /\ ValidDependencies(config)
    /\ ValidVariables(config)

-------------------------------------------------------------------------------
(* The baseline and the interventions                                      *)

When(condition, value) == IF condition THEN value ELSE Unset
First(pair) == IF pair = <<>> THEN Unset ELSE pair[1]

baseline_environment(config) ==
    [image_override |-> Unset,
     container_source_path |-> "/src",
     container_work_path |-> "/workspace",
     source_copy_order |-> "sorted",
     environment |->
        [k \in EnvironmentKeys |->
            IF config.environment_variables[k] # <<>>
            THEN config.environment_variables[k][1]
            ELSE When(k \in BuiltInKeys, BuiltInVariables[k])],
     toolchain_bindings |-> [k \in Tools |-> First(config.toolchain_variables[k])],
     source_file_overrides |->
        [f \in Files |-> When(\E v \in config.dependency_variants : v.target = f, f)],
     hostname |-> "reprobisect-control",
     cpu_count |-> When("cpu_count" \in config.dimensions, "1"),
     source_mtime_epoch |-> When("source_mtime" \in config.dimensions, "946684800"),
     umask |-> When("umask" \in config.dimensions, "022"),
     network_mode |-> "default",
     observed |-> config.observed]

Planned(kind, variable, environment) ==
    [kind |-> kind, variable |-> variable, environment |-> environment]

\* The dimensions of ExperimentDimensionsConfig that set one scalar: the kind,
\* the field and the variant.  The dimension is also the variable.
ScalarDimensions ==
    [network_access |-> <<"NetworkAccess", "network_mode", "none">>,
     source_path |-> <<"SourcePath", "container_source_path", "/opt/reprobisect/source">>,
     build_path |-> <<"BuildPath", "container_work_path", "/opt/reprobisect/build">>,
     source_mtime |-> <<"SourceMtime", "source_mtime_epoch", "1577836800">>,
     hostname |-> <<"Hostname", "hostname", "reprobisect-variant">>,
     cpu_count |-> <<"CpuCount", "cpu_count", "2">>,
     umask |-> <<"Umask", "umask", "077">>,
     directory_order |-> <<"DirectoryOrder", "source_copy_order", "reverse">>]

\* Those that set environment variables: the kind, the variable's name in the
\* report, the keys and the variant.
KeyDimensions ==
    [source_date_epoch |->
        <<"SourceDateEpoch", "SOURCE_DATE_EPOCH", {"SOURCE_DATE_EPOCH"}, "1577836800">>,
     timezone |-> <<"Timezone", "TZ", {"TZ"}, "HST10">>,
     locale |-> <<"Locale", "locale", {"LANG", "LC_ALL"}, "C.UTF-8">>]

SetKeys(environment, keys, value) ==
    [environment EXCEPT !.environment =
        [k \in EnvironmentKeys |-> IF k \in keys THEN value ELSE @[k]]]

ImageInterventions(config, baseline) ==
    {Planned("BuildImage", <<"build_image">>, [baseline EXCEPT !.image_override = image]) :
        image \in Range(config.image_variants)}

ToolchainInterventions(config, baseline) ==
    {Planned("ToolchainExecutable", <<"toolchain", k>>,
             [baseline EXCEPT !.toolchain_bindings[k] = config.toolchain_variables[k][2]]) :
        k \in Pairs(config.toolchain_variables)}

DependencyInterventions(config, baseline) ==
    {Planned("DependencyFile", <<"dependency", v.target>>,
             [baseline EXCEPT !.source_file_overrides[v.target] = v.variant_file]) :
        v \in config.dependency_variants}

ScalarInterventions(config, baseline) ==
    {LET d == ScalarDimensions[dimension]
     IN  Planned(d[1], <<dimension>>, [baseline EXCEPT ![d[2]] = d[3]]) :
        dimension \in config.dimensions \cap DOMAIN ScalarDimensions}

KeyInterventions(config, baseline) ==
    {LET d == KeyDimensions[dimension]
     IN  Planned(d[1], <<d[2]>>, SetKeys(baseline, d[3], d[4])) :
        dimension \in config.dimensions \cap DOMAIN KeyDimensions}

VariableInterventions(config, baseline) ==
    {Planned("EnvironmentVariable", <<k>>,
             SetKeys(baseline, {k}, config.environment_variables[k][2])) :
        k \in Pairs(config.environment_variables)}

plan_interventions(config, baseline) ==
    ImageInterventions(config, baseline) \cup ToolchainInterventions(config, baseline)
    \cup DependencyInterventions(config, baseline) \cup ScalarInterventions(config, baseline)
    \cup KeyInterventions(config, baseline) \cup VariableInterventions(config, baseline)

eligible_for_interaction_search(planned) ==
    planned.kind \notin {"CpuCount", "BuildImage", "ToolchainExecutable", "DependencyFile",
                         "NetworkAccess"}

\* One round of combine_interventions' loop.  Entries are added, never removed.
Combine(baseline, combined, planned) ==
    LET Entry(m, k) == IF planned[m][k] \notin {Unset, baseline[m][k]}
                       THEN planned[m][k] ELSE combined[m][k]
    IN  [f \in DOMAIN baseline |->
            IF f \in Maps THEN [k \in DOMAIN baseline[f] |-> Entry(f, k)]
            ELSE IF planned[f] # baseline[f] THEN planned[f] ELSE combined[f]]

-------------------------------------------------------------------------------
(* Manifests and their difference                                          *)

\* EnvironmentManifest::validate, where it relates two entries.
ManifestValid(manifest) ==
    /\ manifest.unset_variables \cap Bound(manifest.variables) = {}
    /\ manifest.unset_toolchain \cap Bound(manifest.toolchain) = {}

\* EnvironmentManifest::apply.
ApplyManifest(manifest, baseline, config) ==
    LET Timed == IF manifest.source_date_epoch # Unset
                 THEN SetKeys(baseline, {"SOURCE_DATE_EPOCH"}, manifest.source_date_epoch)
                 ELSE baseline
        Zoned == IF manifest.timezone # Unset
                 THEN SetKeys(Timed, {"TZ"}, manifest.timezone) ELSE Timed
        Localised == IF manifest.locale # Unset
                     THEN SetKeys(Zoned, {"LANG", "LC_ALL"}, manifest.locale) ELSE Zoned
    IN  [Localised EXCEPT
            !.image_override = IF manifest.image = Unset THEN @
                               ELSE When(manifest.image # config.image, manifest.image),
            !.container_source_path = Or(manifest.source_path, @),
            !.container_work_path = Or(manifest.build_path, @),
            !.source_copy_order = Or(manifest.source_copy_order, @),
            !.source_mtime_epoch = Or(manifest.source_mtime_epoch, @),
            !.hostname = Or(manifest.hostname, @),
            !.cpu_count = Or(manifest.cpu_count, @),
            !.umask = Or(manifest.umask, @),
            !.network_mode = Or(manifest.network_mode, @),
            !.environment =
                [k \in EnvironmentKeys |->
                    Or(manifest.variables[k], IF k \in manifest.unset_variables THEN Unset ELSE @[k])],
            !.toolchain_bindings =
                [k \in Tools |->
                    Or(manifest.toolchain[k], IF k \in manifest.unset_toolchain THEN Unset ELSE @[k])],
            !.source_file_overrides =
                [f \in Files |-> Or(manifest.dependency_overrides[f], @[f])]]

\* A change sets a scalar, or an entry of a map; Unset removes the entry.
ScalarChange(field, value) == [field |-> field, key |-> Unset, value |-> value]
EntryChange(map, key, value) == [field |-> map, key |-> key, value |-> value]

\* Faulty: a removed entry is no difference.
DiffOfSettings(good, bad) ==
    {ScalarChange(f, bad[f]) : f \in {g \in Scalars : good[g] # bad[g]}}
    \cup UNION {{EntryChange(m, k, bad[m][k]) : k \in {j \in Bound(bad[m]) : good[m][j] # bad[m][j]}} :
                m \in Maps}

diff_environments(good, bad) ==
    {ScalarChange(f, bad[f]) : f \in {g \in Scalars : good[g] # bad[g]}}
    \cup UNION {{EntryChange(m, k, bad[m][k]) :
                    k \in {j \in DOMAIN good[m] : good[m][j] # bad[m][j]}} : m \in Maps}

\* One round of apply_delta_subset's loop.
ApplyChange(environment, change) ==
    IF change.field \in Scalars
    THEN [environment EXCEPT ![change.field] = change.value]
    ELSE [environment EXCEPT ![change.field][change.key] = change.value]

-------------------------------------------------------------------------------
(* What a build gets                                                       *)

\* apply_source_overrides: file by file in path order, each variant read from
\* the workspace as the earlier overrides left it.
Contents(overrides) ==
    LET after[i \in 0..Len(FileOrder)] ==
            IF i = 0 THEN [f \in Files |-> f]
            ELSE LET target == FileOrder[i]
                 IN  IF overrides[target] = Unset THEN after[i - 1]
                     ELSE [after[i - 1] EXCEPT ![target] = after[i - 1][overrides[target]]]
    IN  after[Len(FileOrder)]

\* prepare_toolchain_wrappers and expand_controlled_value: the executable behind
\* the wrapper is the configured one with its placeholders replaced.
Expanded(environment, tool, placeholder) ==
    LET executable == environment.toolchain_bindings[tool]
    IN  IF executable = Unset \/ placeholder \notin Mentions[executable] THEN Unset
        ELSE IF placeholder = "source" THEN environment.container_source_path
        ELSE environment.container_work_path

\* The variables run_attempt passes: build.env, overridden by the environment,
\* by the wrappers of the bound tools, and by the CPU hint, in that order.
Variable(config, environment, k) ==
    IF k = "REPROBISECT_CPU_COUNT" /\ environment.cpu_count # Unset THEN environment.cpu_count
    ELSE IF k \in Tools /\ environment.toolchain_bindings[k] # Unset THEN "wrapper"
    ELSE Or(environment.environment[k], config.env[k])

\* A place is where a build can notice its environment.
Places ==
    {<<"setting", f>> : f \in Scalars} \cup {<<"variable", k>> : k \in EnvironmentKeys}
    \cup {<<"tool", k>> : k \in Tools} \cup {<<"source", k>> : k \in Tools}
    \cup {<<"build", k>> : k \in Tools} \cup {<<"file", f>> : f \in Files}

Inputs(config, environment) ==
    LET contents == Contents(environment.source_file_overrides)
    IN  [p \in Places |->
            IF p = <<"setting", "image_override">> THEN Or(environment.image_override, config.image)
            ELSE IF p[1] = "setting" THEN environment[p[2]]
            ELSE IF p[1] = "variable" THEN Variable(config, environment, p[2])
            ELSE IF p[1] = "tool" THEN environment.toolchain_bindings[p[2]]
            ELSE IF p[1] = "file" THEN contents[p[2]]
            ELSE Expanded(environment, p[2], p[1])]
===============================================================================
