------------------------------- MODULE MCCommands -------------------------------
(***************************************************************************)
(* An instance of Commands.  The configurations include ones that          *)
(* Config::validate must refuse; the manifests set, unset and override;    *)
(* the projects differ in one respect each from the one diagnosed, a       *)
(* candidate already applied and an unusable configuration among them;     *)
(* the documents are of old, current and unsupported releases.             *)
(***************************************************************************)
EXTENDS Commands

Executables == {"cc", "build-cc"}
Order == <<"a.lock", "b.lock", "c.lock">>

InValues ==
    {"/src", "/workspace", "sorted", "946684800", "UTC", "C", "v1", "v2", "img0", "img1", "img2"}
    \cup Executables

InMentions == [v \in Executables |-> IF v = "build-cc" THEN {"build"} ELSE {}]

NoPairs(keys) == [k \in keys |-> <<>>]
None == Nowhere(EnvironmentKeys)

InConfigs ==
    [image : {"img0"},
     image_variants : {<<>>, <<"img1", "img2">>, <<"img0">>},
     toolchain_variables : {NoPairs(Tools), [NoPairs(Tools) EXCEPT !["CC"] = <<"cc", "build-cc">>]},
     dependency_variants :
        {{}, {[target |-> "a.lock", variant_file |-> "b.lock"]},
         {[target |-> "a.lock", variant_file |-> "b.lock"],
          [target |-> "b.lock", variant_file |-> "c.lock"]}},
     environment_variables :
        {NoPairs(EnvironmentKeys),
         [NoPairs(EnvironmentKeys) EXCEPT !["CC"] = <<"v1", "v2">>],
         [NoPairs(EnvironmentKeys) EXCEPT !["CFLAGS"] = <<"v1", "v2">>],
         [NoPairs(EnvironmentKeys) EXCEPT !["TZ"] = <<"v1", "v2">>]},
     dimensions : {{"build_path", "locale", "timezone", "umask"},
                   {"source_path", "source_date_epoch", "cpu_count", "network_access"},
                   {"source_mtime", "hostname", "directory_order", "build_path"}},
     env : {None, [None EXCEPT !["TZ"] = "v1", !["CFLAGS"] = "v2"]},
     observed : {"nothing"}]

Silent ==
    [image |-> Unset, source_path |-> Unset, build_path |-> Unset,
     source_copy_order |-> Unset, source_date_epoch |-> Unset,
     source_mtime_epoch |-> Unset, timezone |-> Unset, locale |-> Unset,
     hostname |-> Unset, cpu_count |-> Unset, umask |-> Unset, network_mode |-> Unset,
     variables |-> None, unset_variables |-> {}, toolchain |-> Nowhere(Tools),
     unset_toolchain |-> {}, dependency_overrides |-> Nowhere(Files)]

InManifests ==
    {Silent,
     [Silent EXCEPT !.image = "img1", !.timezone = "HST10", !.variables["CFLAGS"] = "v1"],
     [Silent EXCEPT !.unset_variables = {"TZ", "LANG"}, !.toolchain["CC"] = "cc", !.umask = "077"],
     [Silent EXCEPT !.image = "img0", !.locale = "C.UTF-8", !.unset_toolchain = {"CC"},
                    !.dependency_overrides["a.lock"] = "b.lock"],
     [Silent EXCEPT !.unset_variables = {"CFLAGS"}, !.variables["CFLAGS"] = "v2"]}

-------------------------------------------------------------------------------
(* Projects                                                                *)

Project(dimensions, tools) ==
    [image |-> "img0", image_variants |-> <<>>, toolchain_variables |-> NoPairs(Tools),
     dependency_variants |-> {}, environment_variables |-> NoPairs(EnvironmentKeys),
     dimensions |-> dimensions, env |-> [None EXCEPT !["CFLAGS"] = "v2"],
     observed |-> "nothing", tools |-> tools]

NoFiles == [f \in ProjectFiles |-> Missing]
TarMakefile == File("all: tar", TRUE, 0)

MakeProject ==
    [config |-> Project({"build_path", "umask"}, {"make"}),
     files |-> [NoFiles EXCEPT ![Makefile] = TarMakefile]]
ScriptProject ==
    [config |-> Project({"source_path", "source_date_epoch"}, {"script", "cargo"}),
     files |-> [NoFiles EXCEPT ![Script] = File("tar", FALSE, 1),
                               ![CargoToml] = File("package", FALSE, 0)]]

InTrees ==
    {MakeProject,
     [MakeProject EXCEPT !.files[Makefile].text = "all: other tar"],
     [MakeProject EXCEPT !.files[Makefile].candidates = {<<"build_path">>}],
     [MakeProject EXCEPT !.config.dimensions = {"build_path"}],
     [MakeProject EXCEPT !.config.image_variants = <<"img0">>],
     [MakeProject EXCEPT !.files = NoFiles],
     ScriptProject}

-------------------------------------------------------------------------------
(* Evidence                                                                *)

Summary(missing) ==
    [changed |-> TRUE, observed |-> FALSE, complete |-> "observed_change" \notin missing,
     limits |-> "configured", missing |-> missing]

OldBuild(version, fields, missing) ==
    [kind |-> "build_run", version |-> version, fields |-> fields,
     identity |-> "stream", caches |-> {Summary(missing)}]

Report(kind, version, parts) == [kind |-> kind, version |-> version, parts |-> parts]

InDocuments ==
    {OldBuild(3, {"artifacts", "source_overrides", "network_trace",
                  "runtime_dependency_provenance"}, BoundedFields),
     OldBuild(10, {"artifacts"} \cup DOMAIN RequiredFrom, {}),
     OldBuild(9, {"artifacts"}, {}),
     Report("check_report", 6, {OldBuild(1, {"artifacts"}, {})}),
     Report("check_report", 15, {}),
     Report("environment_comparison_report", 4, {OldBuild(1, {"artifacts"}, {})}),
     Report("fix_report", 3, {Report("check_report", 5, {OldBuild(1, {"artifacts"}, {})})}),
     Report("fix_report", 12, {Report("check_report", 14, {})})}

InPaths == {"old", "new", "link"}
InResolve == [p \in InPaths |-> IF p = "link" THEN "old" ELSE p]
================================================================================
