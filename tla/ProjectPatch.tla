------------------------------ MODULE ProjectPatch ------------------------------
(***************************************************************************)
(* Project patches: how src/engine/fix.rs chooses a place in the project's *)
(* own build files and applies a patch there.                              *)
(*                                                                         *)
(* A file is its text, whether that text has the one place an insertion    *)
(* needs (a Makefile that calls tar, the end of meson's project()), how    *)
(* many archive commands a replacement could mean, and the candidates      *)
(* whose text it already has.                                              *)
(***************************************************************************)
EXTENDS Naturals, FiniteSets

Makefile == "Makefile"
CMakeLists == "CMakeLists.txt"
MesonBuild == "meson.build"
CargoToml == "Cargo.toml"
CargoConfig == ".cargo/config.toml"
Script == "build.sh"
ProjectFiles == {Makefile, CMakeLists, MesonBuild, CargoToml, CargoConfig, Script}

File(text, anchor, sites) ==
    [text |-> text, anchor |-> anchor, sites |-> sites, candidates |-> {}]
Missing == File("missing", FALSE, 0)

Present(tree, file) == tree[file] # Missing

\* A patch names the contents it was written for, which its SHA-256 stands for.
Patch(file, operation, expected, id) ==
    [path |-> file, operation |-> operation, expected |-> expected, id |-> id]
NoPatch == [path |-> "none"]

FirstOf(patch, otherwise) == IF patch # NoPatch THEN patch ELSE otherwise
If(condition, patch) == IF condition THEN patch ELSE NoPatch

-------------------------------------------------------------------------------
(* The builders.  `tools` are the build tools named by the command: a       *)
(* command that says "cmake" also says "make".                              *)

\* append_existing_patch
AppendBlock(tree, file, id) ==
    If(Present(tree, file) /\ id \notin tree[file].candidates, Patch(file, "append", tree[file], id))

\* replace_text_patch, after unique_literal_replacement
ReplaceSite(tree, file, id) ==
    If(Present(tree, file) /\ tree[file].sites = 1, Patch(file, "replace", tree[file], id))

\* create_file_patch
CreateFile(tree, file, id) == If(~Present(tree, file), Patch(file, "create", Missing, id))

\* meson_path_patch and insert_after_line_patch
InsertBlock(tree, file, id) ==
    If(/\ Present(tree, file)
       /\ tree[file].anchor
       /\ id \notin tree[file].candidates,
       Patch(file, "insert", tree[file], id))

Make(tools) == {"make", "cmake"} \cap tools # {}

CargoPatch(tree, id) ==
    If(Present(tree, CargoToml) /\ ~Present(tree, CargoConfig), CreateFile(tree, CargoConfig, id))

ArchiveMakefile(tree, tools, id) ==
    If(Make(tools) /\ Present(tree, Makefile) /\ tree[Makefile].anchor, AppendBlock(tree, Makefile, id))

\* shell_archive_patch gives up when a script the command names is not there.
ShellArchive(tree, tools, id) == If("script" \in tools, ReplaceSite(tree, Script, id))

\* archive_project_patch.  Its last resort, the Makefile again, asks for what the
\* first attempt asked.
ArchivePatch(tree, tools, id) ==
    FirstOf(ArchiveMakefile(tree, tools, id),
    FirstOf(If("cmake" \in tools, ReplaceSite(tree, CMakeLists, id)),
    FirstOf(If("meson" \in tools, ReplaceSite(tree, MesonBuild, id)),
    FirstOf(ShellArchive(tree, tools, id),
    FirstOf(ReplaceSite(tree, CMakeLists, id),
          ReplaceSite(tree, MesonBuild, id))))))

\* path_project_patch
PathPatch(tree, tools, id) ==
    FirstOf(If("cargo" \in tools, CargoPatch(tree, id)),
    FirstOf(If("meson" \in tools, InsertBlock(tree, MesonBuild, id)),
    FirstOf(If("cmake" \in tools, AppendBlock(tree, CMakeLists, id)),
    FirstOf(AppendBlock(tree, Makefile, id),
    FirstOf(AppendBlock(tree, CMakeLists, id),
    FirstOf(InsertBlock(tree, MesonBuild, id),
          CargoPatch(tree, id)))))))

\* source_date_epoch_project_patch
EpochPatch(tree, tools, id) ==
    IF "cargo" \in tools /\ CargoPatch(tree, id) # NoPatch THEN CargoPatch(tree, id)
    ELSE AppendBlock(tree, Makefile, id)

-------------------------------------------------------------------------------
(* apply_project_patch                                                      *)

\* Faulty: only the presence of the file is looked at.
PreconditionOnPresence(tree, patch) ==
    (patch.operation = "create") = ~Present(tree, patch.path)

\* verify_project_patch_precondition, and Create's refusal to overwrite.
Precondition(tree, patch) == tree[patch.path] = patch.expected

Patched(tree, patch) ==
    [tree EXCEPT ![patch.path] =
        CASE patch.operation = "replace" -> [@ EXCEPT !.text = "replaced",
                                                      !.sites = IF patch.path = Script THEN @ ELSE 0]
          [] patch.operation = "create" -> [File("created", FALSE, 0) EXCEPT !.candidates = {patch.id}]
          [] OTHER -> [@ EXCEPT !.candidates = @ \cup {patch.id}]]
===============================================================================
