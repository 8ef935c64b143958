------------------------------- MODULE Migration -------------------------------
(***************************************************************************)
(* Reading evidence of earlier releases: src/compat.rs, with the versions  *)
(* of src/schema.rs.                                                       *)
(*                                                                         *)
(* A document is a record: its kind and schema version; of a build, the    *)
(* fields its release wrote, what its log digests identify and its cache   *)
(* summaries; of a report, the documents inside it.                        *)
(***************************************************************************)
EXTENDS Naturals

Builds == {"build_run", "build_failure"}
Reports == {"check_report", "fix_report", "environment_comparison_report"}
EvidenceKinds == Builds \cup Reports

Minimum(kind) ==
    CASE kind = "check_report" -> 5
      [] kind = "fix_report" -> 2
      [] OTHER -> 1

Current(kind) ==
    CASE kind = "check_report" -> 14
      [] kind \in Builds -> 10
      [] kind = "fix_report" -> 12
      [] kind = "environment_comparison_report" -> 4

\* The version from which a field must be there.
RequiredFrom ==
    [source_overrides |-> 2, network_trace |-> 2, runtime_dependency_provenance |-> 3,
     process_trace |-> 5, runner_backend |-> 8, log_identity |-> 10]

BoundedFields == {"truncation", "limits", "observed_change", "comparison_complete"}

\* The types that documents are read into.
CacheSummaries ==
    [changed : BOOLEAN, observed : BOOLEAN, complete : BOOLEAN,
     limits : {"configured", "unknown"}, missing : SUBSET BoundedFields]

BuildDocuments ==
    [kind : Builds, version : Nat, fields : SUBSET ({"artifacts"} \cup DOMAIN RequiredFrom),
     identity : {"stream", "persisted text"}, caches : SUBSET CacheSummaries]

CheckDocuments == [kind : {"check_report"}, version : Nat, parts : SUBSET BuildDocuments]

ComparisonDocuments ==
    [kind : {"environment_comparison_report"}, version : Nat, parts : SUBSET BuildDocuments]

FixDocuments ==
    [kind : {"fix_report"}, version : Nat, parts : SUBSET (BuildDocuments \cup CheckDocuments)]

EvidenceDocuments == BuildDocuments \cup CheckDocuments \cup ComparisonDocuments \cup FixDocuments

SupportedVersion(kind, version) == Minimum(kind) <= version /\ version <= Current(kind)

-------------------------------------------------------------------------------
(* Builds                                                                  *)

\* validate_build_shape_for_version, and the bounds of cache summaries.
BuildReadable(d) ==
    /\ d.kind \in Builds
    /\ SupportedVersion(d.kind, d.version)
    /\ \A f \in DOMAIN RequiredFrom : d.version >= RequiredFrom[f] => f \in d.fields
    /\ d.kind = "build_run" => "artifacts" \in d.fields
    /\ d.version >= 4 => \A c \in d.caches : c.missing = {}

\* migrate_runtime_dependency_provenance: a summary from before there were
\* bounds covered its whole cache, within bounds nobody recorded.
MigrateCache(c) ==
    [c EXCEPT !.missing = {},
              !.observed = IF "observed_change" \in c.missing THEN c.changed ELSE @,
              !.complete = ("comparison_complete" \in c.missing) \/ @,
              !.limits = IF "limits" \in c.missing THEN "unknown" ELSE @]

\* Faulty: the build keeps the version it was written with.
MigrateBuildInPlace(d) ==
    [d EXCEPT !.fields = @ \cup DOMAIN RequiredFrom,
              !.identity = IF d.version < 10 THEN "persisted text" ELSE @,
              !.caches = {MigrateCache(c) : c \in @}]

\* migrate_build_common.  What a release did not write is filled with defaults
\* when the document is read into the current type and written again.
MigrateBuild(d) ==
    [d EXCEPT !.version = Current(d.kind),
              !.fields = @ \cup DOMAIN RequiredFrom,
              !.identity = IF d.version < 10 THEN "persisted text" ELSE @,
              !.caches = {MigrateCache(c) : c \in @}]

BuildMigrated(d) == d.version < Current(d.kind) \/ \E c \in d.caches : c.missing # {}

-------------------------------------------------------------------------------
(* Reports                                                                 *)

ReportReadable(d, kind) == d.kind = kind /\ SupportedVersion(kind, d.version)

CheckReadable(d) ==
    ReportReadable(d, "check_report") /\ \A part \in d.parts : BuildReadable(part)

MigrateCheck(d) ==
    [d EXCEPT !.version = Current(d.kind), !.parts = {MigrateBuild(part) : part \in @}]

ComparisonReadable(d) ==
    /\ ReportReadable(d, "environment_comparison_report")
    /\ \A part \in d.parts : BuildReadable(part)

\* A fix report holds one diagnosis, a check report, and the verification runs.
FixReadable(d) ==
    /\ ReportReadable(d, "fix_report")
    /\ \E part \in d.parts : CheckReadable(part)
    /\ \A part \in d.parts : CheckReadable(part) \/ BuildReadable(part)

MigrateFix(d) ==
    [d EXCEPT !.version = Current(d.kind),
              !.parts = {IF part.kind \in Builds THEN MigrateBuild(part) ELSE MigrateCheck(part) :
                            part \in @}]

PartMigrated(part) ==
    IF part.kind \in Builds THEN BuildMigrated(part)
    ELSE \E inner \in part.parts : BuildMigrated(inner)

-------------------------------------------------------------------------------
(* load_evidence                                                           *)

Readable(d) ==
    \/ BuildReadable(d)
    \/ CheckReadable(d)
    \/ ComparisonReadable(d)
    \/ FixReadable(d)

Migrate(d) ==
    CASE d.kind \in Builds -> MigrateBuild(d)
      [] d.kind \in {"check_report", "environment_comparison_report"} -> MigrateCheck(d)
      [] d.kind = "fix_report" -> MigrateFix(d)

\* The summary's `migrated`.  Only the document's own version and the builds in
\* it count: the version of a report inside a report does not.
Migrated(d) ==
    \/ d.version # Current(d.kind)
    \/ IF d.kind \in Builds THEN BuildMigrated(d) ELSE \E part \in d.parts : PartMigrated(part)
===============================================================================
