----------------------------- MODULE CommandsProofs -----------------------------
(***************************************************************************)
(* The commands together: what is proved of the searches and of fix holds  *)
(* of the program that dispatches them, and evidence files survive it.     *)
(***************************************************************************)
EXTENDS Commands, CombinationProofs, FixProofs

-------------------------------------------------------------------------------
(* Evidence files                                                          *)

Stages == {"none", "refused", "loaded", "opened", "written"}

\* A job that has loaded its source knows its destination, and one that has opened
\* the destination finds it begun and empty.
EvidenceInv ==
    /\ DOMAIN disk = RealPaths
    /\ job.stage \in Stages
    /\ job.stage \in {"loaded", "opened", "written"} =>
        /\ DOMAIN job = {"stage", "source", "destination", "force", "document"}
        /\ job.destination \in Paths
    /\ job.stage = "opened" => job.destination \in RealPaths /\ disk[job.destination] = Partial

LEMMA EvidenceInvInit == EvidenceInit => EvidenceInv
BY DEF EvidenceInit, EvidenceInv, NoJob, Stages

LEMMA EarlierCommandStep ==
    ASSUME EvidenceInv, EarlierCommand
    PROVE  EvidenceInv' /\ Survival
<1>1. PICK p \in RealPaths : \E file \in {Whole(d) : d \in Documents} \cup {Partial} :
            /\ disk[p].state = "absent"
            /\ disk' = [disk EXCEPT ![p] = file]
  BY DEF EarlierCommand, Exists
<1>2. PICK file \in {Whole(d) : d \in Documents} \cup {Partial} :
            /\ disk[p].state = "absent"
            /\ disk' = [disk EXCEPT ![p] = file]
  BY <1>1
<1>3. UNCHANGED job /\ job.stage = "none"
  BY DEF EarlierCommand, NoJob
<1> QED
  BY <1>2, <1>3 DEF EvidenceInv, Survival

LEMMA LoadEvidenceStep ==
    ASSUME EvidenceInv, NEW source \in Paths, NEW destination \in Paths, NEW force \in BOOLEAN,
           LoadEvidence(source, destination, force)
    PROVE  EvidenceInv' /\ Survival
<1>1. UNCHANGED disk
  BY DEF LoadEvidence, Refuse
<1>2. \/ job' = [stage |-> "refused"]
      \/ job' = [stage |-> "loaded", source |-> source, destination |-> destination,
                 force |-> force, document |-> Migrate(disk[Resolve[source]].document)]
  BY DEF LoadEvidence, Refuse
<1>3. EvidenceInv'
  BY <1>1, <1>2 DEF EvidenceInv, Stages
<1> QED
  BY <1>1, <1>3 DEF Survival

LEMMA OpenNormalizedStep ==
    ASSUME EvidenceInv, OpenNormalized
    PROVE  EvidenceInv' /\ Survival
<1>1. CASE MayOpen
  <2>1. /\ job.stage = "loaded"
        /\ disk' = [disk EXCEPT ![job.destination] = Partial]
        /\ job' = [job EXCEPT !.stage = "opened"]
    BY <1>1 DEF OpenNormalized
  <2>2. /\ Resolve[job.source] # Resolve[job.destination]
        /\ Resolve[job.destination] = job.destination
        /\ job.force \/ disk[job.destination].state = "absent"
    BY <1>1 DEF MayOpen, IsSource, IsSymlink, Exists
  <2>3. job.destination \in RealPaths
    BY <2>1, <2>2 DEF EvidenceInv, RealPaths
  <2>4. EvidenceInv'
    BY <2>1, <2>3 DEF EvidenceInv, Stages
  <2>5. Survival
    BY <2>1, <2>2, <2>3 DEF EvidenceInv, Survival
  <2> QED
    BY <2>4, <2>5
<1>2. CASE ~MayOpen
  BY <1>2 DEF OpenNormalized, Refuse, EvidenceInv, Stages, Survival
<1> QED
  BY <1>1, <1>2

LEMMA WriteNormalizedStep ==
    ASSUME EvidenceInv, WriteNormalized
    PROVE  EvidenceInv' /\ Survival
<1>1. /\ job.stage = "opened"
      /\ disk' = [disk EXCEPT ![job.destination] = Whole(job.document)]
      /\ job' = [job EXCEPT !.stage = "written"]
  BY DEF WriteNormalized, FillIn
<1>2. disk[job.destination].state = "partial" /\ job.destination \in RealPaths
  BY <1>1 DEF EvidenceInv, Partial
<1>3. EvidenceInv'
  BY <1>1 DEF EvidenceInv, Stages
<1> QED
  BY <1>1, <1>2, <1>3 DEF EvidenceInv, Survival

LEMMA EvidenceStep ==
    ASSUME EvidenceInv, EvidenceNext
    PROVE  EvidenceInv' /\ Survival
<1>1. CASE EarlierCommand
  BY <1>1, EarlierCommandStep
<1>2. CASE \E source \in Paths, destination \in Paths, force \in BOOLEAN :
                LoadEvidence(source, destination, force)
  BY <1>2, LoadEvidenceStep
<1>3. CASE OpenNormalized
  BY <1>3, OpenNormalizedStep
<1>4. CASE WriteNormalized
  BY <1>4, WriteNormalizedStep
<1>5. CASE EvidenceEnds
  BY <1>5 DEF EvidenceEnds, EvidenceInv, Survival, NoJob, Stages
<1> QED
  BY <1>1, <1>2, <1>3, <1>4, <1>5 DEF EvidenceNext

\* fix persists its report in a file of its own.
LEMMA FixKeepsEvidence ==
    ASSUME EvidenceInv, job = NoJob, FixNext
    PROVE  EvidenceInv' /\ job' = NoJob /\ Survival
<1> USE DEF NoJob
<1>1. CASE CreateReport
  <2>1. PICK p \in RealPaths : CreateNew(p)
    BY <1>1 DEF CreateReport
  <2> QED
    BY <1>1, <2>1 DEF CreateReport, CreateNew, Exists, EvidenceInv, Survival
<1>2. CASE FillReport
  <2>1. PICK p \in RealPaths, report \in Documents : disk[p] = Partial /\ FillIn(p, report)
    BY <1>2 DEF FillReport
  <2> QED
    BY <1>2, <2>1 DEF FillReport, FillIn, Partial, EvidenceInv, Survival
<1>3. CASE UNCHANGED evidenceVars
  BY <1>3 DEF evidenceVars, EvidenceInv, Survival
<1> QED
  BY <1>1, <1>2, <1>3
     DEF FixNext, LoadConfig, DigestSource, Diagnose, GeneratePlans, SkipUnsupported,
         StartVerification, RefuseVerification, Build, AbandonVerification,
         ConcludeVerification, StopFix, EditProject

-------------------------------------------------------------------------------
(* Reading documents again                                                 *)

\* What migrating a build leaves behind.
BuildIsCurrent(d) ==
    /\ d.version = Current(d.kind)
    /\ DOMAIN RequiredFrom \subseteq d.fields
    /\ \A c \in d.caches : c.missing = {}

\* The later releases count on from the earlier ones.
LEMMA CurrentIsSupported ==
    ASSUME NEW kind \in EvidenceKinds
    PROVE  Current(kind) \in Nat /\ SupportedVersion(kind, Current(kind))
BY DEF EvidenceKinds, Builds, Reports, Current, Minimum, SupportedVersion

\* A migrated summary and a migrated build, field by field.
LEMMA CacheFields ==
    ASSUME NEW c \in CacheSummaries, NEW observed, NEW complete, NEW limits
    PROVE  [c EXCEPT !.missing = {}, !.observed = observed, !.complete = complete,
                     !.limits = limits]
            = [changed |-> c.changed, observed |-> observed, complete |-> complete,
               limits |-> limits, missing |-> {}]
<1> DEFINE r == [c EXCEPT !.missing = {}, !.observed = observed,
                        !.complete = complete, !.limits = limits]
<1>1. /\ DOMAIN r = {"changed", "observed", "complete", "limits", "missing"}
      /\ r = [f \in DOMAIN r |-> r[f]]
  BY DEF CacheSummaries
<1>2. /\ r.changed = c.changed
      /\ r.observed = observed
      /\ r.complete = complete
      /\ r.limits = limits
      /\ r.missing = {}
  BY DEF CacheSummaries
<1> HIDE DEF r
<1>3. r = [changed |-> r.changed, observed |-> r.observed, complete |-> r.complete,
           limits |-> r.limits, missing |-> r.missing]
  BY <1>1
<1> QED
  BY <1>2, <1>3 DEF r

LEMMA BuildFields ==
    ASSUME NEW d \in BuildDocuments, NEW version, NEW fields, NEW identity, NEW caches
    PROVE  [d EXCEPT !.version = version, !.fields = fields, !.identity = identity,
                     !.caches = caches]
            = [kind |-> d.kind, version |-> version, fields |-> fields,
               identity |-> identity, caches |-> caches]
<1> DEFINE r == [d EXCEPT !.version = version, !.fields = fields,
                        !.identity = identity, !.caches = caches]
<1>1. /\ DOMAIN r = {"kind", "version", "fields", "identity", "caches"}
      /\ r = [f \in DOMAIN r |-> r[f]]
  BY DEF BuildDocuments
<1>2. /\ r.kind = d.kind
      /\ r.version = version
      /\ r.fields = fields
      /\ r.identity = identity
      /\ r.caches = caches
  BY DEF BuildDocuments
<1> HIDE DEF r
<1>3. r = [kind |-> r.kind, version |-> r.version, fields |-> r.fields,
           identity |-> r.identity, caches |-> r.caches]
  BY <1>1
<1> QED
  BY <1>2, <1>3 DEF r

LEMMA FixFields ==
    ASSUME NEW d \in FixDocuments, NEW version, NEW parts
    PROVE  [d EXCEPT !.version = version, !.parts = parts]
            = [kind |-> d.kind, version |-> version, parts |-> parts]
<1> DEFINE r == [d EXCEPT !.version = version, !.parts = parts]
<1>1. DOMAIN r = {"kind", "version", "parts"} /\ r = [f \in DOMAIN r |-> r[f]]
  BY DEF FixDocuments
<1>2. r.kind = d.kind /\ r.version = version /\ r.parts = parts
  BY DEF FixDocuments
<1> HIDE DEF r
<1>3. r = [kind |-> r.kind, version |-> r.version, parts |-> r.parts]
  BY <1>1
<1> QED
  BY <1>2, <1>3 DEF r

LEMMA CacheOnce ==
    ASSUME NEW c \in CacheSummaries
    PROVE  /\ MigrateCache(c) \in CacheSummaries
           /\ MigrateCache(c).missing = {}
           /\ c.missing = {} => MigrateCache(c) = c
<1>1. /\ c = [changed |-> c.changed, observed |-> c.observed, complete |-> c.complete,
              limits |-> c.limits, missing |-> c.missing]
      /\ c.missing \subseteq BoundedFields
      /\ c.changed \in BOOLEAN /\ c.observed \in BOOLEAN /\ c.complete \in BOOLEAN
      /\ c.limits \in {"configured", "unknown"}
  BY DEF CacheSummaries
<1> DEFINE observed == IF "observed_change" \in c.missing THEN c.changed ELSE c.observed
           complete == ("comparison_complete" \in c.missing) \/ c.complete
           limits == IF "limits" \in c.missing THEN "unknown" ELSE c.limits
<1>2. MigrateCache(c) =
        [changed |-> c.changed, observed |-> observed, complete |-> complete,
         limits |-> limits, missing |-> {}]
  <2>1. MigrateCache(c) =
          [c EXCEPT !.missing = {}, !.observed = observed, !.complete = complete,
                    !.limits = limits]
    BY Zenon DEF MigrateCache
  <2> HIDE DEF observed, complete, limits
  <2> QED
    BY <2>1, CacheFields
<1>3. observed \in BOOLEAN /\ limits \in {"configured", "unknown"}
  BY <1>1
<1>4. complete \in BOOLEAN
  BY Zenon
<1>5. c.missing = {} => observed = c.observed /\ limits = c.limits
  OBVIOUS
<1>6. c.missing = {} => complete = c.complete
  <2> SUFFICES ASSUME c.missing = {} PROVE complete = c.complete
    OBVIOUS
  <2>1. "comparison_complete" \notin c.missing
    OBVIOUS
  <2> QED
    BY <1>1, <2>1
<1> HIDE DEF observed, complete, limits
<1>7. MigrateCache(c) \in CacheSummaries
  BY <1>1, <1>2, <1>3, <1>4 DEF CacheSummaries
<1>8. MigrateCache(c).missing = {}
  BY <1>2
<1>9. c.missing = {} => MigrateCache(c) = c
  BY <1>1, <1>2, <1>5, <1>6
<1> QED
  BY <1>7, <1>8, <1>9

LEMMA BuildOnce ==
    ASSUME NEW d \in BuildDocuments
    PROVE  /\ MigrateBuild(d) \in BuildDocuments
           /\ MigrateBuild(d).kind = d.kind
           /\ BuildIsCurrent(MigrateBuild(d))
           /\ BuildIsCurrent(d) => MigrateBuild(d) = d /\ ~BuildMigrated(d)
           /\ BuildReadable(d) => BuildReadable(MigrateBuild(d))
<1> DEFINE n == MigrateBuild(d)
           identity == IF d.version < 10 THEN "persisted text" ELSE d.identity
           caches == {MigrateCache(c) : c \in d.caches}
<1>1. /\ d = [kind |-> d.kind, version |-> d.version, fields |-> d.fields,
              identity |-> d.identity, caches |-> d.caches]
      /\ d.kind \in Builds /\ d.version \in Nat
      /\ d.fields \subseteq {"artifacts"} \cup DOMAIN RequiredFrom
      /\ d.identity \in {"stream", "persisted text"}
      /\ d.caches \subseteq CacheSummaries
  BY DEF BuildDocuments
<1>2. n = [kind |-> d.kind, version |-> Current(d.kind),
           fields |-> d.fields \cup DOMAIN RequiredFrom, identity |-> identity,
           caches |-> caches]
  <2>1. n = [d EXCEPT !.version = Current(d.kind),
                      !.fields = d.fields \cup DOMAIN RequiredFrom,
                      !.identity = identity, !.caches = caches]
    BY Zenon DEF MigrateBuild
  <2> HIDE DEF n, identity, caches
  <2> QED
    BY <2>1, BuildFields
<1>3. identity \in {"stream", "persisted text"}
  BY <1>1
<1>4. Current(d.kind) = 10 /\ SupportedVersion(d.kind, Current(d.kind))
  BY <1>1, CurrentIsSupported DEF Current, Builds, EvidenceKinds
<1>5. caches \subseteq CacheSummaries /\ \A c \in caches : c.missing = {}
  <2> SUFFICES ASSUME NEW c \in caches PROVE c \in CacheSummaries /\ c.missing = {}
    OBVIOUS
  <2>1. PICK old \in d.caches : c = MigrateCache(old)
    OBVIOUS
  <2> QED
    BY <1>1, <2>1, CacheOnce
<1>6. d.version = 10 => identity = d.identity
  OBVIOUS
<1> HIDE DEF n, identity, caches
<1>7. n \in BuildDocuments
  <2>1. d.fields \cup DOMAIN RequiredFrom \in SUBSET ({"artifacts"} \cup DOMAIN RequiredFrom)
    BY <1>1
  <2>2. Current(d.kind) \in Nat
    BY <1>4
  <2>3. caches \in SUBSET CacheSummaries
    BY <1>5
  <2> QED
    BY <1>1, <1>2, <1>3, <2>1, <2>2, <2>3 DEF BuildDocuments
<1>8. BuildIsCurrent(n) /\ n.kind = d.kind
  BY <1>2, <1>5 DEF BuildIsCurrent
<1>9. ASSUME BuildIsCurrent(d) PROVE n = d /\ ~BuildMigrated(d)
  <2>1. \A c \in d.caches : MigrateCache(c) = c /\ c.missing = {}
    BY <1>1, <1>9, CacheOnce DEF BuildIsCurrent
  <2>2. caches = d.caches
    BY <2>1 DEF caches
  <2>3. d.version = 10 /\ d.fields \cup DOMAIN RequiredFrom = d.fields
    BY <1>4, <1>9 DEF BuildIsCurrent
  <2>4. n = d
    BY <1>1, <1>2, <1>4, <1>6, <2>2, <2>3
  <2>5. ~BuildMigrated(d)
    BY <1>4, <2>1, <2>3 DEF BuildMigrated
  <2> QED
    BY <2>4, <2>5
<1>10. ASSUME BuildReadable(d) PROVE BuildReadable(n)
  <2>1. d.kind = "build_run" => "artifacts" \in n.fields
    BY <1>2, <1>10 DEF BuildReadable
  <2>2. /\ DOMAIN RequiredFrom \subseteq n.fields /\ n.kind = d.kind
        /\ n.version = Current(d.kind)
    BY <1>2
  <2>3. \A c \in n.caches : c.missing = {}
    BY <1>8 DEF BuildIsCurrent
  <2> QED
    BY <1>1, <1>4, <2>1, <2>2, <2>3 DEF BuildReadable
<1> QED
  BY <1>7, <1>8, <1>9, <1>10 DEF n

\* Reports are migrated part by part.
LEMMA PartsOnce ==
    ASSUME NEW d, d \in CheckDocuments \/ d \in ComparisonDocuments
    PROVE  /\ MigrateCheck(d) = [kind |-> d.kind, version |-> Current(d.kind),
                                 parts |-> {MigrateBuild(part) : part \in d.parts}]
           /\ \A part \in MigrateCheck(d).parts : part \in BuildDocuments /\ BuildIsCurrent(part)
           /\ d.parts \subseteq BuildDocuments /\ Current(d.kind) \in Nat
           /\ (\A part \in d.parts : BuildIsCurrent(part)) /\ d.version = Current(d.kind)
                => MigrateCheck(d) = d
           /\ (\A part \in d.parts : BuildReadable(part))
                => \A part \in MigrateCheck(d).parts : BuildReadable(part)
<1> DEFINE parts == {MigrateBuild(part) : part \in d.parts}
<1>1. /\ d = [kind |-> d.kind, version |-> d.version, parts |-> d.parts]
      /\ d.parts \subseteq BuildDocuments /\ d.kind \in Reports
  BY DEF CheckDocuments, ComparisonDocuments, Reports
<1>2. MigrateCheck(d) = [kind |-> d.kind, version |-> Current(d.kind), parts |-> parts]
  <2> HIDE DEF parts
  <2>1. MigrateCheck(d) = [d EXCEPT !.version = Current(d.kind), !.parts = parts]
    BY Zenon DEF MigrateCheck, parts
  <2> QED
    BY <1>1, <2>1
<1>3. ASSUME NEW part \in parts
      PROVE  part \in BuildDocuments /\ BuildIsCurrent(part)
  <2>1. PICK old \in d.parts : part = MigrateBuild(old)
    OBVIOUS
  <2> QED
    BY <1>1, <2>1, BuildOnce
<1>4. ASSUME \A part \in d.parts : BuildIsCurrent(part) PROVE parts = d.parts
  BY <1>1, <1>4, BuildOnce
<1>5. ASSUME \A part \in d.parts : BuildReadable(part), NEW part \in parts
      PROVE  BuildReadable(part)
  <2>1. PICK old \in d.parts : part = MigrateBuild(old)
    OBVIOUS
  <2> QED
    BY <1>1, <1>5, <2>1, BuildOnce
<1>6. Current(d.kind) \in Nat
  BY <1>1, CurrentIsSupported DEF EvidenceKinds
<1>7. MigrateCheck(d).parts = parts
  BY <1>2
<1> HIDE DEF parts
<1>8. parts = d.parts /\ d.version = Current(d.kind) => MigrateCheck(d) = d
  BY <1>1, <1>2
<1>9. \A part \in MigrateCheck(d).parts : part \in BuildDocuments /\ BuildIsCurrent(part)
  BY <1>3, <1>7
<1>10. (\A part \in d.parts : BuildReadable(part))
         => \A part \in MigrateCheck(d).parts : BuildReadable(part)
  BY <1>5, <1>7
<1> QED
  BY <1>1, <1>2, <1>4, <1>6, <1>8, <1>9, <1>10 DEF parts

LEMMA CheckOnce ==
    ASSUME NEW d \in CheckDocuments
    PROVE  /\ MigrateCheck(d) \in CheckDocuments
           /\ MigrateCheck(MigrateCheck(d)) = MigrateCheck(d)
           /\ ~Migrated(MigrateCheck(d))
           /\ CheckReadable(d) => CheckReadable(MigrateCheck(d))
<1> DEFINE n == MigrateCheck(d)
<1>1. d.kind = "check_report" /\ d.kind \notin Builds /\ d.kind \in EvidenceKinds
  BY DEF CheckDocuments, Builds, Reports, EvidenceKinds
<1>2. /\ n = [kind |-> d.kind, version |-> Current(d.kind), parts |-> n.parts]
      /\ \A part \in n.parts : part \in BuildDocuments /\ BuildIsCurrent(part)
      /\ Current(d.kind) \in Nat
  BY PartsOnce
<1>3. (\A part \in d.parts : BuildReadable(part)) => \A part \in n.parts : BuildReadable(part)
  BY PartsOnce
<1> HIDE DEF n
<1>4. n.kind = d.kind /\ n.version = Current(d.kind)
  BY <1>2
<1>5. n \in CheckDocuments
  BY <1>1, <1>2 DEF CheckDocuments
<1>6. MigrateCheck(n) = n
  BY <1>2, <1>4, <1>5, PartsOnce
<1>7. ~Migrated(n)
  <2>1. \A part \in n.parts : part.kind \in Builds /\ ~BuildMigrated(part)
    BY <1>2, BuildOnce DEF BuildDocuments
  <2> QED
    BY <1>1, <1>4, <2>1 DEF Migrated, PartMigrated
<1>8. CheckReadable(d) => CheckReadable(n)
  BY <1>1, <1>3, <1>4, CurrentIsSupported DEF CheckReadable, ReportReadable
<1> QED
  BY <1>5, <1>6, <1>7, <1>8 DEF n

LEMMA ComparisonOnce ==
    ASSUME NEW d \in ComparisonDocuments
    PROVE  /\ MigrateCheck(d) \in ComparisonDocuments
           /\ MigrateCheck(MigrateCheck(d)) = MigrateCheck(d)
           /\ ~Migrated(MigrateCheck(d))
           /\ ComparisonReadable(d) => ComparisonReadable(MigrateCheck(d))
<1> DEFINE n == MigrateCheck(d)
<1>1. /\ d.kind = "environment_comparison_report"
      /\ d.kind \notin Builds /\ d.kind \in EvidenceKinds
  BY DEF ComparisonDocuments, Builds, Reports, EvidenceKinds
<1>2. /\ n = [kind |-> d.kind, version |-> Current(d.kind), parts |-> n.parts]
      /\ \A part \in n.parts : part \in BuildDocuments /\ BuildIsCurrent(part)
      /\ Current(d.kind) \in Nat
  BY PartsOnce
<1>3. (\A part \in d.parts : BuildReadable(part)) => \A part \in n.parts : BuildReadable(part)
  BY PartsOnce
<1> HIDE DEF n
<1>4. n.kind = d.kind /\ n.version = Current(d.kind)
  BY <1>2
<1>5. n \in ComparisonDocuments
  BY <1>1, <1>2 DEF ComparisonDocuments
<1>6. MigrateCheck(n) = n
  BY <1>2, <1>4, <1>5, PartsOnce
<1>7. ~Migrated(n)
  <2>1. \A part \in n.parts : part.kind \in Builds /\ ~BuildMigrated(part)
    BY <1>2, BuildOnce DEF BuildDocuments
  <2> QED
    BY <1>1, <1>4, <2>1 DEF Migrated, PartMigrated
<1>8. ComparisonReadable(d) => ComparisonReadable(n)
  BY <1>1, <1>3, <1>4, CurrentIsSupported DEF ComparisonReadable, ReportReadable
<1> QED
  BY <1>5, <1>6, <1>7, <1>8 DEF n

\* What a fix report holds is migrated by its kind.
FixPart(part) == IF part.kind \in Builds THEN MigrateBuild(part) ELSE MigrateCheck(part)

LEMMA FixPartOnce ==
    ASSUME NEW part \in BuildDocuments \cup CheckDocuments
    PROVE  /\ FixPart(part) \in BuildDocuments \cup CheckDocuments
           /\ FixPart(FixPart(part)) = FixPart(part)
           /\ ~PartMigrated(FixPart(part))
           /\ BuildReadable(part) => BuildReadable(FixPart(part))
           /\ CheckReadable(part) => CheckReadable(FixPart(part))
<1>1. CASE part \in BuildDocuments
  <2> DEFINE n == MigrateBuild(part)
  <2>1. part.kind \in Builds /\ part.kind \notin Reports
    BY <1>1 DEF BuildDocuments, Builds, Reports
  <2>2. /\ n \in BuildDocuments /\ n.kind = part.kind /\ BuildIsCurrent(n)
        /\ BuildReadable(part) => BuildReadable(n)
    BY <1>1, BuildOnce
  <2> HIDE DEF n
  <2>3. MigrateBuild(n) = n /\ ~BuildMigrated(n)
    BY <2>2, BuildOnce
  <2>4. FixPart(part) = n
    BY <2>1 DEF FixPart, n
  <2>5. FixPart(n) = n /\ ~PartMigrated(n)
    BY <2>1, <2>2, <2>3 DEF FixPart, PartMigrated
  <2>6. ~CheckReadable(part)
    BY <2>1 DEF CheckReadable, ReportReadable, Reports
  <2> QED
    BY <2>2, <2>4, <2>5, <2>6
<1>2. CASE part \in CheckDocuments
  <2> DEFINE n == MigrateCheck(part)
  <2>1. part.kind = "check_report" /\ part.kind \notin Builds
    BY <1>2 DEF CheckDocuments, Builds
  <2>2. /\ n \in CheckDocuments /\ MigrateCheck(n) = n /\ ~Migrated(n)
        /\ CheckReadable(part) => CheckReadable(n)
    BY <1>2, CheckOnce
  <2>3. \A inner \in n.parts : inner \in BuildDocuments /\ BuildIsCurrent(inner)
    BY <1>2, PartsOnce
  <2> HIDE DEF n
  <2>4. n.kind \notin Builds
    BY <2>2 DEF CheckDocuments, Builds
  <2>5. \A inner \in n.parts : ~BuildMigrated(inner)
    BY <2>3, BuildOnce
  <2>6. FixPart(part) = n
    BY <2>1 DEF FixPart, n
  <2>7. FixPart(n) = n /\ ~PartMigrated(n)
    BY <2>2, <2>4, <2>5 DEF FixPart, PartMigrated
  <2>8. ~BuildReadable(part)
    BY <2>1 DEF BuildReadable
  <2> QED
    BY <2>2, <2>6, <2>7, <2>8
<1> QED
  BY <1>1, <1>2

LEMMA FixOnce ==
    ASSUME NEW d \in FixDocuments
    PROVE  /\ MigrateFix(d) \in FixDocuments
           /\ MigrateFix(MigrateFix(d)) = MigrateFix(d)
           /\ ~Migrated(MigrateFix(d))
           /\ FixReadable(d) => FixReadable(MigrateFix(d))
<1> DEFINE parts == {FixPart(part) : part \in d.parts}
           n == [kind |-> d.kind, version |-> Current(d.kind), parts |-> parts]
<1>1. /\ d = [kind |-> d.kind, version |-> d.version, parts |-> d.parts]
      /\ d.parts \subseteq BuildDocuments \cup CheckDocuments
      /\ d.kind = "fix_report" /\ d.kind \notin Builds /\ d.kind \in EvidenceKinds
  BY DEF FixDocuments, Builds, Reports, EvidenceKinds
<1>2. ASSUME NEW e \in FixDocuments
      PROVE  MigrateFix(e) = [kind |-> e.kind, version |-> Current(e.kind),
                              parts |-> {FixPart(part) : part \in e.parts}]
  <2> DEFINE all == {FixPart(part) : part \in e.parts}
  <2>1. MigrateFix(e) = [e EXCEPT !.version = Current(e.kind), !.parts = all]
    BY Zenon DEF MigrateFix, FixPart
  <2> HIDE DEF all
  <2>2. [e EXCEPT !.version = Current(e.kind), !.parts = all]
          = [kind |-> e.kind, version |-> Current(e.kind), parts |-> all]
    BY FixFields
  <2> QED
    BY <2>1, <2>2 DEF all
<1>3. \A part \in d.parts :
         /\ FixPart(part) \in BuildDocuments \cup CheckDocuments
         /\ FixPart(FixPart(part)) = FixPart(part) /\ ~PartMigrated(FixPart(part))
         /\ BuildReadable(part) => BuildReadable(FixPart(part))
         /\ CheckReadable(part) => CheckReadable(FixPart(part))
  BY <1>1, FixPartOnce
<1>4. MigrateFix(d) = n
  BY <1>1, <1>2
<1>5. \A part \in parts : /\ part \in BuildDocuments \cup CheckDocuments
                          /\ FixPart(part) = part /\ ~PartMigrated(part)
  BY <1>3
<1>6. (\A part \in d.parts : CheckReadable(part) \/ BuildReadable(part))
        => \A part \in parts : CheckReadable(part) \/ BuildReadable(part)
  BY <1>3
<1>7. (\E part \in d.parts : CheckReadable(part)) => \E part \in parts : CheckReadable(part)
  BY <1>3
<1> HIDE DEF parts
<1>8. n.kind = d.kind /\ n.version = Current(d.kind) /\ n.parts = parts
  OBVIOUS
<1>9. Current(d.kind) \in Nat /\ SupportedVersion(d.kind, Current(d.kind))
  BY <1>1, CurrentIsSupported
<1>10. n \in FixDocuments
  BY <1>1, <1>5, <1>9 DEF FixDocuments
<1>11. MigrateFix(n) = n
  <2>1. {FixPart(part) : part \in parts} = parts
    BY <1>5
  <2> HIDE DEF n
  <2>2. n = [kind |-> n.kind, version |-> n.version, parts |-> n.parts]
    BY <1>10 DEF FixDocuments
  <2>3. MigrateFix(n) = [kind |-> n.kind, version |-> Current(n.kind), parts |-> parts]
    BY <1>2, <1>8, <1>10, <2>1
  <2> QED
    BY <1>8, <2>2, <2>3
<1>12. ~Migrated(n)
  BY <1>1, <1>5, <1>8 DEF Migrated
<1>13. FixReadable(d) => FixReadable(n)
  BY <1>1, <1>6, <1>7, <1>8, <1>9 DEF FixReadable, ReportReadable
<1> QED
  BY <1>4, <1>10, <1>11, <1>12, <1>13

\* For every document the reader accepts: migrating it gives a document that the
\* reader accepts, that needs no migration and that migration leaves as it is.
LEMMA MigrationOnce ==
    ASSUME NEW d \in EvidenceDocuments
    PROVE  /\ Migrate(d) \in EvidenceDocuments
           /\ Readable(d) => Readable(Migrate(d))
           /\ ~Migrated(Migrate(d)) /\ Migrate(Migrate(d)) = Migrate(d)
<1>1. CASE d \in BuildDocuments
  <2> DEFINE n == MigrateBuild(d)
  <2>1. d.kind \in Builds /\ d.kind \notin Reports
    BY <1>1 DEF BuildDocuments, Builds, Reports
  <2>2. /\ n \in BuildDocuments /\ n.kind = d.kind /\ BuildIsCurrent(n)
        /\ BuildReadable(d) => BuildReadable(n)
    BY <1>1, BuildOnce
  <2>3. MigrateBuild(n) = n /\ ~BuildMigrated(n)
    BY <2>2, BuildOnce
  <2>4. \A e : e.kind \in Builds => Migrate(e) = MigrateBuild(e)
    BY DEF Migrate, Builds
  <2>5. Migrate(d) = n /\ Migrate(n) = n
    BY <2>1, <2>2, <2>3, <2>4
  <2> HIDE DEF n
  <2>6. ~Migrated(n)
    BY <2>1, <2>2, <2>3 DEF Migrated, BuildIsCurrent
  <2>7. Readable(d) => BuildReadable(d)
    BY <2>1 DEF Readable, CheckReadable, ComparisonReadable, FixReadable, ReportReadable, Reports
  <2> QED
    BY <2>2, <2>5, <2>6, <2>7 DEF Readable, EvidenceDocuments
<1>2. CASE d \in CheckDocuments
  <2>1. \A e \in CheckDocuments :
           e.kind = "check_report" /\ e.kind \notin Builds /\ Migrate(e) = MigrateCheck(e)
    BY DEF CheckDocuments, Migrate, Builds
  <2>2. Readable(d) => CheckReadable(d)
    BY <1>2, <2>1 DEF Readable, BuildReadable, ComparisonReadable, FixReadable, ReportReadable
  <2> QED
    BY <1>2, <2>1, <2>2, CheckOnce DEF Readable, EvidenceDocuments
<1>3. CASE d \in ComparisonDocuments
  <2>1. \A e \in ComparisonDocuments :
           /\ e.kind = "environment_comparison_report" /\ e.kind \notin Builds
           /\ Migrate(e) = MigrateCheck(e)
    BY DEF ComparisonDocuments, Migrate, Builds
  <2>2. Readable(d) => ComparisonReadable(d)
    BY <1>3, <2>1 DEF Readable, BuildReadable, CheckReadable, FixReadable, ReportReadable
  <2> QED
    BY <1>3, <2>1, <2>2, ComparisonOnce DEF Readable, EvidenceDocuments
<1>4. CASE d \in FixDocuments
  <2>1. \A e \in FixDocuments :
           e.kind = "fix_report" /\ e.kind \notin Builds /\ Migrate(e) = MigrateFix(e)
    BY DEF FixDocuments, Migrate, Builds
  <2>2. Readable(d) => FixReadable(d)
    BY <1>4, <2>1 DEF Readable, BuildReadable, CheckReadable, ComparisonReadable, ReportReadable
  <2> QED
    BY <1>4, <2>1, <2>2, FixOnce DEF Readable, EvidenceDocuments
<1> QED
  BY <1>1, <1>2, <1>3, <1>4 DEF EvidenceDocuments

-------------------------------------------------------------------------------
(* The commands                                                            *)

CommandsInv ==
    /\ SearchInv
    /\ FixIInv
    /\ EvidenceInv
    /\ command # "evidence" => job = NoJob

LEMMA CommandsInvInit == Init => CommandsInv
BY SearchInvInit, FixIInit, EvidenceInvInit DEF Init, CommandsInv, EvidenceInit

LEMMA CommandsStep ==
    ASSUME CommandsInv, [Next]_vars
    PROVE  CommandsInv' /\ [Survival]_evidenceVars
<1>1. CASE RunCheck \/ RunCompare
  <2>1. SearchInv'
    BY <1>1, SearchInvStep DEF RunCheck, RunCompare, SearchNext, CommandsInv
  <2>2. UNCHANGED <<command, fixVars, evidenceVars>>
    BY <1>1 DEF RunCheck, RunCompare, allFixVars
  <2> QED
    BY <2>1, <2>2, FixStutter DEF CommandsInv, evidenceVars, EvidenceInv
<1>2. CASE RunFix
  <2>1. SearchInv' /\ FixIInv'
    BY <1>2, SearchInvStep, FixStep DEF RunFix, CommandsInv
  <2>2. EvidenceInv' /\ job' = NoJob /\ Survival
    BY <1>2, FixKeepsEvidence DEF RunFix, CommandsInv
  <2> QED
    BY <2>1, <2>2 DEF CommandsInv
<1>3. CASE RunEvidence
  <2>1. SearchInv' /\ FixIInv'
    BY <1>3, SearchInvStep, FixStutter DEF RunEvidence, CommandsInv
  <2>2. EvidenceInv' /\ Survival
    BY <1>3, EvidenceStep DEF RunEvidence, CommandsInv
  <2> QED
    BY <1>3, <2>1, <2>2 DEF RunEvidence, CommandsInv
<1>4. CASE Parse
  <2>1. UNCHANGED <<searchVars, fixVars, evidenceVars>> /\ job = NoJob
    BY <1>4 DEF Parse, allFixVars, CommandsInv
  <2> QED
    BY <2>1, SearchInvStep, FixStutter DEF CommandsInv, evidenceVars, EvidenceInv
<1>5. CASE UNCHANGED vars
  <2>1. UNCHANGED <<command, searchVars, fixVars, evidenceVars>>
    BY <1>5 DEF vars, allFixVars
  <2> QED
    BY <2>1, SearchInvStep, FixStutter DEF CommandsInv, evidenceVars, EvidenceInv
<1> QED
  BY <1>1, <1>2, <1>3, <1>4, <1>5 DEF Next

-------------------------------------------------------------------------------
(* What evidence files hold                                                *)

FileStates == {Absent, Partial} \cup {Whole(d) : d \in EvidenceDocuments}

\* Whatever an evidence command wrote, and whatever it has yet to write, is a
\* document like those it reads.
DocumentsInv ==
    /\ disk \in [RealPaths -> FileStates]
    /\ job.stage \in {"loaded", "opened"} => job.document \in EvidenceDocuments

LEMMA WholeIs ==
    ASSUME NEW file \in FileStates, file.state = "whole"
    PROVE  file.document \in EvidenceDocuments
BY DEF FileStates, Absent, Partial, Whole

LEMMA DocumentsOfEvidence ==
    ASSUME EvidenceInv, DocumentsInv, EvidenceNext
    PROVE  DocumentsInv'
<1>1. CASE EarlierCommand
  <2>1. PICK p \in RealPaths, file \in {Whole(d) : d \in Documents} \cup {Partial} :
            disk' = [disk EXCEPT ![p] = file]
    BY <1>1 DEF EarlierCommand
  <2>2. file \in FileStates
    BY EvidenceAssumption DEF FileStates
  <2> QED
    BY <1>1, <2>1, <2>2 DEF EarlierCommand, DocumentsInv
<1>2. CASE \E source \in Paths, destination \in Paths, force \in BOOLEAN :
                LoadEvidence(source, destination, force)
  <2>1. PICK source \in Paths, destination \in Paths, force \in BOOLEAN :
            LoadEvidence(source, destination, force)
    BY <1>2
  <2>2. UNCHANGED disk
    BY <2>1 DEF LoadEvidence, Refuse
  <2>3. CASE Loads(source)
    <3>1. /\ disk[Resolve[source]].state = "whole"
          /\ job'.document = Migrate(disk[Resolve[source]].document)
      BY <2>1, <2>3 DEF LoadEvidence, Loads
    <3>2. Resolve[source] \in RealPaths
      BY EvidenceAssumption DEF RealPaths
    <3>3. job'.document \in EvidenceDocuments
      BY <3>1, <3>2, WholeIs, MigrationOnce DEF DocumentsInv
    <3> QED
      BY <2>2, <3>3 DEF DocumentsInv
  <2>4. CASE ~Loads(source)
    BY <2>1, <2>2, <2>4 DEF LoadEvidence, Refuse, DocumentsInv
  <2> QED
    BY <2>3, <2>4
<1>3. CASE OpenNormalized
  <2>1. CASE MayOpen
    <3>1. /\ job.stage = "loaded"
          /\ disk' = [disk EXCEPT ![job.destination] = Partial]
          /\ job' = [job EXCEPT !.stage = "opened"]
      BY <1>3, <2>1 DEF OpenNormalized
    <3>2. job'.document = job.document
      BY <3>1 DEF EvidenceInv
    <3>3. Partial \in FileStates
      BY DEF FileStates
    <3> QED
      BY <3>1, <3>2, <3>3 DEF DocumentsInv
  <2>2. CASE ~MayOpen
    BY <1>3, <2>2 DEF OpenNormalized, Refuse, DocumentsInv
  <2> QED
    BY <2>1, <2>2
<1>4. CASE WriteNormalized
  <2>1. /\ job.stage = "opened"
        /\ disk' = [disk EXCEPT ![job.destination] = Whole(job.document)]
        /\ job'.stage = "written"
    BY <1>4 DEF WriteNormalized, FillIn, EvidenceInv
  <2>2. Whole(job.document) \in FileStates
    BY <2>1 DEF DocumentsInv, FileStates
  <2> QED
    BY <2>1, <2>2 DEF DocumentsInv
<1>5. CASE EvidenceEnds
  BY <1>5 DEF EvidenceEnds, NoJob, DocumentsInv
<1> QED
  BY <1>1, <1>2, <1>3, <1>4, <1>5 DEF EvidenceNext

LEMMA DocumentsOfFix ==
    ASSUME DocumentsInv, job = NoJob, FixNext
    PROVE  DocumentsInv'
<1>1. CASE CreateReport
  <2>1. PICK p \in RealPaths : CreateNew(p)
    BY <1>1 DEF CreateReport
  <2>2. Partial \in FileStates
    BY DEF FileStates
  <2> QED
    BY <1>1, <2>1, <2>2 DEF CreateReport, CreateNew, DocumentsInv
<1>2. CASE FillReport
  <2>1. PICK p \in RealPaths, report \in Documents : FillIn(p, report)
    BY <1>2 DEF FillReport
  <2>2. Whole(report) \in FileStates
    BY EvidenceAssumption DEF FileStates
  <2> QED
    BY <1>2, <2>1, <2>2 DEF FillReport, FillIn, DocumentsInv
<1>3. CASE UNCHANGED evidenceVars
  BY <1>3 DEF evidenceVars, DocumentsInv
<1> QED
  BY <1>1, <1>2, <1>3
     DEF FixNext, LoadConfig, DigestSource, Diagnose, GeneratePlans, SkipUnsupported,
         StartVerification, RefuseVerification, Build, AbandonVerification,
         ConcludeVerification, StopFix, EditProject

LEMMA DocumentsStep ==
    ASSUME CommandsInv, DocumentsInv, [Next]_vars
    PROVE  DocumentsInv'
<1>1. CASE RunFix
  BY <1>1, DocumentsOfFix DEF RunFix, CommandsInv
<1>2. CASE RunEvidence
  BY <1>2, DocumentsOfEvidence DEF RunEvidence, CommandsInv
<1>3. CASE UNCHANGED evidenceVars
  BY <1>3 DEF evidenceVars, DocumentsInv
<1> QED
  BY <1>1, <1>2, <1>3
     DEF Next, Parse, RunCheck, RunCompare, vars, allFixVars, evidenceVars

-------------------------------------------------------------------------------
(* The theorems                                                            *)

\* Of the whole program: the searches' and fix's invariants hold whatever command is
\* given (dispatch in main.rs, run_compare and run_fix in cli.rs).
THEOREM CommandsAreCorrect ==
    Spec => [](TogglesAreIndependent /\ DeltaRestores /\ FixInv /\ VerifiedIsEarned)
<1>1. Init => CommandsInv
  BY CommandsInvInit
<1>2. CommandsInv /\ [Next]_vars => CommandsInv'
  BY CommandsStep
<1>3. CommandsInv => TogglesAreIndependent /\ DeltaRestores /\ FixInv /\ VerifiedIsEarned
  BY InvIndependent, InvRestores, FixInvHolds DEF CommandsInv, FixIInv
<1> QED
  BY <1>1, <1>2, <1>3, PTL DEF Spec

\* For all paths, links, documents and points at which a process stops: a complete
\* evidence file is changed only by an evidence command told to by --force, and
\* never when it is that command's source (write_normalized, refuse_source_overwrite,
\* write_new_json, persist_fix_report).
THEOREM EvidenceIsKept == Spec => EvidenceSurvives
<1>1. Init => CommandsInv
  BY CommandsInvInit
<1>2. CommandsInv /\ [Next]_vars => CommandsInv' /\ [Survival]_evidenceVars
  BY CommandsStep
<1> QED
  BY <1>1, <1>2, PTL DEF Spec, EvidenceSurvives

\* For every document of every kind and release, however often it is normalised: what
\* the reader accepts becomes a document that it accepts again, unchanged
\* (load_evidence, migrate_check_report, migrate_build_common).
THEOREM MigrationSettles == Spec => []MigrationIsFinal
<1>1. Init => CommandsInv /\ DocumentsInv
  <2>1. Init => EvidenceInit
    BY DEF Init
  <2>2. EvidenceInit => DocumentsInv
    BY DEF EvidenceInit, DocumentsInv, NoJob, FileStates
  <2> QED
    BY <2>1, <2>2, CommandsInvInit
<1>2. CommandsInv /\ DocumentsInv /\ [Next]_vars => (CommandsInv /\ DocumentsInv)'
  BY CommandsStep, DocumentsStep
<1>3. DocumentsInv => MigrationIsFinal
  BY WholeIs, MigrationOnce DEF DocumentsInv, MigrationIsFinal
<1> QED
  BY <1>1, <1>2, <1>3, PTL DEF Spec
================================================================================
