-------------------------------- MODULE Evidence --------------------------------
(***************************************************************************)
(* Evidence files: src/evidence.rs, persist_fix_report of                  *)
(* src/engine/fix.rs, write_normalized of src/compat.rs and run_evidence   *)
(* of src/cli.rs, with a process that may stop between two calls.          *)
(***************************************************************************)
EXTENDS Migration, FiniteSets

CONSTANTS
    Paths,
    Resolve,    \* canonicalize: the path a symlink leads to, any other path itself
    Documents   \* documents that earlier commands may have left

ASSUME EvidenceAssumption ==
    /\ Resolve \in [Paths -> Paths]
    /\ \A p \in Paths : Resolve[Resolve[p]] = Resolve[p]
    /\ Documents \subseteq EvidenceDocuments

RealPaths == {p \in Paths : Resolve[p] = p}

VARIABLES
    disk,   \* what each path that is no symlink holds
    job     \* the evidence command: its stage, its arguments and what it loaded

evidenceVars == <<disk, job>>

\* A file that is begun and not completed, or holds anything else that is no
\* JSON document within the size limit, is "partial".
Absent == [state |-> "absent"]
Partial == [state |-> "partial"]
Whole(document) == [state |-> "whole", document |-> document]

NoJob == [stage |-> "none"]

Exists(p) == disk[p].state # "absent"
IsSymlink(p) == Resolve[p] # p

\* write_new_json and persist_fix_report: created under its final name, then filled.
CreateNew(p) ==
    /\ ~Exists(p)
    /\ disk' = [disk EXCEPT ![p] = Partial]

FillIn(p, document) == disk' = [disk EXCEPT ![p] = Whole(document)]

EvidenceInit ==
    /\ disk \in [RealPaths -> {Absent}]
    /\ job = NoJob

\* An earlier command left a document, or stopped before it was complete.
EarlierCommand ==
    /\ job = NoJob
    /\ \E p \in RealPaths : \E file \in {Whole(d) : d \in Documents} \cup {Partial} :
        /\ ~Exists(p)
        /\ disk' = [disk EXCEPT ![p] = file]
    /\ UNCHANGED job

Refuse ==
    /\ job' = [stage |-> "refused"]
    /\ UNCHANGED disk

\* load_evidence
Loads(source) == LET file == disk[Resolve[source]] IN file.state = "whole" /\ Readable(file.document)

LoadEvidence(source, destination, force) ==
    /\ job = NoJob
    /\ Exists(Resolve[source])
    /\ IF Loads(source)
       THEN /\ job' = [stage |-> "loaded", source |-> source, destination |-> destination,
                       force |-> force, document |-> Migrate(disk[Resolve[source]].document)]
            /\ UNCHANGED disk
       ELSE Refuse

\* Faulty: the names are compared instead of the files.
IsSourceByName(source, destination) == source = destination

\* refuse_source_overwrite
IsSource(source, destination) == Resolve[source] = Resolve[destination]

MayOpen ==
    /\ ~IsSource(job.source, job.destination)
    /\ ~IsSymlink(job.destination)
    /\ job.force \/ ~Exists(job.destination)

OpenNormalized ==
    /\ job.stage = "loaded"
    /\ IF MayOpen
       THEN /\ disk' = [disk EXCEPT ![job.destination] = Partial]
            /\ job' = [job EXCEPT !.stage = "opened"]
       ELSE Refuse

WriteNormalized ==
    /\ job.stage = "opened"
    /\ FillIn(job.destination, job.document)
    /\ job' = [job EXCEPT !.stage = "written"]

\* The command ends or is stopped, at any point, and another may follow.
EvidenceEnds ==
    /\ job # NoJob
    /\ job' = NoJob
    /\ UNCHANGED disk

EvidenceNext ==
    \/ EarlierCommand
    \/ \E source \in Paths, destination \in Paths, force \in BOOLEAN :
        LoadEvidence(source, destination, force)
    \/ OpenNormalized
    \/ WriteNormalized
    \/ EvidenceEnds

-------------------------------------------------------------------------------
(* Properties                                                              *)

Survival ==
    \A p \in RealPaths :
        disk[p].state = "whole" /\ disk'[p] # disk[p] =>
            job.stage \in {"loaded", "opened"} /\ job.force /\ job.destination = p
            /\ p # Resolve[job.source]

\* A complete evidence file is only ever changed by an evidence command that was
\* told to by --force, at the very path it was given, and never when that is the
\* file the command read.
EvidenceSurvives == [][Survival]_evidenceVars

\* Whatever the reader accepts, it turns into a document that it accepts again,
\* finds nothing more to migrate in, and leaves as it is.
MigrationIsFinal ==
    \A p \in RealPaths :
        disk[p].state = "whole" /\ Readable(disk[p].document) =>
            LET normal == Migrate(disk[p].document)
            IN  Readable(normal) /\ ~Migrated(normal) /\ Migrate(normal) = normal
===============================================================================
