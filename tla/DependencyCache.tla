--------------------------- MODULE DependencyCache ---------------------------
(***************************************************************************)
(* The dependency-cache summaries of src/runner/oci.rs: what the wrapper   *)
(* script in the container records before and after the build, what the    *)
(* runner reads from the two records, and what it concludes from them.     *)
(*                                                                         *)
(* A cache is the set of its files; `SizeOf` gives their sizes.  A record  *)
(* is the set of files that were hashed (its count, bytes and aggregate    *)
(* digest are functions of that set) and whether the walk was cut short.   *)
(***************************************************************************)
EXTENDS Integers, FiniteSetsExt

CONSTANTS
    CacheFiles,
    SizeOf,      \* bytes of a cache file
    MaxFiles,    \* dependency_cache_max_files
    MaxBytes     \* dependency_cache_max_bytes

ASSUME CacheAssumption ==
    /\ SizeOf \in [CacheFiles -> Nat]
    /\ MaxFiles \in Nat \ {0}
    /\ MaxBytes \in Nat \ {0}

Summaries == [files : SUBSET CacheFiles, truncated : BOOLEAN]

\* CachePhaseSummary::default: also what a directory that does not exist, or a
\* record that was never written, is read as.
NoSummary == [files |-> {}, truncated |-> FALSE]

Fits(files) ==
    /\ Cardinality(files) <= MaxFiles
    /\ MapThenSumSet(LAMBDA file : SizeOf[file], files) <= MaxBytes

\* summarize_cache_to: `find` lists the files in any order, and the walk ends at
\* the first file that exceeds a budget or cannot be read.  A failing `find` marks
\* a complete walk as truncated too.
CacheSummaries(cache) ==
    {summary \in Summaries :
        /\ summary.files \subseteq cache
        /\ Fits(summary.files)
        /\ summary.files # cache => summary.truncated}

\* parse_dependency_cache_summaries
ComparisonComplete(before, after) == ~before.truncated /\ ~after.truncated

ObservedChange(before, after) ==
    \/ before.files # after.files
    \/ before.truncated # after.truncated

\* Faulty: cut summaries are compared like whole ones.
ChangedAsObserved(before, after) == ObservedChange(before, after)

ChangedDuringBuild(before, after) ==
    ComparisonComplete(before, after) /\ ObservedChange(before, after)

\* dependency_network_correlation: build_window_cooccurrence
Cooccurrence(networkEvents, before, after) ==
    networkEvents > 0 /\ ChangedDuringBuild(before, after)

\* A record of one build: what its evidence claims of the caches, beside what is
\* true: whether they were changed and whether the network was used.
Records ==
    [claim : {"nothing", "fetched", "changed", "unchanged", "incomplete"},
     changed : BOOLEAN, online : BOOLEAN]

NoRecord == [claim |-> "nothing", changed |-> FALSE, online |-> FALSE]

Claim(networkEvents, before, after) ==
    IF Cooccurrence(networkEvents, before, after) THEN "fetched"
    ELSE IF ChangedDuringBuild(before, after) THEN "changed"
    ELSE IF ComparisonComplete(before, after) THEN "unchanged"
    ELSE "incomplete"

RecordsOf(networkEvents, first, last, afters) ==
    {[claim |-> Claim(networkEvents, before, after),
      changed |-> first # last,
      online |-> networkEvents > 0] : before \in CacheSummaries(first), after \in afters}

\* The wrapper summarises the caches before and after the build, which changes them
\* as it likes, with the network or without.
WholeRecords ==
    UNION {RecordsOf(events, first, last, CacheSummaries(last)) :
               events \in 0..1, first \in SUBSET CacheFiles, last \in SUBSET CacheFiles}

\* The container is gone before the second summary: its file is still empty.
BrokenRecords ==
    UNION {RecordsOf(events, first, last, {NoSummary}) :
               events \in 0..1, first \in SUBSET CacheFiles, last \in SUBSET CacheFiles}
===============================================================================
