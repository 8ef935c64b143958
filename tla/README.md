# Formal models of ReproBisect

ReproBisect finds out why a build is not reproducible: it repeats the build,
perturbs one input at a time, minimises interactions with delta debugging, and
reports causes with a confidence. What it reports is only as good as the order
in which it builds, compares and gives up. These modules model that order, TLC
checks it on small instances and TLAPS proves the main results for every
instance. Every definition is written from the Rust source; `PROJECT.json` maps
it to the lines it stands for.

## The system

| Part (source) | State it keeps | Operations | Interacts with | Where it is hard | What makes it correct |
|---|---|---|---|---|---|
| minimiser (`engine/ddmin.rs`) | current list, granularity, loop position, call count | `minimize`, `partition`, `complement` | calls a predicate that runs builds | the predicate is not a function; loop and offset arithmetic | one-minimal result, order kept, bounded calls |
| check engine (`engine/control.rs`) | control runs, per-intervention runs and failures, results, interaction result, ordinal | `check_project`, `execute_intervention`, `execute_interaction_search` | runner, evidence, planner, ddmin, statistics, diagnosis | noise, a machine that changes, probes that break off, failing builds as evidence | no verdict without the builds that justify it |
| statistics (`engine/statistics.rs`) | none | Fisher exact test, classification | check engine | margins, off-by-one, rounding | exact tail probability |
| diagnosis (`engine/diagnosis.rs`) | none | which results become diagnoses, confidence | check engine | partly failed and partly complete evidence | high confidence only for confirmed narrow causes |
| compare engine (`engine/compare.rs`) | endpoint attempts, delta, subset attempts, ordinal | `compare_environments` | runner, evidence, environments, ddmin | third outcomes, drift between endpoints, subsets that stop reproducing | minimal delta sufficient, necessary and witnessed |
| planner (`engine/interventions.rs`) | none | baseline and variant environments, combination | check, fix | dimensions that reach the build at the same place | interventions are independent switches |
| environments (`environment.rs`) | manifests | apply, diff, apply a subset of a diff | compare | overlapping keys, order of application | `apply(good, diff(good, bad)) = bad`, in any order |
| runner (`runner/*.rs`) | container, two pipe readers, watchdog, image and toolchain caches | `run_attempt`, image resolution, cache summaries, trace parsing | check, compare, fix, source | four threads and two processes, timeouts, budgets, reused descriptors | one answer per attempt; a killed build is never evidence; what evidence says of the build is true |
| evidence (`evidence.rs`) | files, created once | `persist_*` | all engines | a crash between create and fill | a complete record is kept |
| fix engine (`engine/fix.rs`) | plans, patch, verification runs | generate, apply in a copy, verify | runner, planner, evidence | trees edited meanwhile, partial verification | only verified fixes are called verified |
| source (`source.rs`) | none (reads the tree) | digest, copy | runner, engines | the tree may change meanwhile | digest and copy agree |
| configuration, model (`config.rs`, `model.rs`) | none | parse, validate | all | bounds, keys declared twice | validated options are within the bounds the engines assume |
| schema, migration (`schema.rs`, `compat.rs`) | files named on the command line | load, migrate, write normalised | evidence command | fourteen versions, documents in documents, links, `--force` | migration is final, the source survives |
| artifact analysis (`artifact/*.rs`) | none | parse and compare formats | diagnosis | file formats | pure |
| command line and reports (`cli.rs`, `main.rs`, `report.rs`) | none | dispatch, exit code, rendering | all | - | exit code follows the status |

A command is one thread that calls the runner again and again. The world around
it is not sequential: the same environment may give different artifacts, the
machine may change between two builds, a build may fail on its own, the runner
or the disk may fail at any call.

## The modules

| Module | What it models |
|---|---|
| `OneMinimalSearch` | what `minimize` promises: move only to smaller subsets that reproduced, stop only when every single-item reduction was refused |
| `Ddmin` | `minimize` with `partition` and `complement`; one step per predicate call, whose verdict is arbitrary |
| `Statistics` | the one-sided Fisher test in exact fractions and the classification |
| `Diagnosis` | which results are diagnosed and with what confidence; `classify_status` |
| `Check` | `check_project`, build by build; embeds `Ddmin` (`INSTANCE`) and uses the two above |
| `Compare` | `compare_environments`, attempt by attempt; embeds `Ddmin` |
| `Environments` | configurations, the baseline, planned interventions, manifests, differences, and what a build gets from an environment |
| `Combination` | the two searches over environments: including interventions, applying changes |
| `DependencyCache` | the bounded summaries of dependency caches and what is concluded from two of them |
| `BuildAttempts` | what `Runner::run_attempt` promises the engines: one answer to each call, and what an answer that is evidence rests on |
| `Runner` | `run_attempt`: parent, watchdog, readers, client and container, step by step |
| `TraceReducer` | system calls, the lines strace writes of them, and `parse_process_trace` |
| `Migration` | what `compat.rs` accepts of each schema version and what it makes of it |
| `Evidence` | evidence files: create, fill, load, normalise, and a process that stops in between |
| `ProjectPatch` | where a fix may be put in a project's build files; preconditions and application of a patch |
| `Fix` | `fix`: diagnosis, plans, verification build by build, report, while the project is edited |
| `Commands` | the dispatch of `main.rs` over `Combination`, `Fix` and `Evidence` |
| `MCDdmin`, `MCCheck`, `MCCompare`, `MCRunner`, `MCTrace`, `MCCommands` | instances, worlds and reference definitions for TLC |
| `DdminProofs`, `CheckProofs`, `CompareProofs`, `CombinationProofs`, `RunnerProofs`, `TraceProofs`, `FixProofs`, `CommandsProofs` | theorems and proofs |

**Ddmin.** Items are positions `1..N` of the slice: the search never looks at
them. `current` and `granularity` are the code's; `phase` and `index` are the
position in its two `for` loops; `tests` is its counter; `refuted` is history:
the candidates refused since `current` was last replaced. A predicate call that
answers true is `KeepSubset` or `KeepComplement`; false is `NextPart`,
`SubsetsExhausted`, `Refine` or `Finish`, by what the loops do next; an error is
`PredicateError`.

**Check.** `pc` is the stage of `check_project`. A control build is
`ControlBuild`, the stability gate `ControlsCompared`. `execute_intervention`
collects `references`, `variants`, `failures` and `error` with `ReferenceBuild`,
`VariantBuild`, `VariantFailure` and `TrialError`, and returns with
`Unconfirmed`, `ConfirmationBuild` or `ConfirmationError`, which append its
`InterventionResult` to `results`. The interaction search is `SubsetBuild` for
its builds and, for a full batch, `FullReproduces`, `FullDoesNotReproduce`,
`SubsetVerdict` (a step of `Ddmin`), `FinalWithoutReversion` or
`InteractionReversion`; `SearchError` is its `Err`. `Report` classifies,
diagnoses and persists; `Abort` is every `?` that leaves `check_project`.
Artifacts are signatures: the list of declared paths and hashes is one value,
because the engine only compares it. The fifteen intervention kinds are six: ten
of them are treated alike by the engine. The provenance of toolchain wrappers,
embedded markers and dependency overrides is `traced`, true or false at will
wherever the code could find it. `observed` and `lastRecord` are history.

**Compare.** The outcomes of an attempt are artifact or failure signatures;
`response` maps the set of delta entries applied on top of known-good to the
outcomes an attempt may have, so a world may be deterministic or not, and third
outcomes are possible. `good`, `bad` and `batch` are the attempts;
`EndpointsInconclusive`, `EndpointsEquivalent` and `DifferenceUnexplained` are
the early returns; `MinimizationStarts`, `SubsetAttempt` and `SubsetVerdict` the
minimisation; `FinalWithoutReversion`, `FinalWithReversion` and `Reversion` the
end. That the known-bad environment is known-good with the full delta applied is
a premise here (`compare.rs` never builds it otherwise either); `DeltaRestores`
of `Combination` is that premise.

**Environments, Combination.** A `ControlledEnvironment` is a record of scalars
and of maps, total functions that are `Unset` where the program's map has no
entry. `Valid` is the part of `Config::validate` that interventions rest on,
`plan_interventions` gives every kind of them. `Inputs` is what a build can
notice: settings, variables in the order in which `run_attempt` overrides them,
executables with their placeholders expanded, and files after
`apply_source_overrides`. `Include` is a round of `combine_interventions`,
`Apply` one of `apply_delta_subset`; both come in any order although the code has
one, so that the order is not what makes the result right.

**Runner, DependencyCache.** `pc` is the parent: `EnsureImage`,
`ToolchainProvenance`, `Spawn`, `WaitReturns`, `StoreFinished`, `JoinWatchdog`,
`ReadersJoined` and the four ways to judge, with every `?` on the way. `finished`
is the atomic flag; the watchdog looks at it before every sleep and swaps it when
time is up (`WatchdogExpires`), then runs the kill command, which may land or
miss. `Drain` reads a pipe as far as it likes, counts everything and retains
`LogLimit` bytes. A client may return the container's status or fail on its own.
A cache is the set of its files; a summary hashes some of them within two
budgets, in an order `find` is free to choose, and says whether it was cut.
`BuildAttempts` is the trait as the engines see it: they know of a call, a build and
a time limit, but of no threads, pipes or caches. `ImplementsAttempts` maps `Runner`
to it: every `pc` but "idle" is a call under way, the container is the build, and
the time is up when the watchdog's clock has run out.

**TraceReducer.** A step is a system call: the kernel's descriptor tables and
file authorship change, strace writes a line, whole or split, and the parser's
`classes`, `writers` and `activity` move on by that line. Every state is a trace
cut off there. `did` is what the process really did; `stale` has the descriptors
whose last change the parser did not learn of; `gaps` is what the lines did not
show: split lines (`split`), threads sharing a table (`threads`), a cut before the
return of a creation (`cut`), a late first entry (`lateEntry`), a change of a
descriptor by a call that is not traced or not parsed (`untraced`), a mapping
through a stale descriptor (`stale`), a connection under way (`inProgress`), and
four ways in which a name is not the file: a name that reads as another kind of
file (`misread`) or is merely not the usual one (`alias`), a name that was taken
over (`overwritten`) or outlived its file (`removed`). The parser goes by the
string in the line, the kernel by the file: `Spellings` gives the names a call may
use for a file, relative to some directory or through a link, which may be those of
other files. What the lines allow is modelled as strace writes them: it pads a line
to column 40 before the result, and `syscall_arguments` (`oci.rs:831`) does not
match a padded line, so that the parser knows no `close`, `dup` or `dup2` and of
`dup3` and `fcntl` only lines that large numbers make `long`. `execveat` keeps the
close-on-exec descriptors in the parser (`Exec` with `at`); `unlink` is traced and
not parsed.

**ProjectPatch, Fix.** A build file is its text, whether it has the place an
insertion needs, how many sites a replacement could mean, and the candidates
already in it. A tree, configuration and files, stands for its digest.
`StartVerification` is `verify_plan_inner` up to the first build, `Build` one
attempt, `ConcludeVerification` the comparison; a failure of any kind is
`RefuseVerification` or `AbandonVerification`. `EditProject` may come between any
two steps.

**Evidence, Migration, Commands.** A file is absent, partial or whole. Creating
it and filling it are two steps and the process may stop at each. `LoadEvidence`
reads and migrates, `OpenNormalized` has the guards of `write_normalized`,
`Resolve` stands for `canonicalize`. Documents are records of kind, version,
fields, cache summaries and the documents inside them. `Commands` runs one of the
commands; what `check` and `compare` build is in `Check` and `Compare`.

**The outside.** `yields` and `response` say what builds may do now. `Drift`
changes them once, for good, to one other outcome, at any moment before the end:
the simplest change that makes a before/after comparison lie.

## Runs

| Run | Configuration | Shows |
|---|---|---|
| `ddmin` | N = 7, arbitrary verdicts | loop invariant, one-minimality, order, exact partitions against a definition by concatenation, at most N*N + 5*N - 10 calls, refinement of `OneMinimalSearch` |
| `check_interaction` | image + 3 plain variables, 3 artifacts, searches of 2 builds per subset | diagnosed interactions are irreducible, the build budget, termination |
| `check_probes` | toolchain, plain, CPU, plain; 3 trials; alpha 1/10; noise and drift | the late stability gate, drift is not causal, verdicts are witnessed, reproducible is earned, a high-confidence cause separates the builds with it from those without, the classification against counting placements |
| `compare` | up to 3 delta entries, 2 artifacts and a failure, 2 attempts per batch, every deterministic response and full noise | exactness for deterministic builds, drift is not minimised, attempt budget, termination |
| `runner` | 2 attempts, 1 reference, 2 images, pipes of 2, log limit 1, timeout of 1 poll, 2 cache files | a killed build is never evidence, capture is complete, one reference is one image, cache claims are true, a full pipe is emptied, every attempt is answered, refinement of `BuildAttempts` |
| `trace` | 3 processes or threads, 2 descriptors, lockfile, temporary file (also by a name that reads as the artifact's) and artifact, 4 calls | mapped and published evidence is real where lines and names allow it, a trace without losses is complete, the process graph is right |
| `commands` | 7 projects, valid and invalid configurations, 5 manifests, 8 documents, 2 files and a link | interventions are independent, differences lead to the other endpoint, verified fixes are earned, migration is final, evidence survives |
| `late_reference` | as `check_probes` | **violation**: docs/architecture.md:122, see below |
| `joint_change` | as `check_interaction` | **violation**: docs/experiment-model.md:37 |
| `toolchain` | image, toolchain, dependency, network | **violation**: docs/architecture.md:82 |
| `runner_errors` | as `runner`, 1 attempt | **violation**: runner/mod.rs:20 |
| `trace_padding` | as `trace` | **violation**: docs/architecture.md:207 |

Deadlock checking is off: a command ends.

**Bounds.** Seven items give ddmin parts with and without left-over items, three
levels of granularity and restarts in each. Three interacting variables are the
fewest with an interaction that is a proper subset of the candidates and not a
single variable; two builds per batch are the fewest that can disagree; three
artifacts let a batch differ from the baseline in two ways. Three CPU trials are
the least `Config::validate` allows. Of the kinds whose failing builds are evidence
the passing runs have the toolchain binding, which the engine treats like the
network and a dependency file; those occur in `toolchain`, and the theorems are
about every plan. Three delta entries give ddmin subsets,
complements and a refinement; with `MaxDelta = 3` all shorter deltas are run
too. Nothing counts without limit, so no state constraint is needed. Alpha is
1/10 because the smallest p-value of three trials is 1/20: with the default 0.05
the exact test would support an effect that the f64 sum, 0.05000000000000003,
does not (a hazard that stays outside the model).

Two attempts of a runner are the fewest that use its caches again. The build may
write three bytes to a pipe of two and to a log limit of one, so it blocks and is
cut; the other stream only blocks. Two cache files exceed the byte budget only
together, so that a walk may end at either. Three processes make a chain of
ancestors and two siblings (swapping the two children is a symmetry), two
descriptors are reused and duplicated, one file with a second name that is
another's suffices for each kind of misleading name, and in four calls a process can open,
close, reopen and map, or write, rename over and publish. Trace counters are "at
least one", since the summary's claims are about presence. The configurations of
`commands` include every kind of intervention, up to six combinable ones at a
time, and ones `Config::validate` refuses; the projects differ in one respect
each, and one edit suffices to make any of them stale between two steps. The
documents are of the oldest, current and unsupported versions.

**Fairness.** `FairSpec` asks for weak fairness of `Steps`: a command is one
thread that goes on as long as attempts return. An attempt returns because the
build ends or its watchdog kills the container, which `Runner` shows; a runtime
that does not obey the kill is its exception. Errors and `Drift` are never forced, so
termination does not rest on a failure.

`Runner`'s `FairSpec` has weak fairness of each thread (parent, watchdog, each
reader), of the time that passes, and of a client whose container has stopped.
It has none for the start of a container, for the end of a build, for its output
or for the kill's effect: that an attempt is answered rests on the watchdog
alone. The other modules state no liveness.

## Where code and documentation disagree

* `late_reference`: a reference that changed is forgotten when its probe breaks
  off later, because only complete probes are assessed (`control.rs:425`);
  architecture.md says that *any* changed reference reclassifies the check.
* `joint_change`: an interaction search keeps only its last batch
  (`control.rs:602`). Joint builds that differed from the baseline in the full
  set or during minimisation leave no trace in the status, which may be
  "reproducible within the tested space".
* `toolchain`: high confidence for a toolchain binding looks at the runs that
  built, not at `changed`, `variant_stable` or failed builds
  (`diagnosis.rs:376`), while architecture.md requires a stable artifact change.
* `runner_errors`: any non-zero exit of the runtime's client is a failed build
  (`oci.rs:2014`), also docker's and podman's own 125 to 127; the comment on
  `run_attempt` says that runner failures remain `Err`.
* `trace_padding`: strace pads short lines before the result and
  `syscall_arguments` (`oci.rs:831`) matches unpadded ones only, as the tests
  have them (`oci.rs:2378`). In a trace of whole lines a lockfile mapped through
  `dup2(3, 1)` is missed, while architecture.md says that descriptors are followed
  across `dup`, `dup2` and `dup3`. For the same reason a descriptor that was closed
  stays known until its number is opened again, and a mapping of what `memfd_create`
  or `recvmsg` put in its place is laid to the old file: `InputEvidenceIsReal`
  demands no more of such a mapping than that the file was opened.

Smaller observations, which no document contradicts: operational fixes of
timestamps, mtimes and umask pin the dimension in both environments, so that
baseline and intervention are built alike (`fix.rs:1342`); a container that dies
before its second cache summary reads as a complete, empty cache
(`oci.rs:1709`); a descriptor table shared by threads lets the reduction keep a
descriptor that is closed; the writers of a file are kept by the name in the line
(`oci.rs:1386`), whatever directory it is relative to and also after the file is
removed, so that a later file of that name inherits them; a manifest's
`unset_variables` does not unset a key of `build.env`; chained dependency
overrides of one manifest read each other's results (`oci.rs:126`).

## Proofs

* `DdminProofs`: `SearchInv` is inductive. `ResultOneMinimal` alone is not: it
  needs that all complements before `index` were refused (`ComplementsRefuted`)
  and that `granularity` is a number of parts the list can be cut into
  (`LoopBounds`), so that at the last level a part is one item and its
  complement is the list without it. The lemmas about `Start`, `Part` and `Cut`
  are the arithmetic of `partition`. Order preservation is proved from them.
  `CallsWithin` adds to the calls made the calls that may be left at this size and
  granularity (`CallsLeft`) and is kept by every step, which proves `TestsBounded`.
  The bound is reached for 5 and for 9 items; the `n * n + 3 * n` of the ddmin
  literature is too small, first for 9 items (116 calls), because `partition` refines
  to sizes that are not powers of two, and an instance of seven items does not
  show that.
  `Refinement`: `Ddmin` implements `OneMinimalSearch`, by mapping lists of
  positions to sets; order preservation makes the map injective on what matters.
  `PartitionsAreExact` compares the offsets with the definition by concatenation:
  a running concatenation of the parts (`Flattened`) is a prefix of the slice, and
  without part i a prefix joined to what follows the gap.
* `CheckProofs`: `CheckInv` is inductive: the shape of a running probe
  (`ProbeShape`), where every differing build shows in the collected results
  (`ResultsTellAll`), and the stages (`StageOrder`), which carry `D!SearchInv` of
  the embedded minimiser. `ReproducibleIsEarned` and `VerdictIsWitnessed` follow
  when the report is written. `HighConfidenceSeparates` needs what a result keeps of
  its trials (`ResultsSummarise`): without an error all of them were carried out,
  and the fields a diagnosis reads agree with the numbers of builds that differed.
  `InteractionIrreducible` needs that the search's list is of inert variables in
  plan order (`SearchTells`), `LateInstabilityWins` what a changed reference leaves
  in the results (`ReferenceShows`) and when joint builds are made (`LateGate`).
  `BuildsAreBounded` follows from `Spending`, which pays every build from the
  intervention it belongs to or from the search (`TestsBounded` of the minimiser);
  the recursive sum over the plan is unfolded by induction.
* `CheckProofs`, statistics: `SupportedIsRare` says what the p-value means. By
  induction over the trials, `choose(n, k)` is the number of sets of k trials
  (`ChosenCounted`, Pascal's rule over the set with and without the last trial); an
  effect is only supported without a changed reference, when the tail of the test is
  a single table (`SingleTableTail`) and its numerator counts the placements that put
  all changed trials into the variants.
* `CheckProofs`, drift: `DriftIsNeverCausal` rests on `OneChangeOnly`. While only one
  change has happened, all builds before it agree; references come before variants
  in every round, so that the only way to differ in the variants and not in the
  references is in the last variant alone (`OnlyLastDiffers`). Of all placements of
  one changed trial half are in the variants: the exact probability is 1/2
  (`OneChangedIsNotRare`, from the factorials of the test), so nothing is supported
  as long as alpha is below 1/2. The hypothesis is needed: TLC finds the lone last
  variant reported as an effect for alpha = 1/2, a value that `Config::validate`
  accepts (`config.rs:219`; the default is 0.05).
* `CompareProofs`: `CompareInv` is inductive (`StageOrder` carries what the early
  returns have established), so "minimized" and "equivalent" rest on builds.
  `DriftIsNotMinimized` needs one more invariant, `DriftShows`: before the change
  all attempts agree, and a known-good attempt after it forces every known-bad
  one, which come later. `AttemptBudget` follows from `Spending`: attempts are paid
  for by endpoints, by verdicts within `CallsWithin`, and by the running batch.
  `DeterminismIsExplained` needs `Exactness`: for a build that is a function of its
  environment every refusal is a fact about a subset, so one-minimality is about
  the function and not about the calls; the invariant is vacuous once a change of
  the machine or noise is possible.
* `CombinationProofs`: `SearchInv`, what has moved together with the shape of the
  environments and `applied` being part of the delta, is inductive; the lemmas
  say that a baseline with a manifest is an environment, and which scalar or
  entry each change that `diff_environments` finds is about. For
  `InterventionsAreSwitches` the strengthening is `CombinationInv`: whatever an
  included intervention moves is where that one put it, and everything else is at
  the baseline. It is inductive because no setting and no variable is moved by two
  interventions of a valid configuration (`TogglesApart`, by kind of intervention
  and from the checks of `Config::validate`). That a build sees the same follows
  place by place: what a place shows depends on one setting or one variable
  (`VariableShows`, `ToggleShows`), or on one overridden file, whose contents no
  other override reaches (`ContentsOfOne`, by induction along the files in the
  order in which they are copied).
* `RunnerProofs`: the inductive invariant is `RunnerInv` with two facts it needs,
  that the parent waits while the client runs and that `CacheMutationIsReal`.
  `StreamsConserved` counts bytes through pipe and reader, `WatchdogContained`
  says that a kill happens within the wait and only when time is up, `StageOrder`
  what the parent knows from each join: from these `VerdictMatchesKill` and
  `CaptureComplete` follow at the moment of the answer, and `CachesHold` gives
  `SameImageSameProvenance`. `Refinement` maps every step to a step of
  `BuildAttempts` or to a stutter; what it adds to the invariants is about time:
  evidence is never withdrawn, only an answer adds to it, and no thread that
  outlives an attempt (a reader, after an error) changes an answer that was given.
  That a report covers all output is part of it (`CaptureIsComplete` states it
  alone). It needs one more fact, that the client reports success only of a
  container that ended well.
* `TraceProofs`: `TraceInvariant` is inductive in five parts. `LineageInv` relates
  the parser's processes to those created. `DescriptorInv` says that, without
  threads, late entries and misleading names, what the parser knows of a descriptor
  that is not stale is true of the kernel's table, that it knows every such
  descriptor of an input if no creation is cut off, and that the entries of
  processes come in order; it is about descriptors that are not stale because
  nothing holds of the others. For those there is `OriginInv`: whatever is known of
  a descriptor, or said of a mapping, goes back to an open by the process or one
  above it. `EvidenceInv` and `CompletenessInv` compare what is said with what was
  done, in the two directions, and the writers known with the authors.
  `InputEvidenceIsTrue`, `PublicationIsTrue` and
  `EvidenceIsWhole` are read off. `LineageIsTrue` is about the summary graph: the
  recursive depth of a process (`Above`) is unfolded by induction, the ancestors are
  the least closed set, and a chain that is longer than the number of processes
  would repeat one. It assumes that processes are finitely many.
* `FixProofs`: `FixIInv`, which is `FixInv` and `VerifiedIsEarned` with the shape
  of the diagnosis and of the verification under way, is inductive. That a
  replayed intervention is one a build notices rests on lemmas: a fixable result
  has one of five names (`FixableAreNamed`), and whatever intervention goes by
  such a name shows (`RecoveredIsNoticed`), as a setting (`SettingIsNoticed`) or
  as a variable that no wrapper masks (`VariableIsNoticed`).
* `CommandsProofs`: every step of the program is a step of one component and a
  stutter of the others, which carries the invariants over; `EvidenceSurvives` is
  proved step by step, from the guards of `write_normalized`. `MigrationSettles`:
  whole files hold documents of the types they are read into (`DocumentsInv`), and
  migration is idempotent for each kind of document: summaries of caches first, then
  builds, then the reports that hold them. It assumes that the files on disk hold
  what `serde` reads at all, `Documents \subseteq EvidenceDocuments`.

Assumed are only the `ASSUME`s of the modules: the option bounds of
`Config::validate` and `validate_options`, that configurations hold what parsing
them gives (the files of a dependency variant are files of the project,
`config.rs:301`), that "unset" is no value, that successes and failures are different outcomes, that toolchain keys are
among the six the code accepts, that resolving a link twice changes nothing, that
processes are finitely many, and what documents are made of.

Model-checked only: termination, and the liveness of `Runner` (the prover does no
liveness). Every safety property a run checks is stated by a theorem.

## Not modelled

* Artifact parsers (`artifact/*.rs`), lockfile parsers and the names of process
  roles: pure functions over formats. Report rendering, the wording of evidence,
  notes, limitations and remediation, `init`, argument parsing and exit codes:
  text.
* f64 rounding: the statistics use exact fractions.
* Values are opaque. `{source}/x` and `/src/x`, or two byte-identical variant
  files, are different values although a build could not tell them apart.
* A copy and a digest of a tree are one step each: an edit in the middle of a
  copy is not modelled, an edit between a digest and a copy is (`Fix`).
* Failures of `wait()` and of thread creation, which end an attempt as an error
  like those of its preparation, and what a container does after its client is
  gone.
* Timeouts of the runtime's other commands: image inspection and pull, the
  toolchain probe and the kill itself are waited for without one in the code, and
  `EveryAttemptAnswered` takes their return for granted. It is about builds that do
  not end, not about a runtime that hangs.
* In traces: the end of a process and a process number that is used again (the
  pre-pass keeps the first creator, `oci.rs:1279`), the names of links and
  `RENAME_EXCHANGE`. A file's usual name is the one the build gives it most; the
  documentation disclaims `close_range` and relative paths (architecture.md:211),
  but not padding.
* Hard links between evidence files, which `canonicalize` does not see.

## Plan

1. The provenance behind `traced` in `Check`, from the trace summary, in place of
   a nondeterministic corroboration.
2. The walk of `source.rs` file by file, with edits in between.
