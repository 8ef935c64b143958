-------------------------------- MODULE Runner --------------------------------
(***************************************************************************)
(* The build attempts of one OciRunner: src/runner/oci.rs.                 *)
(*                                                                         *)
(* An attempt is the thread that called `run_attempt` (the parent), two    *)
(* threads that drain the output pipes, a watchdog thread, the runtime's   *)
(* client process that the parent waits for, and the container, which runs *)
(* the wrapper script and in it the build.  The image and toolchain caches *)
(* live as long as the runner.                                             *)
(***************************************************************************)
EXTENDS DependencyCache

CONSTANTS
    References,     \* image references that environments ask for
    ImageIds,
    Unknown,        \* no image id
    MaxAttempts,    \* bound on the attempts of one runner
    Timeout,        \* timeout_seconds, in polls of the watchdog
    LogLimit,       \* log_capture_max_bytes
    PipeCapacity,
    MaxOutput       \* bound on the bytes a build writes to a stream

Streams == {"stdout", "stderr"}

\* Config::validate, and that an id is an id.
ASSUME RunnerAssumption ==
    /\ Unknown \notin ImageIds
    /\ MaxAttempts \in Nat
    /\ Timeout \in Nat \ {0}
    /\ LogLimit \in Nat \ {0}
    /\ PipeCapacity \in Nat \ {0}
    /\ MaxOutput \in [Streams -> Nat]

VARIABLES
    \* the parent
    pc,         \* "idle", "image", "probe", "prepare", "wait", "finish",
                \* "join", "drain" or "judge"
    attempts,   \* attempts begun
    reference, image,
    verdict,    \* of the latest attempt: "success", "failed", "timeout", "error"
    \* the runner's caches: resolved_image_ids and toolchain_cache
    resolved, toolchains,
    evidence,   \* reference, image and tools of every attempt that became evidence
    record,     \* what the latest attempt's evidence says of the caches
    \* the watchdog, and the flag it shares with the parent
    finished, watchdog, elapsed,
    \* the readers: drain_bounded_stream
    reader, total, retained,
    \* external: the client, the container and the pipes
    client, container, written, pipe

attemptVars == <<attempts, reference, image>>
reportVars == <<verdict, evidence, record>>
imageVars == <<resolved, toolchains>>
watchVars == <<finished, watchdog, elapsed>>
readVars == <<reader, total, retained>>
boxVars == <<client, container, written, pipe>>
vars == <<pc, attemptVars, reportVars, imageVars, watchVars, readVars, boxVars>>

Max2(m, n) == IF m > n THEN m ELSE n
Min2(m, n) == IF m < n THEN m ELSE n

Answered == {"success", "failed"}
Zero == [s \in Streams |-> 0]

Init ==
    /\ pc = "idle"
    /\ attempts = 0
    /\ reference \in References
    /\ image = Unknown
    /\ verdict = "none"
    /\ resolved = [r \in References |-> Unknown]
    /\ toolchains = [i \in ImageIds |-> "unprobed"]
    /\ evidence = {}
    /\ finished = FALSE
    /\ watchdog = "quit"
    /\ elapsed = 0
    /\ reader = [s \in Streams |-> "ended"]
    /\ total = Zero
    /\ retained = Zero
    /\ client = "none"
    /\ container = "absent"
    /\ written = Zero
    /\ pipe = Zero
    /\ record = NoRecord

-------------------------------------------------------------------------------
(* The parent, up to the spawn                                             *)

Answer(v) ==
    /\ pc' = "idle"
    /\ verdict' = v

\* A call of run_attempt.  All that an attempt owns is its own.
RunAttempt ==
    /\ pc = "idle"
    /\ attempts < MaxAttempts
    /\ attempts' = attempts + 1
    /\ reference' \in References
    /\ image' = Unknown
    /\ pc' = "image"
    /\ verdict' = "none"
    /\ record' = NoRecord
    /\ finished' = FALSE
    /\ watchdog' = "quit"
    /\ elapsed' = 0
    /\ reader' = [s \in Streams |-> "ended"]
    /\ total' = Zero
    /\ retained' = Zero
    /\ client' = "none"
    /\ container' = "absent"
    /\ written' = Zero
    /\ pipe' = Zero
    /\ UNCHANGED <<evidence, imageVars>>

\* Faulty: a resolved id is not remembered.
EnsureImageAgain ==
    /\ pc = "image"
    /\ image' \in ImageIds
    /\ pc' = "probe"
    /\ UNCHANGED <<attempts, reference, reportVars, imageVars, watchVars, readVars,
                   boxVars>>

\* ensure_image.  A reference that was never resolved may by now name any image.
EnsureImage ==
    /\ pc = "image"
    /\ \E id \in ImageIds :
        /\ resolved[reference] \in {Unknown, id}
        /\ image' = id
        /\ resolved' = [resolved EXCEPT ![reference] = id]
    /\ pc' = "probe"
    /\ UNCHANGED <<attempts, reference, reportVars, toolchains, watchVars,
                   readVars, boxVars>>

ImageUnavailable ==
    /\ pc = "image"
    /\ resolved[reference] = Unknown
    /\ Answer("error")
    /\ UNCHANGED <<attemptVars, evidence, record, imageVars, watchVars, readVars,
                   boxVars>>

\* toolchain_provenance: a probe that failed is remembered like one that worked.
ToolchainProvenance ==
    /\ pc = "probe"
    /\ \E tools \in {"listed", "failed"} :
        /\ toolchains[image] \in {"unprobed", tools}
        /\ toolchains' = [toolchains EXCEPT ![image] = tools]
    /\ pc' = "prepare"
    /\ UNCHANGED <<attemptVars, reportVars, resolved, watchVars, readVars, boxVars>>

\* The workspace copy, wrappers, overrides, mtimes or the arguments failed, or the
\* client could not be started.
PreparationError ==
    /\ pc = "prepare"
    /\ Answer("error")
    /\ UNCHANGED <<attemptVars, evidence, record, imageVars, watchVars, readVars,
                   boxVars>>

Spawn ==
    /\ pc = "prepare"
    /\ pc' = "wait"
    /\ client' = "running"
    /\ reader' = [s \in Streams |-> "reading"]
    /\ watchdog' = "polling"
    /\ UNCHANGED <<attemptVars, reportVars, imageVars, finished, elapsed, total,
                   retained, container, written, pipe>>

-------------------------------------------------------------------------------
(* The client, the container and the build in it                           *)

\* The container starts.
ContainerStarts ==
    /\ client = "running"
    /\ container = "absent"
    /\ container' = "running"
    /\ UNCHANGED <<pc, attemptVars, reportVars, imageVars, watchVars, readVars,
                   client, written, pipe>>

BuildWrites(s) ==
    /\ client = "running"
    /\ container = "running"
    /\ reader[s] = "reading"
    /\ pipe[s] < PipeCapacity
    /\ written[s] < MaxOutput[s]
    /\ written' = [written EXCEPT ![s] = @ + 1]
    /\ pipe' = [pipe EXCEPT ![s] = @ + 1]
    /\ UNCHANGED <<pc, attemptVars, reportVars, imageVars, watchVars, readVars,
                   client, container>>

\* The build ends and the wrapper after it.  What a container does when its client
\* is gone is not observed.
BuildExits(status) ==
    /\ client = "running"
    /\ container = "running"
    /\ container' = status
    /\ UNCHANGED <<pc, attemptVars, reportVars, imageVars, watchVars, readVars,
                   client, written, pipe>>

\* The container dies under the wrapper, for instance out of memory.
ContainerDies ==
    /\ client = "running"
    /\ container = "running"
    /\ container' = "died"
    /\ UNCHANGED <<pc, attemptVars, reportVars, imageVars, watchVars, readVars,
                   client, written, pipe>>

\* The client exits with the container's status.
ClientReturns ==
    /\ client = "running"
    /\ container \in {"zero", "nonzero", "died", "killed"}
    /\ client' = IF container = "zero" THEN "zero" ELSE "nonzero"
    /\ UNCHANGED <<pc, attemptVars, reportVars, imageVars, watchVars, readVars,
                   container, written, pipe>>

\* The runtime fails on its own: no container, no daemon, a broken pipe.  The
\* client's exit code says so (125 to 127), and it is not zero.
RuntimeFails ==
    /\ client = "running"
    /\ client' = "runtime"
    /\ UNCHANGED <<pc, attemptVars, reportVars, imageVars, watchVars, readVars,
                   container, written, pipe>>

-------------------------------------------------------------------------------
(* The readers: drain_bounded_stream, one read of the pipe at a time       *)

\* Faulty: a reader that has retained all it may stops reading.
DrainToLimit(s) ==
    /\ reader[s] = "reading"
    /\ retained[s] < LogLimit
    /\ \E read \in 1..pipe[s] :
        /\ pipe' = [pipe EXCEPT ![s] = @ - read]
        /\ total' = [total EXCEPT ![s] = @ + read]
        /\ retained' = [retained EXCEPT ![s] = Min2(@ + read, LogLimit)]
    /\ UNCHANGED <<pc, attemptVars, reportVars, imageVars, watchVars, reader,
                   client, container, written>>

\* The reader counts and hashes all it reads and retains the first LogLimit bytes.
Drain(s) ==
    /\ reader[s] = "reading"
    /\ \E read \in 1..pipe[s] :
        /\ pipe' = [pipe EXCEPT ![s] = @ - read]
        /\ total' = [total EXCEPT ![s] = @ + read]
        /\ retained' = [retained EXCEPT ![s] =
                            @ + Min2(read, Max2(LogLimit, @) - @)]
    /\ UNCHANGED <<pc, attemptVars, reportVars, imageVars, watchVars, reader,
                   client, container, written>>

EndOfStream(s) ==
    /\ reader[s] = "reading"
    /\ pipe[s] = 0
    /\ client # "running"
    /\ reader' = [reader EXCEPT ![s] = "ended"]
    /\ UNCHANGED <<pc, attemptVars, reportVars, imageVars, watchVars, total,
                   retained, boxVars>>

\* A read fails; the reader drops its end of the pipe and all it has collected.
ReadError(s) ==
    /\ reader[s] = "reading"
    /\ reader' = [reader EXCEPT ![s] = "broken"]
    /\ pipe' = [pipe EXCEPT ![s] = 0]
    /\ total' = [total EXCEPT ![s] = 0]
    /\ retained' = [retained EXCEPT ![s] = 0]
    /\ UNCHANGED <<pc, attemptVars, reportVars, imageVars, watchVars, client,
                   container, written>>

-------------------------------------------------------------------------------
(* The watchdog                                                            *)

Tick ==
    /\ watchdog = "polling"
    /\ elapsed < Timeout
    /\ elapsed' = elapsed + 1
    /\ UNCHANGED <<pc, attemptVars, reportVars, imageVars, finished, watchdog,
                   readVars, boxVars>>

\* The flag is looked at before every sleep, and swapped when time is up.
WatchdogQuits ==
    /\ watchdog = "polling"
    /\ finished
    /\ watchdog' = "quit"
    /\ UNCHANGED <<pc, attemptVars, reportVars, imageVars, finished, elapsed,
                   readVars, boxVars>>

\* Faulty: time is not looked at.
WatchdogExpiresEarly ==
    /\ watchdog = "polling"
    /\ ~finished
    /\ finished' = TRUE
    /\ watchdog' = "killing"
    /\ UNCHANGED <<pc, attemptVars, reportVars, imageVars, elapsed, readVars,
                   boxVars>>

\* Faulty: the build is declared dead without a kill.
WatchdogGivesUp ==
    /\ watchdog = "polling"
    /\ elapsed = Timeout
    /\ ~finished
    /\ finished' = TRUE
    /\ watchdog' = "killed"
    /\ UNCHANGED <<pc, attemptVars, reportVars, imageVars, elapsed, readVars,
                   boxVars>>

WatchdogExpires ==
    /\ watchdog = "polling"
    /\ elapsed = Timeout
    /\ ~finished
    /\ finished' = TRUE
    /\ watchdog' = "killing"
    /\ UNCHANGED <<pc, attemptVars, reportVars, imageVars, elapsed, readVars,
                   boxVars>>

\* The kill command finds the running container.
KillLands ==
    /\ watchdog = "killing"
    /\ container = "running"
    /\ container' = "killed"
    /\ UNCHANGED <<pc, attemptVars, reportVars, imageVars, watchVars, readVars,
                   client, written, pipe>>

\* The kill command ends.  It has missed a container that does not exist yet, or
\* that the runtime would not kill; its status is ignored.
KillReturns ==
    /\ watchdog = "killing"
    /\ watchdog' = IF container \in {"absent", "running"} THEN "missed" ELSE "killed"
    /\ UNCHANGED <<pc, attemptVars, reportVars, imageVars, finished, elapsed,
                   readVars, boxVars>>

TimedOut == watchdog \in {"killed", "missed"}

-------------------------------------------------------------------------------
(* The parent, from the wait on                                            *)

\* child.wait() returns; the flag is stored after it.
WaitReturns ==
    /\ pc = "wait"
    /\ client # "running"
    /\ pc' = "finish"
    /\ UNCHANGED <<attemptVars, reportVars, imageVars, watchVars, readVars, boxVars>>

StoreFinished ==
    /\ pc = "finish"
    /\ finished' = TRUE
    /\ pc' = "join"
    /\ UNCHANGED <<attemptVars, reportVars, imageVars, watchdog, elapsed, readVars,
                   boxVars>>

\* Faulty: the verdict of the watchdog is not waited for.
JoinNoWatchdog ==
    /\ pc = "join"
    /\ pc' = "drain"
    /\ UNCHANGED <<attemptVars, reportVars, imageVars, watchVars, readVars, boxVars>>

JoinWatchdog ==
    /\ pc = "join"
    /\ watchdog \notin {"polling", "killing"}
    /\ pc' = "drain"
    /\ UNCHANGED <<attemptVars, reportVars, imageVars, watchVars, readVars, boxVars>>

\* stdout's reader is joined first, and either may return an error.
ReaderFailed ==
    /\ pc = "drain"
    /\ \/ reader["stdout"] = "broken"
       \/ reader["stdout"] = "ended" /\ reader["stderr"] = "broken"
    /\ Answer("error")
    /\ UNCHANGED <<attemptVars, evidence, record, imageVars, watchVars, readVars,
                   boxVars>>

ReadersJoined ==
    /\ pc = "drain"
    /\ \A s \in Streams : reader[s] = "ended"
    /\ pc' = "judge"
    /\ UNCHANGED <<attemptVars, reportVars, imageVars, watchVars, readVars, boxVars>>

\* Faulty: the evidence is recorded before the time is looked at.
TimeoutRecorded ==
    /\ pc = "judge"
    /\ TimedOut
    /\ Answer("timeout")
    /\ evidence' = evidence \cup
            {[reference |-> reference, image |-> image, tools |-> toolchains[image]]}
    /\ UNCHANGED <<attemptVars, record, imageVars, watchVars, readVars, boxVars>>

TimeoutError ==
    /\ pc = "judge"
    /\ TimedOut
    /\ Answer("timeout")
    /\ UNCHANGED <<attemptVars, evidence, record, imageVars, watchVars, readVars,
                   boxVars>>

\* What the wrapper left to be read of the caches.
CacheRecords ==
    IF container \in {"zero", "nonzero"} THEN WholeRecords
    ELSE IF container = "absent" THEN {NoRecord}
    ELSE BrokenRecords

\* The attempt becomes evidence, a success or a failed build.
Evidence(v) ==
    /\ pc = "judge"
    /\ ~TimedOut
    /\ Answer(v)
    /\ record' \in CacheRecords
    /\ evidence' = evidence \cup
            {[reference |-> reference, image |-> image, tools |-> toolchains[image]]}
    /\ UNCHANGED <<attemptVars, imageVars, watchVars, readVars, boxVars>>

BuildFailed == client # "zero" /\ Evidence("failed")

BuildSucceeded == client = "zero" /\ Evidence("success")

\* A declared artifact is missing or cannot be read.
ArtifactsMissing ==
    /\ pc = "judge"
    /\ ~TimedOut
    /\ client = "zero"
    /\ Answer("error")
    /\ UNCHANGED <<attemptVars, evidence, record, imageVars, watchVars, readVars,
                   boxVars>>

-------------------------------------------------------------------------------
\* The thread that called run_attempt.
Parent ==
    \/ EnsureImage \/ ImageUnavailable
    \/ ToolchainProvenance
    \/ PreparationError \/ Spawn
    \/ WaitReturns \/ StoreFinished \/ JoinWatchdog
    \/ ReaderFailed \/ ReadersJoined
    \/ TimeoutError \/ BuildFailed \/ BuildSucceeded \/ ArtifactsMissing

Watchdog == WatchdogQuits \/ WatchdogExpires \/ KillReturns

Reader(s) == Drain(s) \/ EndOfStream(s)

Outside ==
    \/ ContainerStarts \/ ContainerDies \/ RuntimeFails \/ KillLands
    \/ \E s \in Streams : BuildWrites(s) \/ ReadError(s)
    \/ \E status \in {"zero", "nonzero"} : BuildExits(status)

Next ==
    \/ RunAttempt \/ Parent \/ Watchdog \/ Tick \/ ClientReturns
    \/ \E s \in Streams : Reader(s)
    \/ Outside

Spec == Init /\ [][Next]_vars

\* Threads run, time passes, and a client whose container has stopped returns.
\* Nothing says that a container starts or that a build ends.
FairSpec ==
    /\ Spec
    /\ WF_vars(Parent)
    /\ WF_vars(Watchdog)
    /\ WF_vars(Tick)
    /\ WF_vars(ClientReturns)
    /\ \A s \in Streams : WF_vars(Reader(s))

-------------------------------------------------------------------------------
\* The type invariant.
TypeOK ==
    /\ pc \in {"idle", "image", "probe", "prepare", "wait", "finish", "join",
               "drain", "judge"}
    /\ attempts \in 0..MaxAttempts
    /\ reference \in References
    /\ image \in ImageIds \cup {Unknown}
    /\ verdict \in {"none", "success", "failed", "timeout", "error"}
    /\ resolved \in [References -> ImageIds \cup {Unknown}]
    /\ toolchains \in [ImageIds -> {"unprobed", "listed", "failed"}]
    /\ evidence \subseteq [reference : References, image : ImageIds,
                           tools : {"listed", "failed"}]
    /\ finished \in BOOLEAN
    /\ watchdog \in {"polling", "killing", "quit", "killed", "missed"}
    /\ elapsed \in 0..Timeout
    /\ reader \in [Streams -> {"reading", "ended", "broken"}]
    /\ total \in [Streams -> Nat]
    /\ retained \in [Streams -> Nat]
    /\ client \in {"none", "running", "zero", "nonzero", "runtime"}
    /\ container \in {"absent", "running", "zero", "nonzero", "died", "killed"}
    /\ written \in [Streams -> Nat]
    /\ pipe \in [Streams -> 0..PipeCapacity]
    /\ record \in Records

BecameEvidence == pc = "idle" /\ verdict \in Answered

\* Bytes are neither lost nor made up between the build and the captured stream.
StreamsConserved ==
    \A s \in Streams :
        /\ reader[s] # "broken" => written[s] = total[s] + pipe[s]
        /\ retained[s] = Min2(total[s], LogLimit)
        /\ reader[s] = "ended" => pipe[s] = 0 /\ client # "running"

\* The watchdog lives within the parent's wait, and what it did can be told from
\* its state.
WatchdogContained ==
    /\ watchdog \in {"polling", "killing"} => pc \in {"wait", "finish", "join"}
    /\ watchdog \in {"killing", "killed", "missed"} => elapsed = Timeout
    /\ container = "killed" => watchdog \in {"killing", "killed"}

\* What the parent knows when it has got this far.
StageOrder ==
    /\ pc \in {"image", "probe", "prepare"} =>
        /\ client = "none"
        /\ container = "absent"
        /\ elapsed = 0
        /\ \A s \in Streams : reader[s] = "ended" /\ total[s] = 0 /\ pipe[s] = 0
    /\ pc \in {"finish", "join", "drain", "judge"} => client # "running"
    /\ pc = "judge" => \A s \in Streams : reader[s] = "ended"
    /\ BecameEvidence => watchdog = "quit" /\ \A s \in Streams : reader[s] = "ended"
    /\ pc = "idle" /\ verdict = "timeout" => TimedOut

\* The caches only grow, and evidence repeats what they hold.
CachesHold ==
    /\ pc \notin {"idle", "image"} => image \in ImageIds /\ image = resolved[reference]
    /\ pc \notin {"idle", "image", "probe"} => toolchains[image] # "unprobed"
    /\ \A e \in evidence :
        e.image = resolved[e.reference] /\ e.tools = toolchains[e.image]

RunnerInv ==
    /\ TypeOK
    /\ StreamsConserved
    /\ WatchdogContained
    /\ StageOrder
    /\ CachesHold

\* A build that the watchdog killed never counts as a success or as a failed
\* build, however the kill, the end of the build and the parent's wait
\* interleave; and a build is only called timed out when its time was up.
VerdictMatchesKill ==
    /\ BecameEvidence => container # "killed" /\ watchdog = "quit"
    /\ pc = "idle" /\ verdict = "timeout" => TimedOut /\ elapsed = Timeout

\* What is reported of the output (size, digest, truncation) covers every byte the
\* build wrote, and the retained text is cut at the limit and not before.
CaptureComplete ==
    BecameEvidence =>
        \A s \in Streams :
            /\ total[s] = written[s]
            /\ retained[s] = Min2(total[s], LogLimit)

\* Every build of one command with the same image reference ran in the same image,
\* and builds in one image report the same tools, however tags move meanwhile.
SameImageSameProvenance ==
    \A e, f \in evidence :
        /\ e.reference = f.reference => e.image = f.image
        /\ e.image = f.image => e.tools = f.tools

\* When the wrapper ran to its end, a reported mutation of a dependency cache is a
\* mutation, one that is tied to the network had network traffic in the same
\* build, and a complete comparison misses none.
CacheMutationIsReal ==
    BecameEvidence /\ container \in {"zero", "nonzero"} =>
        /\ record.claim \in {"fetched", "changed"} => record.changed
        /\ record.claim = "fetched" => record.online
        /\ record.claim = "unchanged" => ~record.changed

\* run_attempt as an implementation of BuildAttempts, which says what the engines may
\* rely on and nothing of threads, pipes and caches: one answer to each call, nothing
\* after it, and evidence that grows only by builds that ended by themselves.
Attempts == INSTANCE BuildAttempts WITH
    phase <- IF pc = "idle" THEN "idle" ELSE "called",
    wanted <- reference,
    answer <- verdict,
    evidence <- evidence,
    report <- [s \in Streams |->
                IF BecameEvidence THEN [bytes |-> total[s], text |-> retained[s]]
                ELSE [bytes |-> 0, text |-> 0]],
    build <- container,
    expired <- elapsed = Timeout,
    written <- written

ImplementsAttempts == Attempts!Spec

\* The comment on Runner::run_attempt (src/runner/mod.rs:20): a non-zero exit of the
\* build command is evidence, "runner/infrastructure failures remain `Err`".
RunnerFailuresRemainErr == BecameEvidence => client # "runtime"

\* A build that fills a pipe gets room again: the readers go on reading when they
\* have retained all they may.
WriterGetsRoom ==
    \A s \in Streams :
        pipe[s] = PipeCapacity ~> pipe[s] < PipeCapacity \/ reader[s] = "broken"

\* Every attempt is answered, also when the build hangs or floods its output,
\* unless the one kill command of the watchdog missed the container.
EveryAttemptAnswered == pc # "idle" ~> pc = "idle" \/ watchdog = "missed"
===============================================================================
