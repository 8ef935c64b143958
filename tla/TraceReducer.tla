----------------------------- MODULE TraceReducer -----------------------------
(***************************************************************************)
(* The process trace of a build and its reduction: `parse_process_trace`   *)
(* of src/runner/oci.rs against what the traced processes really did.      *)
(*                                                                         *)
(* A step is one system call: the kernel's tables change, strace writes    *)
(* its line, and the parser's state moves on by that line.  The parser     *)
(* reads a prefix of the trace, so every state is also a place where the   *)
(* trace may have been cut off.  Its pre-pass over the process creations   *)
(* is the one thing that looks ahead: see Clone.                           *)
(*                                                                         *)
(* Counters are abstracted to "at least one": what a process is said to    *)
(* have done is a set of kinds of evidence.                                *)
(***************************************************************************)
EXTENDS Naturals, FiniteSets

CONSTANTS
    Pids, Root,     \* thread ids, as strace prints them, and the traced command's
    NoPid,
    Fds,            \* descriptor numbers
    Files, Kind,    \* files, each by the name the build usually gives it, and whether
                    \* that is the name of a "dependency", of a "cache" input, of a
                    \* declared "output" or "plain"
    Spellings,      \* the names a call may give a file: relative to some directory,
                    \* through a link, and then perhaps those of other files
    TracedScopes,   \* scopes of the endpoints that are contacted
    MaxCalls        \* bound on the system calls of the traced build

ASSUME TraceAssumption ==
    /\ IsFiniteSet(Pids) /\ Root \in Pids
    /\ NoPid \notin Pids
    /\ Fds \subseteq Nat
    /\ Kind \in [Files -> {"dependency", "cache", "output", "plain"}]
    /\ Spellings \in [Files -> SUBSET Files] /\ \A file \in Files : file \in Spellings[file]
    /\ TracedScopes \subseteq {"public", "private", "link_local", "loopback",
                               "unspecified", "unix", "kernel", "unknown"}
    /\ MaxCalls \in Nat

VARIABLES
    calls,      \* system calls so far
    \* external: the kernel
    alive,
    family,     \* who created whom
    table,      \* the descriptor table of a thread: threads share their creator's
    fds,        \* what the descriptors of a table refer to
    authors,    \* who has written a file, while it was no output
    blocked,    \* the child whose creation has not returned yet, or NoPid
    \* parse_process_trace
    parents,    \* from the pre-pass
    classes,    \* descriptor_classes: what is known of the descriptors of a process
    writers,    \* path_writers, by the name in the line
    activity,   \* kinds of evidence with a counter above zero
    \* history
    did,        \* the evidence there should be
    stale,      \* descriptors of a process with an input before or after a change
                \* that the parser did not learn of
    gaps        \* in what way the lines read did not tell what happened

kernelVars == <<alive, family, table, fds, authors, blocked>>
parserVars == <<parents, classes, writers, activity>>
vars == <<calls, kernelVars, parserVars, did, stale, gaps>>

Inputs == {"dependency", "cache"}
Did(what, how) == [what |-> what, how |-> how]
Reads == [what : Inputs, how : {"read", "mmap"}]
Publications == [what : {"output"}, how : {"publication", "temp", "lineageTemp"}]
OutputWrite == Did("output", "write")
Network == Did("network", "connect")
Evidence == Reads \cup Publications \cup {OutputWrite, Network}

\* A descriptor is closed, or it refers to a file, opened for reading or not.
Closed == [open |-> FALSE]
Descriptors ==
    {Closed} \cup [open : {TRUE}, input : Inputs \cup {"none"}, cloexec : BOOLEAN]

\* TraceFdClass: only descriptors of inputs are remembered.
Unclassified == [input |-> "none", cloexec |-> FALSE]
FdClasses == {Unclassified} \cup [input : Inputs, cloexec : BOOLEAN]

\* Faulty: the flag of any descriptor is remembered.
ClassifiedAlways(input, cloexec) == [input |-> input, cloexec |-> cloexec]

Classified(input, cloexec) ==
    IF input = "none" THEN Unclassified ELSE [input |-> input, cloexec |-> cloexec]

Empty == [fd \in Fds |-> Unclassified]

\* The parser has no entry for a process.
Unseen == [seen |-> FALSE]
Seen(table_) == [seen |-> TRUE, fds |-> table_]

Init ==
    /\ calls = 0
    /\ alive = {Root}
    /\ family = [p \in Pids |-> NoPid]
    /\ table = [p \in Pids |-> p]
    /\ fds = [p \in Pids |-> [fd \in Fds |-> Closed]]
    /\ authors = [f \in Files |-> {}]
    /\ blocked = [p \in Pids |-> NoPid]
    /\ parents = [p \in Pids |-> NoPid]
    /\ classes = [p \in Pids |-> Unseen]
    /\ writers = [f \in Files |-> {}]
    /\ activity = [p \in Pids |-> {}]
    /\ did = [p \in Pids |-> {}]
    /\ stale = [p \in Pids |-> {}]
    /\ gaps = {}

-------------------------------------------------------------------------------
(* Helpers of the parser                                                   *)

\* Faulty: only the line that creates a process hands the descriptors on.
InheritedLate(p) == classes[p]

\* Every line of a process that has no entry yet copies its parent's entry.
Inherited(p) ==
    IF ~classes[p].seen /\ parents[p] # NoPid THEN classes[parents[p]] ELSE classes[p]

\* entry(pid).or_default()
OrDefault(entry) == IF entry.seen THEN entry.fds ELSE Empty

\* is_ancestor: the creations `up` are followed upwards at most once around.
Above(up, p) ==
    LET climb[n \in 0..Cardinality(Pids)] ==
            IF n = 0 THEN {p}
            ELSE climb[n - 1] \cup {up[q] : q \in {r \in climb[n - 1] : up[r] # NoPid}}
    IN  climb[Cardinality(Pids)] \ {p}

Ancestors(p) == Above(parents, p)

Relatives(up, p) == {q \in Pids \ {p} : p \in Above(up, q) \/ q \in Above(up, p)}

Kin(p) == Relatives(parents, p)

LineageDepth(p) == Cardinality(Ancestors(p))

-------------------------------------------------------------------------------
(* System calls                                                            *)

Runs(p) == p \in alive /\ blocked[p] = NoPid /\ calls < MaxCalls

Descriptor(p, fd) == fds[table[p]][fd]

LowestFree(p, fd) ==
    /\ ~Descriptor(p, fd).open
    /\ \A lower \in Fds : lower < fd => Descriptor(p, lower).open

\* A process gets its first entry when it has children that have none: they will
\* copy it although they were created before.
LateEntry(p, entry) ==
    /\ ~Inherited(p).seen
    /\ entry.seen
    /\ \E child \in Pids : parents[child] = p /\ ~classes[child].seen

\* The line of a successful call of p.  When another thread's call comes between its
\* begin and its end strace splits the line, and the halves show neither the call
\* with its result nor the result with its call.
Line(p, whole, entry, evidence, paths, lost) ==
    /\ whole \/ alive # {p}
    /\ calls' = calls + 1
    /\ parents' = parents
    /\ classes' = [classes EXCEPT ![p] = IF whole THEN entry ELSE Inherited(p)]
    /\ activity' = [activity EXCEPT ![p] = IF whole THEN @ \cup evidence ELSE @]
    /\ writers' = IF whole THEN paths ELSE writers
    /\ gaps' = gaps \cup lost
                    \cup (IF whole THEN {} ELSE {"split"})
                    \cup (IF whole /\ LateEntry(p, entry) THEN {"lateEntry"} ELSE {})

Truth(p, evidence) == did' = [did EXCEPT ![p] = @ \cup evidence]

InputAt(descriptor) == IF descriptor.open THEN descriptor.input ELSE "none"

\* The parser does not learn what the call does to the descriptors of p.
Unlearned(p) ==
    stale' = [stale EXCEPT ![p] = @ \cup
                {fd \in Fds : LET before == Descriptor(p, fd)
                                  after == fds'[table[p]][fd]
                              IN  before # after /\ {InputAt(before), InputAt(after)} # {"none"}}]

InputOf(path, writing) == IF ~writing /\ Kind[path] \in Inputs THEN Kind[path] ELSE "none"

OpenEvidence(path, writing) ==
    {e \in Reads : e = Did(InputOf(path, writing), "read")}
        \cup (IF writing /\ Kind[path] = "output" THEN {OutputWrite} ELSE {})

\* A name that reads as another kind of file than it is given to.
Misread(file, path) == IF Kind[path] = Kind[file] THEN {} ELSE {"misread"}

\* A name that is not the usual one of the file.
Alias(file, path) == IF path = file THEN {} ELSE {"alias"}

\* open, openat, openat2 or creat: the parser goes by the name in the line.
Open(p, file, path, writing, cloexec, whole) ==
    /\ Runs(p)
    /\ \E fd \in Fds :
        /\ LowestFree(p, fd)
        /\ fds' = [fds EXCEPT ![table[p]][fd] =
                      [open |-> TRUE, input |-> InputOf(file, writing), cloexec |-> cloexec]]
        /\ IF whole THEN stale' = [stale EXCEPT ![p] = @ \ {fd}] ELSE Unlearned(p)
        /\ Line(p, whole,
                Seen([OrDefault(Inherited(p)) EXCEPT ![fd] =
                        Classified(InputOf(path, writing), cloexec)]),
                OpenEvidence(path, writing),
                IF writing /\ Kind[path] # "output"
                THEN [writers EXCEPT ![path] = @ \cup {p}] ELSE writers,
                Misread(file, path) \cup IF writing THEN Alias(file, path) ELSE {})
    /\ authors' = IF writing /\ Kind[file] # "output"
                  THEN [authors EXCEPT ![file] = @ \cup {p}] ELSE authors
    /\ Truth(p, OpenEvidence(file, writing))
    /\ UNCHANGED <<alive, family, table, blocked>>

\* A call that is not traced, or not parsed, changes a descriptor: memfd_create and
\* recvmsg open one, close_range closes it, ioctl and close_range set its flag.
Untraced(p, fd, after) ==
    /\ Runs(p)
    /\ LET before == Descriptor(p, fd)
       IN  \/ /\ LowestFree(p, fd)
              /\ after.open
              /\ \E file \in Files, writing \in BOOLEAN : after.input = InputOf(file, writing)
           \/ before.open /\ after = Closed
           \/ before.open /\ after = [before EXCEPT !.cloexec = ~@]
    /\ calls' = calls + 1
    /\ fds' = [fds EXCEPT ![table[p]][fd] = after]
    /\ Unlearned(p)
    /\ gaps' = gaps \cup IF stale' = stale THEN {} ELSE {"untraced"}
    /\ UNCHANGED <<alive, family, table, authors, blocked, parserVars, did>>

\* close.  `syscall_arguments` looks for ") = ", and strace pads a line to 40 columns
\* before the "=": close_fd knows no line of a close.
Close(p, fd, whole) ==
    /\ Runs(p)
    /\ Descriptor(p, fd).open
    /\ fds' = [fds EXCEPT ![table[p]][fd] = Closed]
    /\ Unlearned(p)
    /\ Line(p, whole, Inherited(p), {}, writers, {})
    /\ Truth(p, {})
    /\ UNCHANGED <<alive, family, table, authors, blocked>>

\* dup, dup2, dup3 or fcntl: duplicated_fd and fcntl_descriptor_update.  Only a line that
\* large numbers make `long` is not padded, and no line of dup or dup2 is.  Only dup2
\* takes a descriptor onto itself, and leaves it alone.
Duplicate(p, old, new, cloexec, whole, long) ==
    /\ Runs(p)
    /\ Descriptor(p, old).open
    /\ old = new => ~cloexec /\ ~long
    /\ fds' = IF old = new THEN fds
              ELSE [fds EXCEPT ![table[p]][new] =
                        [Descriptor(p, old) EXCEPT !.cloexec = cloexec]]
    /\ IF whole /\ long
       THEN stale' = [stale EXCEPT ![p] = IF old \in @ THEN @ \cup {new} ELSE @ \ {new}]
       ELSE Unlearned(p)
    /\ LET known == OrDefault(Inherited(p))
       IN  Line(p, whole,
                IF long THEN Seen([known EXCEPT ![new] = Classified(known[old].input, cloexec)])
                ELSE Inherited(p),
                {}, writers, {})
    /\ Truth(p, {})
    /\ UNCHANGED <<alive, family, table, authors, blocked>>

\* fcntl_descriptor_update, F_SETFD: again only a `long` line is known.
SetCloexec(p, fd, cloexec, whole, long) ==
    /\ Runs(p)
    /\ Descriptor(p, fd).open
    /\ fds' = [fds EXCEPT ![table[p]][fd].cloexec = cloexec]
    /\ IF whole /\ long THEN stale' = stale ELSE Unlearned(p)
    /\ LET entry == Inherited(p)
       IN  Line(p, whole,
                IF long /\ entry.seen /\ entry.fds[fd].input # "none"
                THEN Seen([entry.fds EXCEPT ![fd].cloexec = cloexec]) ELSE entry,
                {}, writers, {})
    /\ Truth(p, {})
    /\ UNCHANGED <<alive, family, table, authors, blocked>>

\* Faulty: the descriptors that an exec closes stay known.
AfterExecKept(entry) == entry

AfterExec(entry) ==
    IF entry.seen
    THEN Seen([fd \in Fds |-> IF entry.fds[fd].cloexec THEN Unclassified ELSE entry.fds[fd]])
    ELSE entry

\* execve or execveat, which the parser does not look for.  The other threads would end:
\* only processes without threads do so here.
Exec(p, whole, at) ==
    /\ Runs(p)
    /\ \A q \in alive \ {p} : table[q] # table[p]
    /\ fds' = [fds EXCEPT ![table[p]] =
                  [fd \in Fds |-> IF @[fd].open /\ @[fd].cloexec THEN Closed ELSE @[fd]]]
    /\ IF whole /\ ~at THEN stale' = stale ELSE Unlearned(p)
    /\ Line(p, whole, IF at THEN Inherited(p) ELSE AfterExec(Inherited(p)), {}, writers, {})
    /\ Truth(p, {})
    /\ UNCHANGED <<alive, family, table, authors, blocked>>

\* mmap_fd: a readable mapping of a descriptor
Mmap(p, fd, whole) ==
    /\ Runs(p)
    /\ Descriptor(p, fd).open
    /\ LET entry == Inherited(p)
       IN  Line(p, whole, entry,
                {e \in Reads : entry.seen /\ e = Did(entry.fds[fd].input, "mmap")},
                writers, IF fd \in stale[p] THEN {"stale"} ELSE {})
    /\ Truth(p, {e \in Reads : e = Did(Descriptor(p, fd).input, "mmap")})
    /\ UNCHANGED <<kernelVars, stale>>

\* What a rename onto an output says of its process, by who wrote the file.
RenameEvidence(p, destination, authorsOfSource, kin) ==
    IF Kind[destination] # "output" THEN {}
    ELSE {Did("output", "publication")}
         \cup (IF p \in authorsOfSource THEN {Did("output", "temp")} ELSE {})
         \cup (IF authorsOfSource \cap kin # {}
               THEN {Did("output", "lineageTemp")} ELSE {})

TrueAncestors(p) == Above(family, p)

TrueKin(p) == Relatives(family, p)

\* Faulty: the source keeps its writers.
WritersKept(source, destination) ==
    [writers EXCEPT ![destination] = @ \cup writers[source]]

\* The writers known for the source are joined to those known for the destination.
WritersMoved(source, destination) ==
    [writers EXCEPT ![source] = {}, ![destination] = @ \cup writers[source]]

\* rename, renameat or renameat2 of a file to the name of another one.  A source
\* without authors was there before, or is nothing that is opened for writing.
Rename(p, source, destination, from, to, whole) ==
    /\ Runs(p)
    /\ source # destination
    /\ authors' = [authors EXCEPT ![destination] = authors[source], ![source] = {}]
    /\ Line(p, whole, Inherited(p),
            RenameEvidence(p, to, writers[from], Kin(p)),
            WritersMoved(from, to),
            Alias(source, from) \cup Alias(destination, to)
                \cup IF authors[destination] # {} THEN {"overwritten"} ELSE {})
    /\ Truth(p, RenameEvidence(p, destination, authors[source], TrueKin(p)))
    /\ UNCHANGED <<alive, family, table, fds, blocked, stale>>

\* unlink and unlinkat are traced and not parsed: the name keeps its writers.
Unlink(p, file, whole) ==
    /\ Runs(p)
    /\ authors' = [authors EXCEPT ![file] = {}]
    /\ Line(p, whole, Inherited(p), {}, writers,
            IF authors[file] # {} THEN {"removed"} ELSE {})
    /\ Truth(p, {})
    /\ UNCHANGED <<alive, family, table, fds, blocked, stale>>

\* network_endpoint_scope and is_nonlocal_scope
NonlocalScopes == {"public", "private", "link_local"}

\* connect or sendto.  A connection that does not block is under way when the call
\* returns with an error.
Connect(p, scope, completes, whole) ==
    /\ Runs(p)
    /\ LET traffic == IF scope \in NonlocalScopes THEN {Network} ELSE {}
       IN  /\ Line(p, whole, Inherited(p), IF completes THEN traffic ELSE {}, writers,
                    IF traffic # {} /\ ~completes THEN {"inProgress"} ELSE {})
           /\ Truth(p, traffic)
    /\ UNCHANGED <<kernelVars, stale>>

\* A call that fails leaves a line without effect.
FailedCall(p) ==
    /\ Runs(p)
    /\ Line(p, TRUE, Inherited(p), {}, writers, {})
    /\ Truth(p, {})
    /\ UNCHANGED <<kernelVars, stale>>

\* fork, vfork or clone.  The child may run, and its lines come, before the creating
\* call returns: then the line of the call is split, and its first half is a line of p
\* like any other.  The pre-pass knows the child's parent from the start if the line
\* with the result is in the part of the trace that is read (`known`).
Clone(p, child, threads, known) ==
    /\ Runs(p)
    /\ child \notin alive
    /\ calls' = calls + 1
    /\ alive' = alive \cup {child}
    /\ family' = [family EXCEPT ![child] = p]
    /\ table' = [table EXCEPT ![child] = IF threads THEN table[p] ELSE child]
    /\ fds' = IF threads THEN fds ELSE [fds EXCEPT ![child] = fds[table[p]]]
    /\ blocked' = [blocked EXCEPT ![p] = child]
    /\ parents' = IF known THEN [parents EXCEPT ![child] = p] ELSE parents
    /\ gaps' = gaps \cup (IF threads THEN {"threads"} ELSE {})
                    \cup (IF known THEN {} ELSE {"cut"})
    /\ classes' = [classes EXCEPT ![p] = Inherited(p)]
    /\ stale' = [stale EXCEPT ![child] = stale[p]]
    /\ UNCHANGED <<authors, writers, activity, did>>

CloneReturns(p) ==
    LET child == blocked[p]
        entry == Inherited(p)
    IN  /\ child # NoPid
        /\ parents[child] = p
        /\ blocked' = [blocked EXCEPT ![p] = NoPid]
        /\ classes' = [classes EXCEPT ![p] = entry,
                            ![child] = IF @.seen THEN @ ELSE entry]
        /\ UNCHANGED <<calls, alive, family, table, fds, authors, parents, writers,
                       activity, did, stale, gaps>>

Next ==
    \E p \in Pids :
        \/ \E file \in Files : \E path \in Spellings[file], writing, cloexec, whole \in BOOLEAN :
                Open(p, file, path, writing, cloexec, whole)
        \/ \E fd \in Fds, after \in Descriptors : Untraced(p, fd, after)
        \/ \E fd \in Fds, whole \in BOOLEAN : Close(p, fd, whole) \/ Mmap(p, fd, whole)
        \/ \E old, new \in Fds, cloexec, whole, long \in BOOLEAN :
                Duplicate(p, old, new, cloexec, whole, long)
        \/ \E fd \in Fds, cloexec, whole, long \in BOOLEAN :
                SetCloexec(p, fd, cloexec, whole, long)
        \/ \E whole, at \in BOOLEAN : Exec(p, whole, at)
        \/ \E scope \in TracedScopes, completes, whole \in BOOLEAN :
                Connect(p, scope, completes, whole)
        \/ \E source, destination \in Files, whole \in BOOLEAN :
           \E from \in Spellings[source], to \in Spellings[destination] :
                Rename(p, source, destination, from, to, whole)
        \/ \E file \in Files, whole \in BOOLEAN : Unlink(p, file, whole)
        \/ FailedCall(p)
        \/ \E child \in Pids, threads, known \in BOOLEAN : Clone(p, child, threads, known)
        \/ CloneReturns(p)

Spec == Init /\ [][Next]_vars

-------------------------------------------------------------------------------
(* The summary                                                             *)

HasInput(p, input) == \E e \in activity[p] \cap Reads : e.what = input
HasOutput(p) == \E e \in activity[p] : e.what = "output"
HasNetwork(p) == Network \in activity[p]

Active == {p \in Pids : activity[p] # {}}

\* Faulty: ancestors without evidence of their own are left out.
RelevantActive == Active

\* relevant_pids: active processes and all their ancestors
Relevant == Active \cup UNION {Ancestors(p) : p \in Active}

\* parse_network_trace reads the same lines without their processes.
SuccessfulNonlocalEvents == \E p \in Pids : HasNetwork(p)

ParentProcess(p) == IF parents[p] \in Relevant THEN parents[p] ELSE NoPid

\* The processes behind ancestor_dependency_output and ancestor_cache_output, and
\* behind ancestor_network_cache_output, for which two ancestors will do.
AncestorInputOutput(input) ==
    {p \in Relevant : HasOutput(p) /\ \E a \in Ancestors(p) : HasInput(a, input)}

AncestorNetworkCacheOutput ==
    {p \in AncestorInputOutput("cache") : \E a \in Ancestors(p) : HasNetwork(a)}

-------------------------------------------------------------------------------
TypeOK ==
    /\ calls \in 0..MaxCalls
    /\ alive \subseteq Pids
    /\ family \in [Pids -> Pids \cup {NoPid}]
    /\ table \in [Pids -> Pids]
    /\ fds \in [Pids -> [Fds -> Descriptors]]
    /\ authors \in [Files -> SUBSET Pids]
    /\ blocked \in [Pids -> Pids \cup {NoPid}]
    /\ parents \in [Pids -> Pids \cup {NoPid}]
    /\ classes \in [Pids -> {Unseen} \cup [seen : {TRUE}, fds : [Fds -> FdClasses]]]
    /\ writers \in [Files -> SUBSET Pids]
    /\ activity \in [Pids -> SUBSET Evidence]
    /\ did \in [Pids -> SUBSET Evidence]
    /\ stale \in [Pids -> SUBSET Fds]
    /\ gaps \subseteq {"split", "threads", "cut", "lateEntry", "untraced", "stale",
                "misread", "alias", "overwritten", "removed", "inProgress"}

Mmaps == {e \in Reads : e.how = "mmap"}

\* A process is said to have mapped an input only if it has, however descriptors were
\* closed, duplicated, inherited, dropped at an exec and used again, as long as it went
\* through none whose change the parser missed, and tables are not shared between
\* threads; and whatever was missed, it or an ancestor is said to have opened such an
\* input.  Nothing can make up network traffic, and nothing but a name that reads as
\* something else an open or an output.
InputEvidenceIsReal ==
    \A p \in Pids :
        /\ "misread" \notin gaps => activity[p] \ (Mmaps \cup Publications) \subseteq did[p]
        /\ SuccessfulNonlocalEvents => \E q \in Pids : Network \in did[q]
        /\ gaps \cap {"threads", "lateEntry", "stale", "misread"} = {} =>
                activity[p] \cap Mmaps \subseteq did[p]
        /\ \A e \in activity[p] \cap Mmaps :
                \E a \in TrueAncestors(p) \cup {p} : Did(e.what, "read") \in activity[a]

\* The publication of a temporary file is laid to a process that wrote that file, or
\* to its kin, unless the name of an earlier file was taken over, kept its writers when
\* that file was removed, or stood for another file.
PublicationIsReal ==
    \A p \in Pids :
        gaps \cap {"split", "overwritten", "removed", "alias"} = {} =>
            activity[p] \cap Publications \subseteq did[p]

\* What makes the parser miss evidence; the other gaps only add to the writers it knows.
Losses == {"split", "threads", "cut", "lateEntry", "stale", "misread", "alias", "inProgress"}

\* A trace without losses misses nothing.
EvidenceIsComplete == gaps \cap Losses = {} => \A p \in Pids : did[p] \subseteq activity[p]

\* docs/architecture.md:207: descriptors "are followed across dup, dup2, and dup3".  Then
\* a trace of whole lines in which nothing but a descriptor is lost would miss no mapping.
DuplicatesAreFollowed ==
    gaps \subseteq {"stale"} =>
        \A p \in Pids : did[p] \cap Mmaps \subseteq activity[p]

\* The summary's process graph is closed under parents, depths grow by one along it,
\* and every process it calls an ancestor is one, also in a trace that was cut off.
LineageIsReal ==
    /\ \A p \in Relevant :
        parents[p] # NoPid =>
            /\ ParentProcess(p) = family[p]
            /\ LineageDepth(p) = LineageDepth(ParentProcess(p)) + 1
    /\ \A input \in Inputs : \A p \in AncestorInputOutput(input) :
            \E a \in TrueAncestors(p) : \E e \in activity[a] \cap Reads : e.what = input
    /\ \A p \in AncestorNetworkCacheOutput : \E a \in TrueAncestors(p) : Network \in did[a]
===============================================================================
