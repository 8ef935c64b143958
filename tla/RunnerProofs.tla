------------------------------- MODULE RunnerProofs -------------------------------
(***************************************************************************)
(* The runner, for every number of attempts, limit, cache and image, and   *)
(* every interleaving of its threads with the container.                   *)
(***************************************************************************)
EXTENDS Runner, TLAPS

-------------------------------------------------------------------------------
(* The cache records                                                       *)

LEMMA ClaimsAreClaims ==
    ASSUME NEW events, NEW before, NEW after
    PROVE  Claim(events, before, after)
                \in {"nothing", "fetched", "changed", "unchanged", "incomplete"}
BY DEF Claim

\* What a record of a wrapper that ran to its end says is true: summaries that were
\* not cut hold the whole cache.
RecordIsReal(r) ==
    /\ r \in Records
    /\ r.claim \in {"fetched", "changed"} => r.changed
    /\ r.claim = "fetched" => r.online
    /\ r.claim = "unchanged" => ~r.changed

LEMMA WholeIsReal ==
    ASSUME NEW r \in WholeRecords
    PROVE  RecordIsReal(r)
<1>1. PICK events \in 0..1, first \in SUBSET CacheFiles, last \in SUBSET CacheFiles :
            r \in RecordsOf(events, first, last, CacheSummaries(last))
  BY DEF WholeRecords
<1>2. PICK before \in CacheSummaries(first), after \in CacheSummaries(last) :
            r = [claim |-> Claim(events, before, after),
                 changed |-> first # last,
                 online |-> events > 0]
  BY <1>1 DEF RecordsOf
<1>3. /\ before.truncated \in BOOLEAN /\ after.truncated \in BOOLEAN
      /\ ~before.truncated => before.files = first
      /\ ~after.truncated => after.files = last
  BY DEF CacheSummaries, Summaries
<1>4. ChangedDuringBuild(before, after) => first # last
  BY <1>3 DEF ChangedDuringBuild, ComparisonComplete, ObservedChange
<1>5. ComparisonComplete(before, after) /\ ~ChangedDuringBuild(before, after) => first = last
  BY <1>3 DEF ChangedDuringBuild, ComparisonComplete, ObservedChange
<1>6. r \in Records
  BY <1>2, ClaimsAreClaims DEF Records
<1>7. /\ r.claim = "fetched" => r.online /\ r.changed
      /\ r.claim = "changed" => r.changed
      /\ r.claim = "unchanged" => ~r.changed
  BY <1>2, <1>4, <1>5 DEF Claim, Cooccurrence
<1> QED
  BY <1>6, <1>7 DEF RecordIsReal

LEMMA RecordsAreRecords ==
    ASSUME NEW r \in CacheRecords
    PROVE  r \in Records
<1>1. CASE r \in WholeRecords
  BY <1>1, WholeIsReal DEF RecordIsReal
<1>2. CASE r = NoRecord
  BY <1>2 DEF NoRecord, Records
<1>3. CASE r \in BrokenRecords
  <2>1. PICK events \in 0..1, first \in SUBSET CacheFiles, last \in SUBSET CacheFiles :
            r \in RecordsOf(events, first, last, {NoSummary})
    BY <1>3 DEF BrokenRecords
  <2>2. PICK before \in CacheSummaries(first), after \in {NoSummary} :
            r = [claim |-> Claim(events, before, after),
                 changed |-> first # last,
                 online |-> events > 0]
    BY <2>1 DEF RecordsOf
  <2> QED
    BY <2>2, ClaimsAreClaims DEF Records
<1> QED
  BY <1>1, <1>2, <1>3 DEF CacheRecords

-------------------------------------------------------------------------------
(* The invariant                                                           *)

\* A client runs only while the parent waits for it; the rest is checked by TLC as
\* it stands.
IInv ==
    /\ RunnerInv
    /\ client = "running" => pc = "wait"
    /\ CacheMutationIsReal

LEMMA Init_IInv == Init => IInv
<1> SUFFICES ASSUME Init PROVE IInv
  OBVIOUS
<1> USE RunnerAssumption DEF Init, Zero
<1>1. NoRecord \in Records
  BY DEF NoRecord, Records
<1>2. TypeOK
  <2>1. /\ 0 \in 0..MaxAttempts /\ 0 \in 0..Timeout /\ 0 \in 0..PipeCapacity
    OBVIOUS
  <2>2. /\ total \in [Streams -> Nat] /\ retained \in [Streams -> Nat]
        /\ written \in [Streams -> Nat] /\ pipe \in [Streams -> 0..PipeCapacity]
    BY <2>1
  <2>3. /\ reader \in [Streams -> {"reading", "ended", "broken"}]
        /\ resolved \in [References -> ImageIds \cup {Unknown}]
        /\ toolchains \in [ImageIds -> {"unprobed", "listed", "failed"}]
    OBVIOUS
  <2> QED
    BY <1>1, <2>1, <2>2, <2>3 DEF TypeOK
<1>3. StreamsConserved
  BY DEF StreamsConserved, Min2
<1>4. WatchdogContained /\ StageOrder /\ CachesHold
  BY DEF WatchdogContained, StageOrder, CachesHold, BecameEvidence, Answered
<1> QED
  BY <1>2, <1>3, <1>4 DEF IInv, RunnerInv, CacheMutationIsReal, BecameEvidence, Answered

\* Each conjunct is kept by every step.
LEMMA TypesKept ==
    ASSUME RunnerInv, [Next]_vars
    PROVE  TypeOK'
<1> USE DEF attemptVars, reportVars, imageVars, watchVars, readVars, boxVars
<1>1. CASE RunAttempt
  <2>1. NoRecord \in Records
    BY DEF NoRecord, Records
  <2>2. 0 \in 0..Timeout /\ 0 \in 0..PipeCapacity
    BY RunnerAssumption
  <2>3. /\ total' \in [Streams -> Nat] /\ retained' \in [Streams -> Nat]
        /\ written' \in [Streams -> Nat] /\ pipe' \in [Streams -> 0..PipeCapacity]
    BY <1>1, <2>2 DEF RunAttempt, Zero
  <2>4. reader' \in [Streams -> {"reading", "ended", "broken"}]
    BY <1>1 DEF RunAttempt
  <2>5. attempts' \in 0..MaxAttempts
    BY <1>1, RunnerAssumption DEF RunAttempt, RunnerInv, TypeOK
  <2> QED
    BY <1>1, <2>1, <2>2, <2>3, <2>4, <2>5 DEF RunAttempt, RunnerInv, TypeOK
<1>2. CASE EnsureImage
  BY <1>2, RunnerAssumption DEF EnsureImage, RunnerInv, TypeOK
<1>3. CASE ImageUnavailable
  BY <1>3, RunnerAssumption DEF ImageUnavailable, Answer, RunnerInv, TypeOK
<1>4. CASE ToolchainProvenance
  <2>1. PICK tools \in {"listed", "failed"} : toolchains' = [toolchains EXCEPT ![image] = tools]
    BY <1>4 DEF ToolchainProvenance
  <2>2. toolchains' \in [ImageIds -> {"unprobed", "listed", "failed"}]
    BY <2>1 DEF RunnerInv, TypeOK
  <2> QED
    BY <1>4, <2>2 DEF ToolchainProvenance, RunnerInv, TypeOK
<1>5. CASE PreparationError
  BY <1>5, RunnerAssumption DEF PreparationError, Answer, RunnerInv, TypeOK
<1>6. CASE Spawn
  BY <1>6, RunnerAssumption DEF Spawn, RunnerInv, TypeOK
<1>7. CASE WaitReturns
  BY <1>7, RunnerAssumption DEF WaitReturns, RunnerInv, TypeOK
<1>8. CASE StoreFinished
  BY <1>8, RunnerAssumption DEF StoreFinished, RunnerInv, TypeOK
<1>9. CASE JoinWatchdog
  BY <1>9, RunnerAssumption DEF JoinWatchdog, RunnerInv, TypeOK
<1>10. CASE ReaderFailed
  BY <1>10, RunnerAssumption DEF ReaderFailed, Answer, RunnerInv, TypeOK
<1>11. CASE ReadersJoined
  BY <1>11, RunnerAssumption DEF ReadersJoined, RunnerInv, TypeOK
<1>12. CASE TimeoutError
  BY <1>12, RunnerAssumption DEF TimeoutError, Answer, RunnerInv, TypeOK
<1>13. CASE BuildFailed
  <2>1. record' \in Records
    BY <1>13, RecordsAreRecords DEF BuildFailed, BuildSucceeded, Evidence
  <2>2. [reference |-> reference, image |-> image, tools |-> toolchains[image]]
            \in [reference : References, image : ImageIds, tools : {"listed", "failed"}]
    BY <1>13 DEF BuildFailed, BuildSucceeded, Evidence, RunnerInv, TypeOK, CachesHold
  <2> QED
    BY <1>13, <2>1, <2>2 DEF BuildFailed, BuildSucceeded, Evidence, Answer, RunnerInv,
       TypeOK
<1>14. CASE BuildSucceeded
  <2>1. record' \in Records
    BY <1>14, RecordsAreRecords DEF BuildFailed, BuildSucceeded, Evidence
  <2>2. [reference |-> reference, image |-> image, tools |-> toolchains[image]]
            \in [reference : References, image : ImageIds, tools : {"listed", "failed"}]
    BY <1>14 DEF BuildFailed, BuildSucceeded, Evidence, RunnerInv, TypeOK, CachesHold
  <2> QED
    BY <1>14, <2>1, <2>2 DEF BuildFailed, BuildSucceeded, Evidence, Answer, RunnerInv,
       TypeOK
<1>15. CASE ArtifactsMissing
  BY <1>15, RunnerAssumption DEF ArtifactsMissing, Answer, RunnerInv, TypeOK
<1>16. CASE WatchdogQuits
  BY <1>16, RunnerAssumption DEF WatchdogQuits, RunnerInv, TypeOK
<1>17. CASE WatchdogExpires
  BY <1>17, RunnerAssumption DEF WatchdogExpires, RunnerInv, TypeOK
<1>18. CASE KillReturns
  BY <1>18, RunnerAssumption DEF KillReturns, RunnerInv, TypeOK
<1>19. CASE Tick
  BY <1>19, RunnerAssumption DEF Tick, RunnerInv, TypeOK
<1>20. CASE ClientReturns
  BY <1>20, RunnerAssumption DEF ClientReturns, RunnerInv, TypeOK
<1>21. CASE ContainerStarts
  BY <1>21, RunnerAssumption DEF ContainerStarts, RunnerInv, TypeOK
<1>22. CASE ContainerDies
  BY <1>22, RunnerAssumption DEF ContainerDies, RunnerInv, TypeOK
<1>23. CASE RuntimeFails
  BY <1>23, RunnerAssumption DEF RuntimeFails, RunnerInv, TypeOK
<1>24. CASE KillLands
  BY <1>24, RunnerAssumption DEF KillLands, RunnerInv, TypeOK
<1>25. CASE \E s \in Streams : Drain(s)
  <2>1. PICK s \in Streams : Drain(s)
    BY <1>25
  <2>2. PICK read \in 1..pipe[s] :
        /\ pipe' = [pipe EXCEPT ![s] = pipe[s] - read]
        /\ total' = [total EXCEPT ![s] = total[s] + read]
        /\ retained' = [retained EXCEPT ![s] =
                retained[s] + Min2(read, Max2(LogLimit, retained[s]) - retained[s])]
    BY <2>1 DEF Drain
  <2>3. retained[s] \in Nat /\ total[s] \in Nat /\ pipe[s] \in 0..PipeCapacity /\ read \in Nat
    BY <2>2 DEF RunnerInv, TypeOK
  <2>4. retained[s] + Min2(read, Max2(LogLimit, retained[s]) - retained[s]) \in Nat
    BY <2>3, RunnerAssumption DEF Min2, Max2
  <2> QED
    BY <2>1, <2>2, <2>3, <2>4, RunnerAssumption DEF Drain, RunnerInv, TypeOK
<1>26. CASE \E s \in Streams : EndOfStream(s)
  BY <1>26, RunnerAssumption DEF EndOfStream, RunnerInv, TypeOK
<1>27. CASE \E s \in Streams : BuildWrites(s)
  BY <1>27, RunnerAssumption DEF BuildWrites, RunnerInv, TypeOK
<1>28. CASE \E s \in Streams : ReadError(s)
  BY <1>28, RunnerAssumption DEF ReadError, RunnerInv, TypeOK
<1>29. CASE \E status \in {"zero", "nonzero"} : BuildExits(status)
  BY <1>29, RunnerAssumption DEF BuildExits, RunnerInv, TypeOK
<1>30. CASE UNCHANGED vars
  BY <1>30, RunnerAssumption DEF vars, RunnerInv, TypeOK
<1> QED
  BY <1>1, <1>2, <1>3, <1>4, <1>5, <1>6, <1>7, <1>8, <1>9, <1>10, <1>11, <1>12, <1>13, <1>14,
     <1>15, <1>16, <1>17, <1>18, <1>19, <1>20, <1>21, <1>22, <1>23, <1>24, <1>25, <1>26,
     <1>27, <1>28, <1>29, <1>30
     DEF Next, Parent, Watchdog, Reader, Outside

LEMMA StreamsKept ==
    ASSUME RunnerInv, TypeOK', [Next]_vars
    PROVE  StreamsConserved'
<1> USE DEF attemptVars, reportVars, imageVars, watchVars, readVars, boxVars
<1>1. CASE RunAttempt
  BY <1>1, RunnerAssumption DEF RunAttempt, Zero, StreamsConserved, Min2
<1>2. CASE EnsureImage
  BY <1>2 DEF EnsureImage, RunnerInv, TypeOK, StageOrder, StreamsConserved
<1>3. CASE ImageUnavailable
  BY <1>3 DEF ImageUnavailable, Answer, RunnerInv, TypeOK, StageOrder, StreamsConserved
<1>4. CASE ToolchainProvenance
  BY <1>4 DEF ToolchainProvenance, RunnerInv, TypeOK, StageOrder, StreamsConserved
<1>5. CASE PreparationError
  BY <1>5 DEF PreparationError, Answer, RunnerInv, TypeOK, StageOrder, StreamsConserved
<1>6. CASE Spawn
  BY <1>6 DEF Spawn, RunnerInv, TypeOK, StageOrder, StreamsConserved
<1>7. CASE WaitReturns
  BY <1>7 DEF WaitReturns, RunnerInv, TypeOK, StageOrder, StreamsConserved
<1>8. CASE StoreFinished
  BY <1>8 DEF StoreFinished, RunnerInv, TypeOK, StageOrder, StreamsConserved
<1>9. CASE JoinWatchdog
  BY <1>9 DEF JoinWatchdog, RunnerInv, TypeOK, StageOrder, StreamsConserved
<1>10. CASE ReaderFailed
  BY <1>10 DEF ReaderFailed, Answer, RunnerInv, TypeOK, StageOrder, StreamsConserved
<1>11. CASE ReadersJoined
  BY <1>11 DEF ReadersJoined, RunnerInv, TypeOK, StageOrder, StreamsConserved
<1>12. CASE TimeoutError
  BY <1>12 DEF TimeoutError, Answer, RunnerInv, TypeOK, StageOrder, StreamsConserved
<1>13. CASE BuildFailed
  BY <1>13 DEF BuildFailed, Evidence, Answer, RunnerInv, TypeOK, StageOrder,
     StreamsConserved
<1>14. CASE BuildSucceeded
  BY <1>14 DEF BuildSucceeded, Evidence, Answer, RunnerInv, TypeOK, StageOrder,
     StreamsConserved
<1>15. CASE ArtifactsMissing
  BY <1>15 DEF ArtifactsMissing, Answer, RunnerInv, TypeOK, StageOrder, StreamsConserved
<1>16. CASE WatchdogQuits
  BY <1>16 DEF WatchdogQuits, RunnerInv, TypeOK, StageOrder, StreamsConserved
<1>17. CASE WatchdogExpires
  BY <1>17 DEF WatchdogExpires, RunnerInv, TypeOK, StageOrder, StreamsConserved
<1>18. CASE KillReturns
  BY <1>18 DEF KillReturns, RunnerInv, TypeOK, StageOrder, StreamsConserved
<1>19. CASE Tick
  BY <1>19 DEF Tick, RunnerInv, TypeOK, StageOrder, StreamsConserved
<1>20. CASE ClientReturns
  BY <1>20 DEF ClientReturns, RunnerInv, TypeOK, StageOrder, StreamsConserved
<1>21. CASE ContainerStarts
  BY <1>21 DEF ContainerStarts, RunnerInv, TypeOK, StageOrder, StreamsConserved
<1>22. CASE ContainerDies
  BY <1>22 DEF ContainerDies, RunnerInv, TypeOK, StageOrder, StreamsConserved
<1>23. CASE RuntimeFails
  BY <1>23 DEF RuntimeFails, RunnerInv, TypeOK, StageOrder, StreamsConserved
<1>24. CASE KillLands
  BY <1>24 DEF KillLands, RunnerInv, TypeOK, StageOrder, StreamsConserved
<1>25. CASE \E s \in Streams : Drain(s)
  <2>1. PICK s \in Streams : Drain(s)
    BY <1>25
  <2>2. PICK read \in 1..pipe[s] :
        /\ pipe' = [pipe EXCEPT ![s] = pipe[s] - read]
        /\ total' = [total EXCEPT ![s] = total[s] + read]
        /\ retained' = [retained EXCEPT ![s] =
                retained[s] + Min2(read, Max2(LogLimit, retained[s]) - retained[s])]
    BY <2>1 DEF Drain
  <2>3. retained[s] \in Nat /\ total[s] \in Nat /\ pipe[s] \in Nat /\ read \in Nat
    BY <2>2, RunnerAssumption DEF RunnerInv, TypeOK
  <2>4. retained[s] + Min2(read, Max2(LogLimit, retained[s]) - retained[s])
            = Min2(total[s] + read, LogLimit)
    BY <2>3, RunnerAssumption DEF Min2, Max2, RunnerInv, StreamsConserved
  <2>5. /\ \A t \in Streams \ {s} : pipe'[t] = pipe[t] /\ total'[t] = total[t]
                                    /\ retained'[t] = retained[t]
        /\ pipe'[s] = pipe[s] - read /\ total'[s] = total[s] + read
        /\ retained'[s] = Min2(total[s] + read, LogLimit)
    BY <2>2, <2>4 DEF RunnerInv, TypeOK
  <2>6. UNCHANGED <<reader, written, client>> /\ reader[s] = "reading"
    BY <2>1 DEF Drain
  <2>7. written[s] = total[s] + pipe[s]
    BY <2>6 DEF RunnerInv, StreamsConserved
  <2>8. written'[s] = total'[s] + pipe'[s]
    BY <2>3, <2>5, <2>6, <2>7
  <2> QED
    BY <2>5, <2>6, <2>8 DEF RunnerInv, StreamsConserved
<1>26. CASE \E s \in Streams : EndOfStream(s)
  BY <1>26 DEF EndOfStream, RunnerInv, TypeOK, StageOrder, StreamsConserved
<1>27. CASE \E s \in Streams : BuildWrites(s)
  BY <1>27 DEF BuildWrites, RunnerInv, TypeOK, StageOrder, StreamsConserved
<1>28. CASE \E s \in Streams : ReadError(s)
  <2>1. PICK s \in Streams : ReadError(s)
    BY <1>28
  <2>2. /\ reader'[s] = "broken" /\ total'[s] = 0 /\ retained'[s] = 0
        /\ \A t \in Streams \ {s} : /\ reader'[t] = reader[t] /\ total'[t] = total[t]
                                    /\ retained'[t] = retained[t] /\ pipe'[t] = pipe[t]
        /\ UNCHANGED <<written, client>>
    BY <2>1 DEF ReadError, RunnerInv, TypeOK
  <2>3. retained'[s] = Min2(total'[s], LogLimit)
    BY <2>2, RunnerAssumption DEF Min2
  <2> QED
    BY <2>2, <2>3 DEF RunnerInv, StreamsConserved
<1>29. CASE \E status \in {"zero", "nonzero"} : BuildExits(status)
  BY <1>29 DEF BuildExits, RunnerInv, TypeOK, StageOrder, StreamsConserved
<1>30. CASE UNCHANGED vars
  BY <1>30 DEF vars, RunnerInv, TypeOK, StageOrder, StreamsConserved
<1> QED
  BY <1>1, <1>2, <1>3, <1>4, <1>5, <1>6, <1>7, <1>8, <1>9, <1>10, <1>11, <1>12, <1>13, <1>14,
     <1>15, <1>16, <1>17, <1>18, <1>19, <1>20, <1>21, <1>22, <1>23, <1>24, <1>25, <1>26,
     <1>27, <1>28, <1>29, <1>30
     DEF Next, Parent, Watchdog, Reader, Outside

LEMMA WatchdogKept ==
    ASSUME IInv, [Next]_vars
    PROVE  WatchdogContained'
<1> USE DEF attemptVars, reportVars, imageVars, watchVars, readVars, boxVars
<1>1. CASE RunAttempt
  BY <1>1, RunnerAssumption DEF RunAttempt, IInv, RunnerInv, TypeOK, WatchdogContained,
     StageOrder
<1>2. CASE EnsureImage
  BY <1>2, RunnerAssumption DEF EnsureImage, IInv, RunnerInv, TypeOK, WatchdogContained,
     StageOrder
<1>3. CASE ImageUnavailable
  BY <1>3, RunnerAssumption DEF ImageUnavailable, Answer, IInv, RunnerInv, TypeOK,
     WatchdogContained, StageOrder
<1>4. CASE ToolchainProvenance
  BY <1>4, RunnerAssumption DEF ToolchainProvenance, IInv, RunnerInv, TypeOK,
     WatchdogContained, StageOrder
<1>5. CASE PreparationError
  BY <1>5, RunnerAssumption DEF PreparationError, Answer, IInv, RunnerInv, TypeOK,
     WatchdogContained, StageOrder
<1>6. CASE Spawn
  BY <1>6, RunnerAssumption DEF Spawn, IInv, RunnerInv, TypeOK, WatchdogContained,
     StageOrder
<1>7. CASE WaitReturns
  BY <1>7, RunnerAssumption DEF WaitReturns, IInv, RunnerInv, TypeOK, WatchdogContained,
     StageOrder
<1>8. CASE StoreFinished
  BY <1>8, RunnerAssumption DEF StoreFinished, IInv, RunnerInv, TypeOK, WatchdogContained,
     StageOrder
<1>9. CASE JoinWatchdog
  BY <1>9, RunnerAssumption DEF JoinWatchdog, IInv, RunnerInv, TypeOK, WatchdogContained,
     StageOrder
<1>10. CASE ReaderFailed
  BY <1>10, RunnerAssumption DEF ReaderFailed, Answer, IInv, RunnerInv, TypeOK,
     WatchdogContained, StageOrder
<1>11. CASE ReadersJoined
  BY <1>11, RunnerAssumption DEF ReadersJoined, IInv, RunnerInv, TypeOK, WatchdogContained,
     StageOrder
<1>12. CASE TimeoutError
  BY <1>12, RunnerAssumption DEF TimeoutError, Answer, IInv, RunnerInv, TypeOK,
     WatchdogContained, StageOrder
<1>13. CASE BuildFailed
  BY <1>13, RunnerAssumption DEF BuildFailed, Evidence, Answer, IInv, RunnerInv, TypeOK,
     WatchdogContained, StageOrder
<1>14. CASE BuildSucceeded
  BY <1>14, RunnerAssumption DEF BuildSucceeded, Evidence, Answer, IInv, RunnerInv, TypeOK,
     WatchdogContained, StageOrder
<1>15. CASE ArtifactsMissing
  BY <1>15, RunnerAssumption DEF ArtifactsMissing, Answer, IInv, RunnerInv, TypeOK,
     WatchdogContained, StageOrder
<1>16. CASE WatchdogQuits
  BY <1>16, RunnerAssumption DEF WatchdogQuits, IInv, RunnerInv, TypeOK, WatchdogContained,
     StageOrder
<1>17. CASE WatchdogExpires
  BY <1>17, RunnerAssumption DEF WatchdogExpires, IInv, RunnerInv, TypeOK,
     WatchdogContained, StageOrder
<1>18. CASE KillReturns
  BY <1>18, RunnerAssumption DEF KillReturns, IInv, RunnerInv, TypeOK, WatchdogContained,
     StageOrder
<1>19. CASE Tick
  BY <1>19, RunnerAssumption DEF Tick, IInv, RunnerInv, TypeOK, WatchdogContained,
     StageOrder
<1>20. CASE ClientReturns
  BY <1>20, RunnerAssumption DEF ClientReturns, IInv, RunnerInv, TypeOK, WatchdogContained,
     StageOrder
<1>21. CASE ContainerStarts
  BY <1>21, RunnerAssumption DEF ContainerStarts, IInv, RunnerInv, TypeOK,
     WatchdogContained, StageOrder
<1>22. CASE ContainerDies
  BY <1>22, RunnerAssumption DEF ContainerDies, IInv, RunnerInv, TypeOK, WatchdogContained,
     StageOrder
<1>23. CASE RuntimeFails
  BY <1>23, RunnerAssumption DEF RuntimeFails, IInv, RunnerInv, TypeOK, WatchdogContained,
     StageOrder
<1>24. CASE KillLands
  BY <1>24, RunnerAssumption DEF KillLands, IInv, RunnerInv, TypeOK, WatchdogContained,
     StageOrder
<1>25. CASE \E s \in Streams : Drain(s)
  BY <1>25, RunnerAssumption DEF Drain, IInv, RunnerInv, TypeOK, WatchdogContained,
     StageOrder
<1>26. CASE \E s \in Streams : EndOfStream(s)
  BY <1>26, RunnerAssumption DEF EndOfStream, IInv, RunnerInv, TypeOK, WatchdogContained,
     StageOrder
<1>27. CASE \E s \in Streams : BuildWrites(s)
  BY <1>27, RunnerAssumption DEF BuildWrites, IInv, RunnerInv, TypeOK, WatchdogContained,
     StageOrder
<1>28. CASE \E s \in Streams : ReadError(s)
  BY <1>28, RunnerAssumption DEF ReadError, IInv, RunnerInv, TypeOK, WatchdogContained,
     StageOrder
<1>29. CASE \E status \in {"zero", "nonzero"} : BuildExits(status)
  BY <1>29, RunnerAssumption DEF BuildExits, IInv, RunnerInv, TypeOK, WatchdogContained,
     StageOrder
<1>30. CASE UNCHANGED vars
  BY <1>30, RunnerAssumption DEF vars, IInv, RunnerInv, TypeOK, WatchdogContained,
     StageOrder
<1> QED
  BY <1>1, <1>2, <1>3, <1>4, <1>5, <1>6, <1>7, <1>8, <1>9, <1>10, <1>11, <1>12, <1>13, <1>14,
     <1>15, <1>16, <1>17, <1>18, <1>19, <1>20, <1>21, <1>22, <1>23, <1>24, <1>25, <1>26,
     <1>27, <1>28, <1>29, <1>30
     DEF Next, Parent, Watchdog, Reader, Outside

LEMMA StagesKept ==
    ASSUME IInv, TypeOK', [Next]_vars
    PROVE  StageOrder' /\ (client' = "running" => pc' = "wait")
<1> USE DEF attemptVars, reportVars, imageVars, watchVars, readVars, boxVars
<1>1. CASE RunAttempt
  BY <1>1, RunnerAssumption DEF RunAttempt, IInv, RunnerInv, TypeOK, WatchdogContained,
     StageOrder, BecameEvidence, Answered, TimedOut, Zero
<1>2. CASE EnsureImage
  BY <1>2, RunnerAssumption DEF EnsureImage, IInv, RunnerInv, TypeOK, WatchdogContained,
     StageOrder, BecameEvidence, Answered, TimedOut, Zero
<1>3. CASE ImageUnavailable
  BY <1>3, RunnerAssumption DEF ImageUnavailable, Answer, IInv, RunnerInv, TypeOK,
     WatchdogContained, StageOrder, BecameEvidence, Answered, TimedOut, Zero
<1>4. CASE ToolchainProvenance
  BY <1>4, RunnerAssumption DEF ToolchainProvenance, IInv, RunnerInv, TypeOK,
     WatchdogContained, StageOrder, BecameEvidence, Answered, TimedOut, Zero
<1>5. CASE PreparationError
  BY <1>5, RunnerAssumption DEF PreparationError, Answer, IInv, RunnerInv, TypeOK,
     WatchdogContained, StageOrder, BecameEvidence, Answered, TimedOut, Zero
<1>6. CASE Spawn
  BY <1>6, RunnerAssumption DEF Spawn, IInv, RunnerInv, TypeOK, WatchdogContained,
     StageOrder, BecameEvidence, Answered, TimedOut, Zero
<1>7. CASE WaitReturns
  BY <1>7, RunnerAssumption DEF WaitReturns, IInv, RunnerInv, TypeOK, WatchdogContained,
     StageOrder, BecameEvidence, Answered, TimedOut, Zero
<1>8. CASE StoreFinished
  BY <1>8, RunnerAssumption DEF StoreFinished, IInv, RunnerInv, TypeOK, WatchdogContained,
     StageOrder, BecameEvidence, Answered, TimedOut, Zero
<1>9. CASE JoinWatchdog
  BY <1>9, RunnerAssumption DEF JoinWatchdog, IInv, RunnerInv, TypeOK, WatchdogContained,
     StageOrder, BecameEvidence, Answered, TimedOut, Zero
<1>10. CASE ReaderFailed
  BY <1>10, RunnerAssumption DEF ReaderFailed, Answer, IInv, RunnerInv, TypeOK,
     WatchdogContained, StageOrder, BecameEvidence, Answered, TimedOut, Zero
<1>11. CASE ReadersJoined
  BY <1>11, RunnerAssumption DEF ReadersJoined, IInv, RunnerInv, TypeOK, WatchdogContained,
     StageOrder, BecameEvidence, Answered, TimedOut, Zero
<1>12. CASE TimeoutError
  BY <1>12, RunnerAssumption DEF TimeoutError, Answer, IInv, RunnerInv, TypeOK,
     WatchdogContained, StageOrder, BecameEvidence, Answered, TimedOut, Zero
<1>13. CASE BuildFailed
  BY <1>13, RunnerAssumption DEF BuildFailed, Evidence, Answer, IInv, RunnerInv, TypeOK,
     WatchdogContained, StageOrder, BecameEvidence, Answered, TimedOut, Zero
<1>14. CASE BuildSucceeded
  BY <1>14, RunnerAssumption DEF BuildSucceeded, Evidence, Answer, IInv, RunnerInv, TypeOK,
     WatchdogContained, StageOrder, BecameEvidence, Answered, TimedOut, Zero
<1>15. CASE ArtifactsMissing
  BY <1>15, RunnerAssumption DEF ArtifactsMissing, Answer, IInv, RunnerInv, TypeOK,
     WatchdogContained, StageOrder, BecameEvidence, Answered, TimedOut, Zero
<1>16. CASE WatchdogQuits
  BY <1>16, RunnerAssumption DEF WatchdogQuits, IInv, RunnerInv, TypeOK, WatchdogContained,
     StageOrder, BecameEvidence, Answered, TimedOut, Zero
<1>17. CASE WatchdogExpires
  BY <1>17, RunnerAssumption DEF WatchdogExpires, IInv, RunnerInv, TypeOK,
     WatchdogContained, StageOrder, BecameEvidence, Answered, TimedOut, Zero
<1>18. CASE KillReturns
  BY <1>18, RunnerAssumption DEF KillReturns, IInv, RunnerInv, TypeOK, WatchdogContained,
     StageOrder, BecameEvidence, Answered, TimedOut, Zero
<1>19. CASE Tick
  BY <1>19, RunnerAssumption DEF Tick, IInv, RunnerInv, TypeOK, WatchdogContained,
     StageOrder, BecameEvidence, Answered, TimedOut, Zero
<1>20. CASE ClientReturns
  BY <1>20, RunnerAssumption DEF ClientReturns, IInv, RunnerInv, TypeOK, WatchdogContained,
     StageOrder, BecameEvidence, Answered, TimedOut, Zero
<1>21. CASE ContainerStarts
  BY <1>21, RunnerAssumption DEF ContainerStarts, IInv, RunnerInv, TypeOK,
     WatchdogContained, StageOrder, BecameEvidence, Answered, TimedOut, Zero
<1>22. CASE ContainerDies
  BY <1>22, RunnerAssumption DEF ContainerDies, IInv, RunnerInv, TypeOK, WatchdogContained,
     StageOrder, BecameEvidence, Answered, TimedOut, Zero
<1>23. CASE RuntimeFails
  BY <1>23, RunnerAssumption DEF RuntimeFails, IInv, RunnerInv, TypeOK, WatchdogContained,
     StageOrder, BecameEvidence, Answered, TimedOut, Zero
<1>24. CASE KillLands
  BY <1>24, RunnerAssumption DEF KillLands, IInv, RunnerInv, TypeOK, WatchdogContained,
     StageOrder, BecameEvidence, Answered, TimedOut, Zero
<1>25. CASE \E s \in Streams : Drain(s)
  BY <1>25, RunnerAssumption DEF Drain, IInv, RunnerInv, TypeOK, WatchdogContained,
     StageOrder, BecameEvidence, Answered, TimedOut, Zero
<1>26. CASE \E s \in Streams : EndOfStream(s)
  BY <1>26, RunnerAssumption DEF EndOfStream, IInv, RunnerInv, TypeOK, WatchdogContained,
     StageOrder, BecameEvidence, Answered, TimedOut, Zero
<1>27. CASE \E s \in Streams : BuildWrites(s)
  BY <1>27, RunnerAssumption DEF BuildWrites, IInv, RunnerInv, TypeOK, WatchdogContained,
     StageOrder, BecameEvidence, Answered, TimedOut, Zero
<1>28. CASE \E s \in Streams : ReadError(s)
  BY <1>28, RunnerAssumption DEF ReadError, IInv, RunnerInv, TypeOK, WatchdogContained,
     StageOrder, BecameEvidence, Answered, TimedOut, Zero
<1>29. CASE \E status \in {"zero", "nonzero"} : BuildExits(status)
  BY <1>29, RunnerAssumption DEF BuildExits, IInv, RunnerInv, TypeOK, WatchdogContained,
     StageOrder, BecameEvidence, Answered, TimedOut, Zero
<1>30. CASE UNCHANGED vars
  BY <1>30, RunnerAssumption DEF vars, IInv, RunnerInv, TypeOK, WatchdogContained,
     StageOrder, BecameEvidence, Answered, TimedOut, Zero
<1> QED
  BY <1>1, <1>2, <1>3, <1>4, <1>5, <1>6, <1>7, <1>8, <1>9, <1>10, <1>11, <1>12, <1>13, <1>14,
     <1>15, <1>16, <1>17, <1>18, <1>19, <1>20, <1>21, <1>22, <1>23, <1>24, <1>25, <1>26,
     <1>27, <1>28, <1>29, <1>30
     DEF Next, Parent, Watchdog, Reader, Outside

LEMMA CachesKept ==
    ASSUME IInv, [Next]_vars
    PROVE  CachesHold'
<1> USE DEF attemptVars, reportVars, imageVars, watchVars, readVars, boxVars
<1>1. CASE RunAttempt
  BY <1>1, RunnerAssumption DEF RunAttempt, IInv, RunnerInv, TypeOK, CachesHold
<1>2. CASE EnsureImage
  BY <1>2, RunnerAssumption DEF EnsureImage, IInv, RunnerInv, TypeOK, CachesHold
<1>3. CASE ImageUnavailable
  BY <1>3, RunnerAssumption DEF ImageUnavailable, Answer, IInv, RunnerInv, TypeOK,
     CachesHold
<1>4. CASE ToolchainProvenance
  BY <1>4, RunnerAssumption DEF ToolchainProvenance, IInv, RunnerInv, TypeOK, CachesHold
<1>5. CASE PreparationError
  BY <1>5, RunnerAssumption DEF PreparationError, Answer, IInv, RunnerInv, TypeOK,
     CachesHold
<1>6. CASE Spawn
  BY <1>6, RunnerAssumption DEF Spawn, IInv, RunnerInv, TypeOK, CachesHold
<1>7. CASE WaitReturns
  BY <1>7, RunnerAssumption DEF WaitReturns, IInv, RunnerInv, TypeOK, CachesHold
<1>8. CASE StoreFinished
  BY <1>8, RunnerAssumption DEF StoreFinished, IInv, RunnerInv, TypeOK, CachesHold
<1>9. CASE JoinWatchdog
  BY <1>9, RunnerAssumption DEF JoinWatchdog, IInv, RunnerInv, TypeOK, CachesHold
<1>10. CASE ReaderFailed
  BY <1>10, RunnerAssumption DEF ReaderFailed, Answer, IInv, RunnerInv, TypeOK, CachesHold
<1>11. CASE ReadersJoined
  BY <1>11, RunnerAssumption DEF ReadersJoined, IInv, RunnerInv, TypeOK, CachesHold
<1>12. CASE TimeoutError
  BY <1>12, RunnerAssumption DEF TimeoutError, Answer, IInv, RunnerInv, TypeOK, CachesHold
<1>13. CASE BuildFailed
  BY <1>13, RunnerAssumption DEF BuildFailed, Evidence, Answer, IInv, RunnerInv, TypeOK,
     CachesHold
<1>14. CASE BuildSucceeded
  BY <1>14, RunnerAssumption DEF BuildSucceeded, Evidence, Answer, IInv, RunnerInv, TypeOK,
     CachesHold
<1>15. CASE ArtifactsMissing
  BY <1>15, RunnerAssumption DEF ArtifactsMissing, Answer, IInv, RunnerInv, TypeOK,
     CachesHold
<1>16. CASE WatchdogQuits
  BY <1>16, RunnerAssumption DEF WatchdogQuits, IInv, RunnerInv, TypeOK, CachesHold
<1>17. CASE WatchdogExpires
  BY <1>17, RunnerAssumption DEF WatchdogExpires, IInv, RunnerInv, TypeOK, CachesHold
<1>18. CASE KillReturns
  BY <1>18, RunnerAssumption DEF KillReturns, IInv, RunnerInv, TypeOK, CachesHold
<1>19. CASE Tick
  BY <1>19, RunnerAssumption DEF Tick, IInv, RunnerInv, TypeOK, CachesHold
<1>20. CASE ClientReturns
  BY <1>20, RunnerAssumption DEF ClientReturns, IInv, RunnerInv, TypeOK, CachesHold
<1>21. CASE ContainerStarts
  BY <1>21, RunnerAssumption DEF ContainerStarts, IInv, RunnerInv, TypeOK, CachesHold
<1>22. CASE ContainerDies
  BY <1>22, RunnerAssumption DEF ContainerDies, IInv, RunnerInv, TypeOK, CachesHold
<1>23. CASE RuntimeFails
  BY <1>23, RunnerAssumption DEF RuntimeFails, IInv, RunnerInv, TypeOK, CachesHold
<1>24. CASE KillLands
  BY <1>24, RunnerAssumption DEF KillLands, IInv, RunnerInv, TypeOK, CachesHold
<1>25. CASE \E s \in Streams : Drain(s)
  BY <1>25, RunnerAssumption DEF Drain, IInv, RunnerInv, TypeOK, CachesHold
<1>26. CASE \E s \in Streams : EndOfStream(s)
  BY <1>26, RunnerAssumption DEF EndOfStream, IInv, RunnerInv, TypeOK, CachesHold
<1>27. CASE \E s \in Streams : BuildWrites(s)
  BY <1>27, RunnerAssumption DEF BuildWrites, IInv, RunnerInv, TypeOK, CachesHold
<1>28. CASE \E s \in Streams : ReadError(s)
  BY <1>28, RunnerAssumption DEF ReadError, IInv, RunnerInv, TypeOK, CachesHold
<1>29. CASE \E status \in {"zero", "nonzero"} : BuildExits(status)
  BY <1>29, RunnerAssumption DEF BuildExits, IInv, RunnerInv, TypeOK, CachesHold
<1>30. CASE UNCHANGED vars
  BY <1>30, RunnerAssumption DEF vars, IInv, RunnerInv, TypeOK, CachesHold
<1> QED
  BY <1>1, <1>2, <1>3, <1>4, <1>5, <1>6, <1>7, <1>8, <1>9, <1>10, <1>11, <1>12, <1>13, <1>14,
     <1>15, <1>16, <1>17, <1>18, <1>19, <1>20, <1>21, <1>22, <1>23, <1>24, <1>25, <1>26,
     <1>27, <1>28, <1>29, <1>30
     DEF Next, Parent, Watchdog, Reader, Outside

LEMMA RecordsKept ==
    ASSUME IInv, [Next]_vars
    PROVE  CacheMutationIsReal'
<1> USE DEF attemptVars, reportVars, imageVars, watchVars, readVars, boxVars
<1>1. CASE RunAttempt
  BY <1>1 DEF RunAttempt, IInv, RunnerInv, StageOrder, WatchdogContained,
     CacheMutationIsReal, BecameEvidence, Answered
<1>2. CASE EnsureImage
  BY <1>2 DEF EnsureImage, IInv, RunnerInv, StageOrder, WatchdogContained,
     CacheMutationIsReal, BecameEvidence, Answered
<1>3. CASE ImageUnavailable
  BY <1>3 DEF ImageUnavailable, Answer, IInv, RunnerInv, StageOrder, WatchdogContained,
     CacheMutationIsReal, BecameEvidence, Answered
<1>4. CASE ToolchainProvenance
  BY <1>4 DEF ToolchainProvenance, IInv, RunnerInv, StageOrder, WatchdogContained,
     CacheMutationIsReal, BecameEvidence, Answered
<1>5. CASE PreparationError
  BY <1>5 DEF PreparationError, Answer, IInv, RunnerInv, StageOrder, WatchdogContained,
     CacheMutationIsReal, BecameEvidence, Answered
<1>6. CASE Spawn
  BY <1>6 DEF Spawn, IInv, RunnerInv, StageOrder, WatchdogContained, CacheMutationIsReal,
     BecameEvidence, Answered
<1>7. CASE WaitReturns
  BY <1>7 DEF WaitReturns, IInv, RunnerInv, StageOrder, WatchdogContained,
     CacheMutationIsReal, BecameEvidence, Answered
<1>8. CASE StoreFinished
  BY <1>8 DEF StoreFinished, IInv, RunnerInv, StageOrder, WatchdogContained,
     CacheMutationIsReal, BecameEvidence, Answered
<1>9. CASE JoinWatchdog
  BY <1>9 DEF JoinWatchdog, IInv, RunnerInv, StageOrder, WatchdogContained,
     CacheMutationIsReal, BecameEvidence, Answered
<1>10. CASE ReaderFailed
  BY <1>10 DEF ReaderFailed, Answer, IInv, RunnerInv, StageOrder, WatchdogContained,
     CacheMutationIsReal, BecameEvidence, Answered
<1>11. CASE ReadersJoined
  BY <1>11 DEF ReadersJoined, IInv, RunnerInv, StageOrder, WatchdogContained,
     CacheMutationIsReal, BecameEvidence, Answered
<1>12. CASE TimeoutError
  BY <1>12 DEF TimeoutError, Answer, IInv, RunnerInv, StageOrder, WatchdogContained,
     CacheMutationIsReal, BecameEvidence, Answered
<1>13. CASE BuildFailed
  <2>1. record' \in CacheRecords /\ UNCHANGED container
    BY <1>13 DEF BuildFailed, BuildSucceeded, Evidence
  <2>2. container \in {"zero", "nonzero"} => RecordIsReal(record')
    BY <2>1, WholeIsReal DEF CacheRecords
  <2> QED
    BY <2>1, <2>2 DEF CacheMutationIsReal, RecordIsReal
<1>14. CASE BuildSucceeded
  <2>1. record' \in CacheRecords /\ UNCHANGED container
    BY <1>14 DEF BuildFailed, BuildSucceeded, Evidence
  <2>2. container \in {"zero", "nonzero"} => RecordIsReal(record')
    BY <2>1, WholeIsReal DEF CacheRecords
  <2> QED
    BY <2>1, <2>2 DEF CacheMutationIsReal, RecordIsReal
<1>15. CASE ArtifactsMissing
  BY <1>15 DEF ArtifactsMissing, Answer, IInv, RunnerInv, StageOrder, WatchdogContained,
     CacheMutationIsReal, BecameEvidence, Answered
<1>16. CASE WatchdogQuits
  BY <1>16 DEF WatchdogQuits, IInv, RunnerInv, StageOrder, WatchdogContained,
     CacheMutationIsReal, BecameEvidence, Answered
<1>17. CASE WatchdogExpires
  BY <1>17 DEF WatchdogExpires, IInv, RunnerInv, StageOrder, WatchdogContained,
     CacheMutationIsReal, BecameEvidence, Answered
<1>18. CASE KillReturns
  BY <1>18 DEF KillReturns, IInv, RunnerInv, StageOrder, WatchdogContained,
     CacheMutationIsReal, BecameEvidence, Answered
<1>19. CASE Tick
  BY <1>19 DEF Tick, IInv, RunnerInv, StageOrder, WatchdogContained, CacheMutationIsReal,
     BecameEvidence, Answered
<1>20. CASE ClientReturns
  BY <1>20 DEF ClientReturns, IInv, RunnerInv, StageOrder, WatchdogContained,
     CacheMutationIsReal, BecameEvidence, Answered
<1>21. CASE ContainerStarts
  BY <1>21 DEF ContainerStarts, IInv, RunnerInv, StageOrder, WatchdogContained,
     CacheMutationIsReal, BecameEvidence, Answered
<1>22. CASE ContainerDies
  BY <1>22 DEF ContainerDies, IInv, RunnerInv, StageOrder, WatchdogContained,
     CacheMutationIsReal, BecameEvidence, Answered
<1>23. CASE RuntimeFails
  BY <1>23 DEF RuntimeFails, IInv, RunnerInv, StageOrder, WatchdogContained,
     CacheMutationIsReal, BecameEvidence, Answered
<1>24. CASE KillLands
  BY <1>24 DEF KillLands, IInv, RunnerInv, StageOrder, WatchdogContained,
     CacheMutationIsReal, BecameEvidence, Answered
<1>25. CASE \E s \in Streams : Drain(s)
  BY <1>25 DEF Drain, IInv, RunnerInv, StageOrder, WatchdogContained, CacheMutationIsReal,
     BecameEvidence, Answered
<1>26. CASE \E s \in Streams : EndOfStream(s)
  BY <1>26 DEF EndOfStream, IInv, RunnerInv, StageOrder, WatchdogContained,
     CacheMutationIsReal, BecameEvidence, Answered
<1>27. CASE \E s \in Streams : BuildWrites(s)
  BY <1>27 DEF BuildWrites, IInv, RunnerInv, StageOrder, WatchdogContained,
     CacheMutationIsReal, BecameEvidence, Answered
<1>28. CASE \E s \in Streams : ReadError(s)
  BY <1>28 DEF ReadError, IInv, RunnerInv, StageOrder, WatchdogContained,
     CacheMutationIsReal, BecameEvidence, Answered
<1>29. CASE \E status \in {"zero", "nonzero"} : BuildExits(status)
  BY <1>29 DEF BuildExits, IInv, RunnerInv, StageOrder, WatchdogContained,
     CacheMutationIsReal, BecameEvidence, Answered
<1>30. CASE UNCHANGED vars
  BY <1>30 DEF vars, IInv, RunnerInv, StageOrder, WatchdogContained, CacheMutationIsReal,
     BecameEvidence, Answered
<1> QED
  BY <1>1, <1>2, <1>3, <1>4, <1>5, <1>6, <1>7, <1>8, <1>9, <1>10, <1>11, <1>12, <1>13, <1>14,
     <1>15, <1>16, <1>17, <1>18, <1>19, <1>20, <1>21, <1>22, <1>23, <1>24, <1>25, <1>26,
     <1>27, <1>28, <1>29, <1>30
     DEF Next, Parent, Watchdog, Reader, Outside

LEMMA Next_IInv == IInv /\ [Next]_vars => IInv'
<1> SUFFICES ASSUME IInv, [Next]_vars PROVE IInv'
  OBVIOUS
<1>1. RunnerInv
  BY DEF IInv
<1>2. TypeOK'
  BY <1>1, TypesKept
<1> QED
  BY <1>1, <1>2, StreamsKept, WatchdogKept, StagesKept, CachesKept, RecordsKept
     DEF IInv, RunnerInv

-------------------------------------------------------------------------------
(* The theorems                                                            *)

\* For every instance: no byte is lost or made up between build and captured stream,
\* the watchdog lives within the wait, and evidence repeats the runner's caches
\* (run_attempt, drain_bounded_stream, ensure_image, toolchain_provenance).
THEOREM RunnerInvariant == Spec => []RunnerInv
<1>1. Init => IInv
  BY Init_IInv
<1>2. IInv /\ [Next]_vars => IInv'
  BY Next_IInv
<1>3. IInv => RunnerInv
  BY DEF IInv
<1> QED
  BY <1>1, <1>2, <1>3, PTL DEF Spec

\* However the kill, the end of the build and the parent's wait interleave, a killed
\* build becomes no evidence (run_attempt's `finished` flag and joins).
THEOREM KilledIsNeverEvidence == Spec => []VerdictMatchesKill
<1>1. Init => IInv
  BY Init_IInv
<1>2. IInv /\ [Next]_vars => IInv'
  BY Next_IInv
<1>3. IInv => VerdictMatchesKill
  BY DEF IInv, RunnerInv, VerdictMatchesKill, WatchdogContained, StageOrder, TimedOut
<1> QED
  BY <1>1, <1>2, <1>3, PTL DEF Spec

\* For every limit, pipe and amount of output the size and digest reported cover
\* every byte written (drain_bounded_stream).
THEOREM CaptureIsComplete == Spec => []CaptureComplete
<1>1. Init => IInv
  BY Init_IInv
<1>2. IInv /\ [Next]_vars => IInv'
  BY Next_IInv
<1>3. IInv => CaptureComplete
  BY DEF IInv, RunnerInv, TypeOK, CaptureComplete, StreamsConserved, StageOrder
<1> QED
  BY <1>1, <1>2, <1>3, PTL DEF Spec

\* For any number of attempts and references, and however tags move, one reference is
\* one image and one image has one list of tools (ensure_image, toolchain_provenance).
THEOREM ImagesKeepProvenance == Spec => []SameImageSameProvenance
<1>1. Init => IInv
  BY Init_IInv
<1>2. IInv /\ [Next]_vars => IInv'
  BY Next_IInv
<1>3. IInv => SameImageSameProvenance
  BY DEF IInv, RunnerInv, CachesHold, SameImageSameProvenance
<1> QED
  BY <1>1, <1>2, <1>3, PTL DEF Spec

\* For every cache and every budget, what evidence says of a dependency cache is true
\* of it (parse_dependency_cache_summaries, dependency_network_correlation).
THEOREM MutationsAreReal == Spec => []CacheMutationIsReal
<1>1. Init => IInv
  BY Init_IInv
<1>2. IInv /\ [Next]_vars => IInv'
  BY Next_IInv
<1>3. IInv => CacheMutationIsReal
  BY DEF IInv
<1> QED
  BY <1>1, <1>2, <1>3, PTL DEF Spec

-------------------------------------------------------------------------------
(* The refinement                                                          *)

\* The client only reports success of a container that ended well.
RefinementInv ==
    /\ IInv
    /\ client = "zero" => container = "zero"

LEMMA Init_RefinementInv == Init => RefinementInv
BY Init_IInv DEF RefinementInv, Init

LEMMA Next_RefinementInv == RefinementInv /\ [Next]_vars => RefinementInv'
<1> SUFFICES ASSUME RefinementInv, [Next]_vars PROVE RefinementInv'
  OBVIOUS
<1> USE DEF attemptVars, reportVars, imageVars, watchVars, readVars, boxVars
<1>1. IInv'
  BY Next_IInv DEF RefinementInv
<1>2. CASE RunAttempt
  BY <1>1, <1>2 DEF RunAttempt, RefinementInv
<1>3. CASE Spawn
  BY <1>1, <1>3 DEF Spawn, RefinementInv
<1>4. CASE ClientReturns
  BY <1>1, <1>4 DEF ClientReturns, RefinementInv
<1>5. CASE RuntimeFails
  BY <1>1, <1>5 DEF RuntimeFails, RefinementInv
<1>6. CASE \/ ContainerStarts \/ ContainerDies \/ KillLands
           \/ \E status \in {"zero", "nonzero"} : BuildExits(status)
  BY <1>1, <1>6
     DEF ContainerStarts, ContainerDies, KillLands, BuildExits, RefinementInv
<1>7. ASSUME UNCHANGED <<client, container>> PROVE RefinementInv'
  BY <1>1, <1>7 DEF RefinementInv
<1>8. CASE EnsureImage \/ ImageUnavailable \/ ToolchainProvenance \/ PreparationError
  BY <1>7, <1>8
     DEF EnsureImage, ImageUnavailable, ToolchainProvenance, PreparationError
<1>9. CASE WaitReturns \/ StoreFinished \/ JoinWatchdog \/ ReaderFailed \/ ReadersJoined
  BY <1>7, <1>9 DEF WaitReturns, StoreFinished, JoinWatchdog, ReaderFailed, ReadersJoined
<1>10. CASE TimeoutError \/ BuildFailed \/ BuildSucceeded \/ ArtifactsMissing
  BY <1>7, <1>10 DEF TimeoutError, BuildFailed, BuildSucceeded, Evidence, ArtifactsMissing
<1>11. CASE Watchdog \/ Tick
  BY <1>7, <1>11 DEF Watchdog, WatchdogQuits, WatchdogExpires, KillReturns, Tick
<1>12. CASE \E s \in Streams : Reader(s) \/ BuildWrites(s) \/ ReadError(s)
  BY <1>7, <1>12 DEF Reader, Drain, EndOfStream, BuildWrites, ReadError
<1>13. CASE UNCHANGED vars
  BY <1>7, <1>13 DEF vars
<1> QED
  BY <1>2, <1>3, <1>4, <1>5, <1>6, <1>8, <1>9, <1>10, <1>11, <1>12, <1>13
     DEF Next, Parent, Outside

LEMMA InitMaps == Init => Attempts!Init
BY RunnerAssumption
   DEF Init, Zero, Attempts!Init, Attempts!Nothing, BecameEvidence, Answered

\* The abstract report of an attempt that is under way, or that ended in an error.
LEMMA NoReport ==
    ASSUME ~BecameEvidence
    PROVE  [s \in Streams |->
                IF BecameEvidence THEN [bytes |-> total[s], text |-> retained[s]]
                ELSE [bytes |-> 0, text |-> 0]] = Attempts!Nothing
BY DEF Attempts!Nothing

LEMMA CallMaps == RefinementInv /\ RunAttempt => Attempts!Call
<1> SUFFICES ASSUME RefinementInv, RunAttempt PROVE Attempts!Call
  OBVIOUS
<1>1. ~BecameEvidence'
  BY DEF RunAttempt, BecameEvidence
<1>2. elapsed' = 0 /\ Timeout # 0
  BY RunnerAssumption DEF RunAttempt
<1> QED
  BY <1>1, <1>2, NoReport DEF RunAttempt, Attempts!Call, Attempts!Nothing, Zero

\* An answer that is evidence: everything the build wrote was captured, and the new
\* record agrees with the earlier ones because the caches only grow.
LEMMA EvidenceMaps ==
    ASSUME RefinementInv, RefinementInv', NEW v \in Answered, Evidence(v)
    PROVE  Attempts!Evidence(v) /\ container # "killed"
<1> USE DEF attemptVars, reportVars, imageVars, watchVars, readVars, boxVars
<1>1. /\ pc = "judge" /\ pc' = "idle" /\ verdict' = v /\ ~TimedOut
      /\ UNCHANGED <<reference, image, container, elapsed, written, total, retained,
                     toolchains, watchdog>>
  BY DEF Evidence, Answer
<1>2. BecameEvidence' /\ CaptureComplete' /\ SameImageSameProvenance'
  <2>1. BecameEvidence'
    BY <1>1 DEF BecameEvidence
  <2>2. IInv'
    BY DEF RefinementInv
  <2>3. CaptureComplete'
    BY <2>2 DEF IInv, RunnerInv, TypeOK, CaptureComplete, StreamsConserved, StageOrder
  <2>4. SameImageSameProvenance'
    BY <2>2 DEF IInv, RunnerInv, CachesHold, SameImageSameProvenance
  <2> QED
    BY <2>1, <2>3, <2>4
<1>3. [s \in Streams |->
            IF BecameEvidence' THEN [bytes |-> total'[s], text |-> retained'[s]]
            ELSE [bytes |-> 0, text |-> 0]] = Attempts!Captured(written)
  <2>1. \A s \in Streams : /\ total'[s] = written[s]
                           /\ retained'[s] = Min2(written[s], LogLimit)
                           /\ written[s] \in Nat /\ LogLimit \in Nat
    BY <1>1, <1>2, RunnerAssumption
       DEF CaptureComplete, RefinementInv, IInv, RunnerInv, TypeOK
  <2> QED
    BY <1>2, <2>1 DEF Attempts!Captured, Min2
<1>4. Attempts!Consistent(evidence')
  BY <1>2 DEF SameImageSameProvenance, Attempts!Consistent
<1>5. image \in ImageIds /\ toolchains[image] \in {"listed", "failed"}
  BY <1>1 DEF RefinementInv, IInv, RunnerInv, TypeOK, CachesHold
<1>6. evidence' = evidence \cup
            {[reference |-> reference, image |-> image, tools |-> toolchains[image]]}
  BY DEF Evidence
<1>7. Attempts!Answers(v)
  BY <1>1 DEF Attempts!Answers, Attempts!buildVars
<1>8. container # "killed"
  BY <1>1 DEF RefinementInv, IInv, RunnerInv, WatchdogContained, TimedOut
<1> QED
  BY <1>3, <1>4, <1>5, <1>6, <1>7, <1>8 DEF Attempts!Evidence

\* An error leaves no evidence and nothing to report.
LEMMA ErrorMaps ==
    ASSUME RefinementInv, pc # "idle", NEW v, v \notin Answered,
           Answer(v), UNCHANGED <<reference, evidence, container, elapsed, written>>
    PROVE  /\ v = "timeout" /\ TimedOut => Attempts!TimeoutError
           /\ v = "error" => Attempts!Error
<1>1. ~BecameEvidence /\ ~BecameEvidence'
  BY DEF BecameEvidence, Answer
<1>2. Attempts!Answers(v)
  BY DEF Answer, Attempts!Answers, Attempts!buildVars
<1>3. TimedOut => elapsed = Timeout
  BY DEF RefinementInv, IInv, RunnerInv, WatchdogContained, TimedOut
<1> QED
  BY <1>1, <1>2, <1>3, NoReport DEF Attempts!TimeoutError, Attempts!Error

\* A step of the container, of its output or of the clock.
LEMMA BuildMaps ==
    ASSUME pc # "idle", UNCHANGED <<pc, reference, verdict, evidence>>,
           Attempts!Begins \/ Attempts!Writes \/ Attempts!Ends \/ Attempts!TimeIsUp
             \/ Attempts!Killed
    PROVE  Attempts!Build
<1>1. ~BecameEvidence /\ ~BecameEvidence'
  BY DEF BecameEvidence
<1> QED
  BY <1>1, NoReport DEF Attempts!Build

\* A step that callers do not see.
LEMMA HiddenMaps ==
    ASSUME pc # "idle", pc' # "idle",
           UNCHANGED <<reference, verdict, evidence, container, written>>,
           (elapsed' = Timeout) = (elapsed = Timeout)
    PROVE  UNCHANGED Attempts!vars
<1>1. ~BecameEvidence /\ ~BecameEvidence'
  BY DEF BecameEvidence
<1> QED
  BY <1>1 DEF Attempts!vars, Attempts!buildVars

LEMMA StepMaps ==
    ASSUME RefinementInv, RefinementInv', [Next]_vars
    PROVE  [Attempts!Next]_(Attempts!vars)
<1> USE DEF attemptVars, reportVars, imageVars, watchVars, readVars, boxVars
<1>0. /\ client = "running" => pc = "wait"
      /\ watchdog \in {"polling", "killing"} => pc \in {"wait", "finish", "join"}
      /\ watchdog = "killing" => elapsed = Timeout
      /\ elapsed \in 0..Timeout /\ Timeout \in Nat
  BY RunnerAssumption DEF RefinementInv, IInv, RunnerInv, TypeOK, WatchdogContained
<1>1. CASE RunAttempt
  BY <1>1, CallMaps DEF Attempts!Next
<1>2. CASE \/ EnsureImage \/ ToolchainProvenance \/ Spawn
           \/ WaitReturns \/ StoreFinished \/ JoinWatchdog \/ ReadersJoined
  BY <1>2, HiddenMaps
     DEF EnsureImage, ToolchainProvenance, Spawn, WaitReturns, StoreFinished, JoinWatchdog,
         ReadersJoined
<1>3. CASE ImageUnavailable \/ PreparationError \/ ReaderFailed \/ ArtifactsMissing
  <2>1. pc # "idle" /\ Answer("error") /\ "error" \notin Answered
    BY <1>3 DEF ImageUnavailable, PreparationError, ReaderFailed, ArtifactsMissing, Answered
  <2>2. UNCHANGED <<reference, evidence, container, elapsed, written>>
    BY <1>3 DEF ImageUnavailable, PreparationError, ReaderFailed, ArtifactsMissing
  <2> QED
    BY <2>1, <2>2, ErrorMaps DEF Attempts!Next
<1>4. CASE TimeoutError
  <2>1. pc # "idle" /\ Answer("timeout") /\ "timeout" \notin Answered /\ TimedOut
    BY <1>4 DEF TimeoutError, Answered
  <2>2. UNCHANGED <<reference, evidence, container, elapsed, written>>
    BY <1>4 DEF TimeoutError
  <2> QED
    BY <2>1, <2>2, ErrorMaps DEF Attempts!Next
<1>5. CASE BuildFailed
  <2>1. Evidence("failed") /\ "failed" \in Answered
    BY <1>5 DEF BuildFailed, Answered
  <2> QED
    BY <2>1, EvidenceMaps DEF Attempts!Next, Attempts!BuildFailed
<1>6. CASE BuildSucceeded
  <2>1. Evidence("success") /\ "success" \in Answered /\ container = "zero"
    BY <1>6 DEF BuildSucceeded, Answered, RefinementInv
  <2> QED
    BY <2>1, EvidenceMaps DEF Attempts!Next, Attempts!Success
<1>7. CASE WatchdogQuits \/ WatchdogExpires \/ KillReturns
  BY <1>0, <1>7, HiddenMaps DEF WatchdogQuits, WatchdogExpires, KillReturns
<1>8. CASE Tick
  <2>1. /\ pc # "idle" /\ elapsed # Timeout
        /\ UNCHANGED <<pc, reference, verdict, evidence, container, written>>
    BY <1>0, <1>8 DEF Tick
  <2>2. CASE elapsed' = Timeout
    BY <2>1, <2>2, BuildMaps DEF Attempts!TimeIsUp, Attempts!Next
  <2>3. CASE elapsed' # Timeout
    BY <2>1, <2>3, HiddenMaps
  <2> QED
    BY <2>2, <2>3
<1>9. CASE ClientReturns \/ RuntimeFails
  BY <1>0, <1>9, HiddenMaps DEF ClientReturns, RuntimeFails
<1>10. CASE ContainerStarts
  <2>1. Attempts!Begins /\ pc # "idle" /\ UNCHANGED <<pc, reference, verdict, evidence>>
    BY <1>0, <1>10 DEF ContainerStarts, Attempts!Begins
  <2> QED
    BY <2>1, BuildMaps DEF Attempts!Next
<1>11. CASE ContainerDies \/ \E status \in {"zero", "nonzero"} : BuildExits(status)
  <2>1. Attempts!Ends /\ pc # "idle" /\ UNCHANGED <<pc, reference, verdict, evidence>>
    BY <1>0, <1>11 DEF ContainerDies, BuildExits, Attempts!Ends
  <2> QED
    BY <2>1, BuildMaps DEF Attempts!Next
<1>12. CASE KillLands
  <2>1. Attempts!Killed /\ pc # "idle" /\ UNCHANGED <<pc, reference, verdict, evidence>>
    BY <1>0, <1>12 DEF KillLands, Attempts!Killed
  <2> QED
    BY <2>1, BuildMaps DEF Attempts!Next
<1>13. CASE \E s \in Streams : BuildWrites(s)
  <2>1. Attempts!Writes /\ pc # "idle" /\ UNCHANGED <<pc, reference, verdict, evidence>>
    BY <1>0, <1>13 DEF BuildWrites, Attempts!Writes
  <2> QED
    BY <2>1, BuildMaps DEF Attempts!Next
<1>14. CASE \E s \in Streams : Reader(s) \/ ReadError(s)
  \* A reader may outlive an attempt that ended in an error, but no evidence.
  <2>1. /\ \E s \in Streams : reader[s] = "reading"
        /\ UNCHANGED <<pc, reference, verdict, evidence, container, elapsed, written>>
    BY <1>14 DEF Reader, Drain, EndOfStream, ReadError
  <2>2. ~BecameEvidence /\ ~BecameEvidence'
    BY <2>1 DEF RefinementInv, IInv, RunnerInv, StageOrder, BecameEvidence
  <2> QED
    BY <2>1, <2>2 DEF Attempts!vars, Attempts!buildVars
<1>15. CASE UNCHANGED vars
  BY <1>15 DEF vars, Attempts!vars, Attempts!buildVars, BecameEvidence
<1> QED
  BY <1>1, <1>2, <1>3, <1>4, <1>5, <1>6, <1>7, <1>8, <1>9, <1>10, <1>11, <1>12, <1>13,
     <1>14, <1>15 DEF Next, Parent, Watchdog, Outside

\* `run_attempt` keeps what its trait says, for every limit and in every interleaving:
\* one answer to each call, nothing after it, evidence only of builds that ended by
\* themselves, and consistent with all evidence before it.
THEOREM Refinement == Spec => ImplementsAttempts
<1>1. Init => RefinementInv /\ Attempts!Init
  BY Init_RefinementInv, InitMaps
<1>2. RefinementInv /\ [Next]_vars => RefinementInv'
  BY Next_RefinementInv
<1>3. RefinementInv /\ RefinementInv' /\ [Next]_vars
         => [Attempts!Next]_(Attempts!vars)
  BY StepMaps
<1> QED
  BY <1>1, <1>2, <1>3, PTL DEF Spec, ImplementsAttempts, Attempts!Spec
===================================================================================
