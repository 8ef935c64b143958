------------------------------- MODULE Compare -------------------------------
(***************************************************************************)
(* One `reprobisect compare`: src/engine/compare.rs, from the repeated     *)
(* known-good and known-bad builds to the persisted comparison.            *)
(*                                                                         *)
(* An outcome of a build attempt is an artifact signature or, when the     *)
(* command exits non-zero, a failure signature (exit code and the digests  *)
(* of both streams).  How builds respond to their environment is outside   *)
(* this module: `response` gives the outcomes possible for each subset of  *)
(* the environment delta applied on top of the known-good environment.     *)
(* Ddmin's minimiser is embedded; its items are positions of the delta.    *)
(***************************************************************************)
EXTENDS Naturals, Sequences

CONSTANTS
    MaxDelta,           \* bound on the entries of diff_environments' result
    Artifacts,          \* artifact signatures
    Failures,           \* failure signatures
    Worlds,             \* how builds may respond at the start
    Drifted,            \* the only outcome once the machine has drifted
    EndpointRuns,
    SubsetRuns

Outcomes == Artifacts \cup Failures
Subsets == SUBSET (1..MaxDelta)
Responses == [Subsets -> (SUBSET Outcomes) \ {{}}]

\* validate_options.  Success and failure are different variants of RunOutcome.
ASSUME CompareAssumption ==
    /\ MaxDelta \in Nat
    /\ Artifacts \cap Failures = {}
    /\ Worlds \subseteq Responses
    /\ Drifted \in Outcomes
    /\ EndpointRuns \in 2..32
    /\ SubsetRuns \in 2..32

VARIABLES
    pc,        \* "good", "bad", "minimize", "final", "revert", "report", "done",
               \* or "aborted": an error left compare_environments
    ordinal,   \* the next attempt's number in the evidence
    confirmation_runs,    \* of this invocation's options
    delta,     \* number of entries in the environment delta
    good,      \* outcomes of the known-good attempts, in order
    bad,       \* outcomes of the known-bad attempts
    batch,     \* outcomes under the subset being tried
    reverted,  \* reverted_to_good
    status,    \* the status of the report, "none" until it is decided
    \* Ddmin's state, phase "idle" until the minimisation starts
    current, granularity, phase, index, tests, refuted,
    \* external: the outcomes an attempt may have now, by the subset applied
    response

D == INSTANCE Ddmin WITH N <- MaxDelta

inputVars == <<confirmation_runs, delta>>
endpointVars == <<inputVars, good, bad>>
resultVars == <<reverted, status>>
ddminVars == <<current, granularity, phase, index, tests, refuted>>
vars == <<pc, ordinal, endpointVars, batch, resultVars, ddminVars, response>>

-------------------------------------------------------------------------------
\* distinct outcomes <= 1.  Successes never equal failures, so a list that mixes
\* them is not stable.
Stable(attempts) == \A i, j \in DOMAIN attempts : attempts[i] = attempts[j]

\* attempts_reproduce_reference, for the known-bad reference.
Reproduces(attempts) == \A i \in DOMAIN attempts : attempts[i] = bad[1]

Init ==
    /\ pc = "good"
    /\ ordinal = 1
    /\ confirmation_runs \in {0, 1}
    /\ delta \in 0..MaxDelta
    /\ good = <<>> /\ bad = <<>> /\ batch = <<>>
    /\ reverted = "none" /\ status = "none"
    /\ current = <<>> /\ granularity = 0 /\ phase = "idle" /\ index = 0
    /\ tests = 0 /\ refuted = {}
    /\ response \in Worlds

\* One attempt of run_environment_attempts, in the environment that has `applied`
\* of the delta: run_attempt comes to an outcome, whose record is persisted.
Attempt(applied, outcome) ==
    /\ outcome \in response[applied]
    /\ ordinal' = ordinal + 1

-------------------------------------------------------------------------------
\* The endpoints.

GoodAttempt ==
    /\ pc = "good"
    /\ \E outcome \in Outcomes :
          /\ Attempt({}, outcome)
          /\ good' = Append(good, outcome)
    /\ pc' = IF Len(good') = EndpointRuns THEN "bad" ELSE pc
    /\ UNCHANGED <<inputVars, bad, batch, resultVars, ddminVars, response>>

BadAttempt ==
    /\ pc = "bad"
    /\ Len(bad) < EndpointRuns
    /\ \E outcome \in Outcomes :
          /\ Attempt(1..delta, outcome)
          /\ bad' = Append(bad, outcome)
    /\ UNCHANGED <<pc, inputVars, good, batch, resultVars, ddminVars, response>>

EndpointsComplete == pc = "bad" /\ Len(bad) = EndpointRuns

\* Faulty: the first attempts stand for all of them.
EndpointsUsableByFirst == good[1] \in Artifacts

\* stable_endpoint_reference of both, the known-good one with artifacts.
EndpointsUsable == Stable(good) /\ Stable(bad) /\ good[1] \in Artifacts

Decided(verdict) ==
    /\ pc' = "report"
    /\ status' = verdict
    /\ UNCHANGED <<ordinal, endpointVars, batch, reverted, ddminVars, response>>

EndpointsInconclusive ==
    /\ EndpointsComplete
    /\ ~EndpointsUsable
    /\ Decided("inconclusive")

EndpointsEquivalent ==
    /\ EndpointsComplete
    /\ EndpointsUsable
    /\ good[1] = bad[1]
    /\ Decided("equivalent")

\* The endpoints differ in nothing that could be minimised.
DifferenceUnexplained ==
    /\ EndpointsComplete
    /\ EndpointsUsable
    /\ good[1] # bad[1]
    /\ delta = 0
    /\ Decided("inconclusive")

MinimizationStarts ==
    /\ EndpointsComplete
    /\ EndpointsUsable
    /\ good[1] # bad[1]
    /\ delta > 0
    /\ current' = [i \in 1..delta |-> i]
    /\ granularity' = D!Least(2, delta)
    /\ phase' = D!LoopPhase(current')
    /\ pc' = IF phase' = "done" THEN "final" ELSE "minimize"
    /\ UNCHANGED <<ordinal, endpointVars, batch, resultVars, index, tests,
                   refuted, response>>

-------------------------------------------------------------------------------
\* Minimising the delta, and building the minimal subset again.

\* Faulty: `0..=run_count`.
BatchOneMore == Len(batch) > SubsetRuns

BatchFull == Len(batch) = SubsetRuns

\* The entries of the delta in the environment being tried.
Applied == D!Items(IF pc = "minimize" THEN D!Candidate ELSE current)

SubsetAttempt ==
    /\ pc \in {"minimize", "final"}
    /\ ~BatchFull
    /\ \E outcome \in Outcomes :
          /\ Attempt(Applied, outcome)
          /\ batch' = Append(batch, outcome)
    /\ UNCHANGED <<pc, endpointVars, resultVars, ddminVars, response>>

\* Faulty: whatever differs from known-good counts as known-bad.
VerdictByDifference ==
    /\ pc = "minimize"
    /\ BatchFull
    /\ IF \A i \in DOMAIN batch : batch[i] # good[1]
       THEN D!KeepSubset \/ D!KeepComplement
       ELSE D!NextPart \/ D!SubsetsExhausted \/ D!Refine \/ D!Finish
    /\ pc' = IF phase' = "done" THEN "final" ELSE pc
    /\ batch' = <<>>
    /\ UNCHANGED <<ordinal, endpointVars, resultVars, response>>

\* The predicate passed to ddmin::minimize returns.
SubsetVerdict ==
    /\ pc = "minimize"
    /\ BatchFull
    /\ IF Reproduces(batch)
       THEN D!KeepSubset \/ D!KeepComplement
       ELSE D!NextPart \/ D!SubsetsExhausted \/ D!Refine \/ D!Finish
    /\ pc' = IF phase' = "done" THEN "final" ELSE pc
    /\ batch' = <<>>
    /\ UNCHANGED <<ordinal, endpointVars, resultVars, response>>

\* Faulty: the reversion is recorded but does not count.
StatusWithoutReversion(reversion) ==
    IF Reproduces(batch) THEN "minimized" ELSE "inconclusive"

StatusOf(reversion) ==
    IF Reproduces(batch) /\ reversion # "no" THEN "minimized" ELSE "inconclusive"

\* Faulty: a minimal subset that does not reproduce any more has no report.
FinalOnlyIfReproduced ==
    /\ pc = "final"
    /\ BatchFull
    /\ Reproduces(batch)
    /\ confirmation_runs = 0
    /\ Decided(StatusOf("none"))

FinalWithoutReversion ==
    /\ pc = "final"
    /\ BatchFull
    /\ confirmation_runs = 0
    /\ Decided(StatusOf("none"))

FinalWithReversion ==
    /\ pc = "final"
    /\ BatchFull
    /\ confirmation_runs = 1
    /\ pc' = "revert"
    /\ UNCHANGED <<ordinal, endpointVars, batch, resultVars, ddminVars, response>>

\* A failing known-good build is no recovery.  Nothing counts this attempt's
\* number up any more.
Reversion ==
    /\ pc = "revert"
    /\ \E outcome \in response[{}] :
          reverted' = IF outcome = good[1] THEN "yes" ELSE "no"
    /\ status' = StatusOf(reverted')
    /\ pc' = "report"
    /\ UNCHANGED <<ordinal, endpointVars, batch, ddminVars, response>>

\* finish_report: the comparison is persisted.
Finished ==
    /\ pc = "report"
    /\ pc' = "done"
    /\ UNCHANGED <<ordinal, endpointVars, batch, resultVars, ddminVars, response>>

\* The runner, not the build, fails, or evidence cannot be written: there is no
\* report.  Inside the predicate the error passes through ddmin.
Abort ==
    /\ \/ pc \in {"good", "revert", "report"}
       \/ pc = "bad" /\ Len(bad) < EndpointRuns
       \/ pc \in {"minimize", "final"} /\ ~BatchFull
    /\ pc' = "aborted"
    /\ IF pc = "minimize" THEN D!PredicateError ELSE UNCHANGED ddminVars
    /\ UNCHANGED <<ordinal, endpointVars, batch, resultVars, response>>

Always(outcome) == [applied \in Subsets |-> {outcome}]

\* External: between two attempts, builds that nothing in the delta affects
\* change, once and for good, because the machine did.
Drift ==
    /\ pc \notin {"done", "aborted"}
    /\ \E outcome \in Outcomes \ {Drifted} : response = Always(outcome)
    /\ response' = Always(Drifted)
    /\ UNCHANGED <<pc, ordinal, endpointVars, batch, resultVars, ddminVars>>

Steps ==
    \/ GoodAttempt \/ BadAttempt
    \/ EndpointsInconclusive \/ EndpointsEquivalent \/ DifferenceUnexplained
    \/ MinimizationStarts
    \/ SubsetAttempt \/ SubsetVerdict
    \/ FinalWithoutReversion \/ FinalWithReversion \/ Reversion
    \/ Finished

Next == Steps \/ Abort \/ Drift

Spec == Init /\ [][Next]_vars

\* compare_environments is one thread and every attempt has a timeout.  An error
\* is never forced: a comparison must end by its own steps.
FairSpec == Spec /\ WF_vars(Steps)

-------------------------------------------------------------------------------
(***************************************************************************)
(* What a comparison guarantees.                                           *)
(***************************************************************************)

\* Type invariant.
TypeOK ==
    /\ pc \in {"good", "bad", "minimize", "final", "revert", "report", "done",
              "aborted"}
    /\ ordinal \in Nat \ {0}
    /\ confirmation_runs \in {0, 1}
    /\ delta \in 0..MaxDelta
    /\ good \in Seq(Outcomes) /\ bad \in Seq(Outcomes) /\ batch \in Seq(Outcomes)
    /\ reverted \in {"none", "yes", "no"}
    /\ status \in {"none", "equivalent", "minimized", "inconclusive"}
    /\ phase = "idle" \/ D!TypeOK
    /\ response \in Responses

\* How far the endpoints, the search and the verdict are, by stage.
StageOrder ==
    /\ Len(batch) <= SubsetRuns
    /\ pc = "good" => Len(good) < EndpointRuns /\ bad = <<>>
    /\ pc = "bad" => Len(bad) <= EndpointRuns
    /\ pc \notin {"good", "aborted"} => Len(good) = EndpointRuns
    /\ pc \notin {"good", "bad", "aborted"} => Len(bad) = EndpointRuns
    /\ pc \in {"good", "bad"} => phase = "idle" /\ batch = <<>>
    /\ IF phase = "idle"
       THEN index = 0 /\ tests = 0 /\ refuted = {}
       ELSE D!SearchInv /\ current # <<>>
    /\ pc \in {"minimize", "final", "revert"} =>
          delta > 0 /\ EndpointsUsable /\ good[1] # bad[1]
    /\ pc = "minimize" => phase \notin {"idle", "done", "failed"}
    /\ pc \in {"final", "revert"} => phase = "done"
    /\ pc = "revert" => BatchFull /\ confirmation_runs = 1
    /\ pc \notin {"report", "done", "aborted"} =>
          status = "none" /\ reverted = "none"

\* A minimised delta is an explanation that was seen to hold: both endpoints
\* repeated themselves, the known-good one with artifacts, every build of the
\* minimal subset repeated the known-bad outcome exactly, after the search, and
\* the known-good environment gave the good artifacts back if it was asked.
\* "it must successfully recover `G`" (docs/experiment-model.md:82).
MinimizedIsWitnessed ==
    status = "minimized" =>
        /\ \A i \in 1..EndpointRuns : good[i] = good[1] /\ bad[i] = bad[1]
        /\ good[1] \in Artifacts /\ good[1] # bad[1]
        /\ Len(batch) = SubsetRuns /\ Reproduces(batch)
        /\ reverted = IF confirmation_runs = 1 THEN "yes" ELSE "none"

\* ... and the explanation has nothing to spare: it is not empty, and for each
\* of its entries the subset without it was built and did not reproduce.
MinimizedIsIrreducible ==
    status = "minimized" =>
        /\ current # <<>>
        /\ Len(current) >= 2 =>
              \A k \in 1..Len(current) : D!Without(current, k) \in refuted

\* Exit code 0 means that the two environments were observed to be equivalent:
\* every build of both succeeded and gave the same artifacts.
EquivalentIsWitnessed ==
    status = "equivalent" =>
        /\ good[1] \in Artifacts
        /\ \A i \in 1..EndpointRuns : good[i] = good[1] /\ bad[i] = good[1]

\* The inductive strengthening behind the properties above.
CompareInv ==
    /\ TypeOK
    /\ StageOrder
    /\ MinimizedIsWitnessed
    /\ MinimizedIsIrreducible
    /\ EquivalentIsWitnessed

\* For builds that are a function of their environment, as the minimiser asks of
\* its predicate, the comparison is exact: it finds a subset that is sufficient
\* for the known-bad outcome and of which every entry is necessary, whatever
\* third outcomes other subsets have.
Deterministic ==
    \A applied \in Subsets : \E outcome \in Outcomes : response[applied] = {outcome}

DeterministicIsExact ==
    LET G == response[{}]
        B == response[1..delta]
        found == D!Items(current)
    IN  pc = "done" /\ Deterministic /\ G \subseteq Artifacts /\ G # B =>
            /\ status = "minimized"
            /\ response[found] = B
            /\ \A entry \in found : response[found \ {entry}] # B

\* A change of the machine is never taken for an effect of the environment: if
\* nothing in the delta matters and the outcome changes once, at any time, a
\* comparison that confirms its result does not claim to explain it.
DriftIsNotMinimized ==
    (\E outcome \in Outcomes : response = Always(outcome)) /\ confirmation_runs = 1
        => status # "minimized"

\* Builds are the cost of a comparison, bounded before it starts.
AttemptBudget ==
    ordinal - 1 <= 2 * EndpointRuns + SubsetRuns * (D!MostTests(delta) + 1)

\* Every comparison comes to a report or to an error, whatever the builds do.
Termination == <>(pc \in {"done", "aborted"})
===============================================================================
