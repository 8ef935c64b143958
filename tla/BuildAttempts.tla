----------------------------- MODULE BuildAttempts -----------------------------
(***************************************************************************)
(* What `Runner::run_attempt` (src/runner/mod.rs) promises the engines,    *)
(* with its threads, pipes and caches left out: a call is answered once,   *)
(* and only after the build can change no more of what is answered; an     *)
(* answer that is evidence says all the build wrote, and which image and   *)
(* tools it had, in agreement with all evidence before it; a killed build, *)
(* or one whose time was up, leaves no evidence.                           *)
(***************************************************************************)
EXTENDS Naturals

CONSTANTS References, ImageIds, Streams, LogLimit

VARIABLES
    phase,      \* "idle" or "called"
    wanted,     \* the image reference of the latest call
    answer,     \* its answer: "none" until there is one
    evidence,   \* where the builds that became evidence ran
    report,     \* what the answer says of each stream
    build,      \* the container of the latest call
    expired,    \* the time of the latest call is up
    written     \* what its build has written to each stream

buildVars == <<build, expired, written>>
vars == <<phase, wanted, answer, evidence, report, buildVars>>

Nothing == [s \in Streams |-> [bytes |-> 0, text |-> 0]]

\* All the build wrote is counted, and as much as fits is shown.
Captured(output) ==
    [s \in Streams |->
        [bytes |-> output[s],
         text |-> IF output[s] > LogLimit THEN LogLimit ELSE output[s]]]

\* One image per reference, and one list of tools per image.
Consistent(records) ==
    \A e, f \in records :
        /\ e.reference = f.reference => e.image = f.image
        /\ e.image = f.image => e.tools = f.tools

Init ==
    /\ phase = "idle"
    /\ wanted \in References
    /\ answer = "none"
    /\ evidence = {}
    /\ report = Nothing
    /\ build = "absent"
    /\ expired = FALSE
    /\ written = [s \in Streams |-> 0]

Call ==
    /\ phase = "idle"
    /\ phase' = "called"
    /\ wanted' \in References
    /\ answer' = "none"
    /\ report' = Nothing
    /\ build' = "absent"
    /\ expired' = FALSE
    /\ written' = [s \in Streams |-> 0]
    /\ UNCHANGED evidence

-------------------------------------------------------------------------------
(* The build, for as long as its call is not answered                      *)

Begins ==
    /\ build = "absent"
    /\ build' = "running"
    /\ UNCHANGED <<expired, written>>

Writes ==
    /\ build = "running"
    /\ \E s \in Streams : written' = [written EXCEPT ![s] = @ + 1]
    /\ UNCHANGED <<build, expired>>

Ends ==
    /\ build = "running"
    /\ build' \in {"zero", "nonzero", "died"}
    /\ UNCHANGED <<expired, written>>

TimeIsUp ==
    /\ ~expired
    /\ expired' = TRUE
    /\ UNCHANGED <<build, written>>

Killed ==
    /\ build = "running"
    /\ expired
    /\ build' = "killed"
    /\ UNCHANGED <<expired, written>>

Build ==
    /\ phase = "called"
    /\ Begins \/ Writes \/ Ends \/ TimeIsUp \/ Killed
    /\ UNCHANGED <<phase, wanted, answer, evidence, report>>

-------------------------------------------------------------------------------
(* The answers                                                             *)

Answers(v) ==
    /\ phase = "called"
    /\ phase' = "idle"
    /\ answer' = v
    /\ UNCHANGED <<wanted, buildVars>>

\* The answer becomes evidence.
Evidence(v) ==
    /\ Answers(v)
    /\ report' = Captured(written)
    /\ \E image \in ImageIds, tools \in {"listed", "failed"} :
        evidence' = evidence \cup
            {[reference |-> wanted, image |-> image, tools |-> tools]}
    /\ Consistent(evidence')

\* Ok(RunOutcome::Success)
Success == build = "zero" /\ Evidence("success")

\* Ok(RunOutcome::BuildFailed).  It is not said that a build ran: a failure of the
\* runtime itself is answered like one of the build.
BuildFailed == build # "killed" /\ Evidence("failed")

\* Err, because the time was up.
TimeoutError ==
    /\ expired
    /\ Answers("timeout")
    /\ UNCHANGED <<evidence, report>>

\* Err, for any other reason.
Error ==
    /\ Answers("error")
    /\ UNCHANGED <<evidence, report>>

Next == Call \/ Build \/ Success \/ BuildFailed \/ TimeoutError \/ Error

Spec == Init /\ [][Next]_vars
===============================================================================
