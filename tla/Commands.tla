--------------------------------- MODULE Commands ---------------------------------
(***************************************************************************)
(* The commands that do not search for a cause: the dispatch of            *)
(* src/main.rs and the handlers of src/cli.rs, over the components they    *)
(* drive.  `check` and `compare` are taken up to the environments they     *)
(* build in; what they build and conclude is in modules Check and Compare. *)
(***************************************************************************)
EXTENDS Combination, Fix

VARIABLE command    \* the command line's command, "none" before it is parsed

vars == <<command, searchVars, allFixVars>>

Init ==
    /\ command = "none"
    /\ SearchInit
    /\ FixInit
    /\ EvidenceInit

Parse ==
    /\ command = "none"
    /\ command' \in {"check", "compare", "fix", "evidence"}
    /\ UNCHANGED <<searchVars, allFixVars>>

RunCheck ==
    /\ command = "check"
    /\ Reject \/ Check \/ Include
    /\ UNCHANGED <<command, allFixVars>>

RunCompare ==
    /\ command = "compare"
    /\ Reject \/ Compare \/ Apply
    /\ UNCHANGED <<command, allFixVars>>

RunFix ==
    /\ command = "fix"
    /\ FixNext
    /\ UNCHANGED <<command, searchVars>>

\* Evidence of earlier commands is on disk before this one reads it.
RunEvidence ==
    /\ command = "evidence"
    /\ EvidenceNext
    /\ UNCHANGED <<command, searchVars, fixVars>>

Next == Parse \/ RunCheck \/ RunCompare \/ RunFix \/ RunEvidence

Spec == Init /\ [][Next]_vars
================================================================================
