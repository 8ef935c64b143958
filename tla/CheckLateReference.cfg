\* A changed reference of an incomplete probe.
SPECIFICATION Spec
CONSTANTS
    a = a
    b = b
    c = c
    AlphaNum = 1
    AlphaDen = 10
    Plan <- ProbePlan
    Artifacts = {a, b}
    ExitCodes = {1}
    Worlds <- NoisyAB
    Drifted = b
    ControlRuns = 2
    InterventionRuns = 1
    ConfirmationRuns = 1
    StochasticRuns = 3
    InteractionSearch = TRUE
    InteractionRuns = 2
    MaxInteractionVariables = 3
INVARIANT AnyChangedReferenceReclassifies
CHECK_DEADLOCK FALSE
