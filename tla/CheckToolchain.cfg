\* A toolchain variant that builds once and fails once.
SPECIFICATION Spec
CONSTANTS
    a = a
    b = b
    c = c
    AlphaNum = 1
    AlphaDen = 10
    Plan <- OutcomePlan
    Artifacts = {a, b}
    ExitCodes = {1}
    Worlds <- NoisyAB
    Drifted = b
    ControlRuns = 2
    InterventionRuns = 1
    ConfirmationRuns = 1
    StochasticRuns = 3
    InteractionSearch = FALSE
    InteractionRuns = 2
    MaxInteractionVariables = 3
INVARIANT HighToolchainIsStable
CHECK_DEADLOCK FALSE
