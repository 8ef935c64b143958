\* Joint builds of three variables, three outcomes per build.
SPECIFICATION FairSpec
CONSTANTS
    a = a
    b = b
    c = c
    AlphaNum = 1
    AlphaDen = 10
    Plan <- InteractionPlan
    Artifacts = {a, b, c}
    ExitCodes = {1}
    Worlds <- NoisyABC
    Drifted = b
    ControlRuns = 2
    InterventionRuns = 1
    ConfirmationRuns = 1
    StochasticRuns = 3
    InteractionSearch = TRUE
    InteractionRuns = 2
    MaxInteractionVariables = 3
INVARIANTS
    CheckInv
    InteractionIrreducible
    BuildBudget
PROPERTY Termination
CHECK_DEADLOCK FALSE
