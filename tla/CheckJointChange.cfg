\* A joint change that does not repeat after minimisation.
SPECIFICATION Spec
CONSTANTS
    a = a
    b = b
    c = c
    AlphaNum = 1
    AlphaDen = 10
    Plan <- InteractionPlan
    Artifacts = {a, b, c}
    ExitCodes = {1}
    Worlds <- NoisyABC
    Drifted = b
    ControlRuns = 2
    InterventionRuns = 1
    ConfirmationRuns = 1
    StochasticRuns = 3
    InteractionSearch = TRUE
    InteractionRuns = 2
    MaxInteractionVariables = 3
INVARIANT JointChangeIsReported
CHECK_DEADLOCK FALSE
