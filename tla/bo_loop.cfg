SPECIFICATION BOSpec
CONSTANTS
    Iterations = 5
    PilotSize = 2
    MinMetrics = 2
    MinSamples = 2
    MaxScore = 2
    Patience = 2
CHECK_DEADLOCK FALSE
INVARIANT ScoresAreCurrent
