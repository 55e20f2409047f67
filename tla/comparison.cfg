SPECIFICATION Spec
CONSTANTS
    Arms <- MCArms
    Untuned = "default"
    NeedsRestart = {"pbt"}
    Repetitions = 3
    MaxFaults = 2
    RemovalCanFail = FALSE
    ForceBaseline = FALSE
    WarmupInputs = {0, 2}
    DefaultWarmup = 1
    PValues = {12, 20, 40}
    Alpha = 50
INVARIANTS
    PairsAligned
    
    RubricMatchesRuns
    HolmIsClosedTesting
CHECK_DEADLOCK FALSE
