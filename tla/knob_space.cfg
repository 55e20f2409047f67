SPECIFICATION KnobSpec
CONSTANTS
    Tiers <- MCTiers
    Sessions <- MCSessions
    ClassBudget <- MCBudget
    MinRam = 100
    MinBps = 1
    MinIops = 100
    Restart <- MCRestart
    Factors = {80, 120}
    MaxSteps = 2
INVARIANTS
    
    NothingOvercommitted
    EveryFactorMoves
    EncodingsLoseNothing
