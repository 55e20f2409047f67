SPECIFICATION FairSpec
CONSTANTS
    PopulationSize = 3
    MaxWorkers = 2
    Modes <- AllModes
INVARIANTS
    
    NoStrandedWaiter
    ResultsComplete
PROPERTIES ImplementsLockstep Termination
