SPECIFICATION BenchSpec
CONSTANTS
    BenchWorkers = {w1}
    Profiles <- MCProfiles
    TpchTables <- MCTpchTables
    Queries = 2
    WarmupPasses = 1
    RunLength = 2
    Sessions = 3
    MaxFaults = 3
INVARIANTS ValidatedIsComplete HealthyIsEarned
CHECK_DEADLOCK FALSE
