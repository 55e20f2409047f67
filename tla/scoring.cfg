SPECIFICATION ScoringSpec
CONSTANTS
    Values = {10, 11, 12, 20}
    Fits <- MCFits
    Generations <- MCGenerations
    Window = 6
    Quorum = 2
    MinSamples = 4
    LowQ = 5
    HighQ = 95
    MaxRounds = 4
    Workers = {w1, w2}
    Workloads <- MCWorkloads
    Policies = {"fixed_v1", "feature_driven_v2"}
    Observations <- MCObservations
    MinCalibration = 4
    LogEvery = 3
SYMMETRY Symmetry
INVARIANTS OneRuler TablesAreHonest
PROPERTY ReloadKeepsWeights
CHECK_DEADLOCK FALSE
