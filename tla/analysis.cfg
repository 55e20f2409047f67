SPECIFICATION MCSpec
CONSTANTS
    Size = 3
    ReadyInterval = 2
    Rounds = 3
    MaxBadRounds = 1
    Knobs = {1, 2, 3}
    Nuisance = {3}
    ExpertMinimal = {1, 3}
    Iterations = 5
    FdrQ = 10
    CoverageMinimal = 50
    CoverageCore = 80
    TopK = 2
    MinFeatures = 2
    Subsamples = 1
    Importances = {0, 1, 3}
    Contributions = {0, 3}
    Tunable = {1, 2, 5}
    Descriptors = {9}
    Commands = 4
CHECK_DEADLOCK FALSE
INVARIANTS  TiersAreSound LoadedTiersNest
