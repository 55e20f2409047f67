SPECIFICATION Spec
CONSTANTS
    PopulationSize = 2
    CohortSize = 1
    ReadyInterval = 2
    DeadThreshold = 2
    MaxScore = 3
    CrashScores = {1}
    MinSamples = 4
    MaxGenerations = 4
    Patience = 2
INVARIANTS BestIsSound EvolutionIsSound
PROPERTIES OnlyProgressResets CooldownServed
