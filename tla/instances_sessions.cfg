SPECIFICATION FairSpec
CONSTANTS
    NWorkers = 2
    Configs <- SomeConfigs
    Poison = {2}
    Kinds = {"docker", "bare_metal"}
    TuningModes = {"online", "offline", "adaptive"}
    RestoreInterval = 2
    AdaptiveInterval = 2
    Period = 2
    Faults = {"apply", "restart", "copy", "rebuild", "verify", "die", "clone", "crash"}
    MaxFaults = 1
    MaxSessions = 2
CHECK_DEADLOCK FALSE
INVARIANTS MeasuredAsCredited  ForceIsHonoured
PROPERTY HealsWhileAPeerLives
