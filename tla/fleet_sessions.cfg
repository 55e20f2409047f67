SPECIFICATION FairSpec
CONSTANTS
    NWorkers = 2
    Bootstraps = {TRUE}
    Builds = {"current", "silent"}
    MaxSessions = 2
    MaxGenerations = 1
    Faults = {"launch", "die", "timeout", "reply", "restart", "kill"}
    MaxFaults = 3
CHECK_DEADLOCK FALSE
INVARIANTS WindowIsTheSessions 
PROPERTY SessionEnds
