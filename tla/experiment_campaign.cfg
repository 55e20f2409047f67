SPECIFICATION Spec
CONSTANTS
    NSeeds = 2
    Modes <- CampaignModes
    Faults = {"crash", "interrupt", "unreachable", "pop_conflict", "interrupt_in_cleanup"}
    MaxFaults = 2
    MaxInvocations = 2
    StopRetries = 2
CHECK_DEADLOCK FALSE
INVARIANTS OneLiveAttempt RemoteResultMatches   
