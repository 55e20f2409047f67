SPECIFICATION FairSpec
CONSTANTS
    Workers = {1, 2}
    Foreground = 1
    Strategies = {"pbt", "lhs", "bo", "cotenant"}
    Rounds = 3
    Stages = 3
    MaxSignals = 3
CHECK_DEADLOCK FALSE
 
PROPERTY InterruptSaves
