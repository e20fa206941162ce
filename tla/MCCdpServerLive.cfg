SPECIFICATION FairSpec
CONSTANTS
    Workers = {w1, w2}
    MaxConnections = 2
    MaxSignals = 0
PROPERTIES
    DeadConnectionEnds
    UnregisterReturns
CHECK_DEADLOCK FALSE
