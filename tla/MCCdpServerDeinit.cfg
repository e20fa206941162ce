SPECIFICATION FairSpec
CONSTANTS
    Workers = {w1}
    MaxConnections = 1
    MaxSignals = 1
PROPERTIES
    DeinitReturns
CHECK_DEADLOCK FALSE
