SPECIFICATION Spec
CONSTANTS
    Workers = {w1}
    MaxConnections = 1
    MaxSignals = 1
INVARIANTS
    SignalThreadSeesServer
CHECK_DEADLOCK FALSE
