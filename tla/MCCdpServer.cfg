SPECIFICATION LoopSpec
CONSTANTS
    Workers = {w1, w2}
    MaxConnections = 1
    MaxSignals = 2
INVARIANTS
    LinksInMemory
    ServerOutlivesItsThreads
    PollSnapshotFits
    NoWorkerMissesShutdown
PROPERTIES
    NetworkStops
CHECK_DEADLOCK FALSE
