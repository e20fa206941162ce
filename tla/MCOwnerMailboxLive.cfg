SPECIFICATION FairSpec
CONSTANTS
    Owner = owner
    Producers = {p1, p2}
    Targets = {t1}
    Payloads = {k1, k2}
    Contexts = {c1}
    None = None
    MaxGeneration = 2
    MaxInline = 0
CHECK_DEADLOCK FALSE
PROPERTIES
    EveryPayloadEnds
    LifecycleCallsReturn
