SPECIFICATION Spec
CONSTANTS
    Owner = owner
    Producers = {p1, p2}
    Targets = {t1}
    Payloads = {k1, k2}
    Contexts = {c1, c2}
    None = None
    MaxGeneration = 2
    MaxInline = 1
SYMMETRY Symmetry
CHECK_DEADLOCK FALSE
INVARIANTS
    OneOwnerUntilDestroyed
    NeverAStaleContext
    ActivePostsExact
    TargetQuiescedAfterWait
    NoWakeAfterMailboxClose
    RefsExact
    LastReleaseAsserts
PROPERTIES
    ImplementsTaskDelivery
