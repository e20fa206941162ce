SPECIFICATION Spec
CONSTANTS
    Components = {"canvas"}
    Targets = {"windows-x86_64", "linux-x86_64"}
    SourceRevision = "sha"
    FixedInputs <- MCFixedInputs
    WheelVersion <- MCVersions
    OsNeeded = {"libc"}
    OriginPaths = {"$ORIGIN"}
    UnsafeNames = {"dir/name"}
    OwnPrefixes <- MCOwnPrefixes
    ApiSets = {"api-ms-win-core"}
    System32 = {"kernel32"}
    BuilderPaths = {"/Users/runner/lib"}
    SystemPaths = {"libSystem"}
    MaxAttempts = 2
    MaxFaults = 1
    MaxRevision = 2
    Moving = {"canvas"}
    Variants = {1}
    Faults = {"lost"}
INVARIANTS OneRevisionPerRelease
CHECK_DEADLOCK FALSE
