SPECIFICATION Spec
CONSTANTS
    Components = {"canvas", "boringssl"}
    Targets = {"windows-x86_64", "macos-aarch64"}
    SourceRevision = "sha"
    FixedInputs <- MCFixedInputs
    WheelVersion <- MCVersions
    OsNeeded = {"libc"}
    OriginPaths = {"$ORIGIN"}
    UnsafeNames = {"dir/name"}
    OwnPrefixes <- MCOwnPrefixes
    ApiSets = {"api-ms-win-core"}
    System32 = {"kernel32"}
    BuilderPaths = {"/Users/runner/lib"}
    SystemPaths = {"libSystem"}
    MaxAttempts = 2
    MaxFaults = 1
    MaxRevision = 2
    Moving <- MCOnlyBinding
    Variants = {1}
    Faults <- MCFaults
INVARIANTS NothingUntested ReleasedIsSelfContained ReleasedTogether PrebuiltIsOneResolution CleanAttemptPublishes ReleaseVerifies RanUnderCondition
PROPERTIES PublishesOnlyWhatPassed AttemptEnds ImplementsJobGraph
CHECK_DEADLOCK FALSE
