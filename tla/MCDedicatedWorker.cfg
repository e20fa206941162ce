SPECIFICATION FairSpec
CONSTANTS
    Posters = {p1}
    MaxCommands = 2
    MaxEnvelopes = 1
    MaxPosts = 1
INVARIANTS
    TeardownUndisturbed
    QuiescentIsDormant
PROPERTIES
    CommandsReceived
    PostsDrained
    EnvelopesTaken
    DormantBecomesQuiescent
    TerminateJoins
CHECK_DEADLOCK FALSE
