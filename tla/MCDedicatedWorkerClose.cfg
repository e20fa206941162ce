SPECIFICATION FairSpec
CONSTANTS
    Posters = {p1}
    MaxCommands = 1
    MaxEnvelopes = 1
    MaxPosts = 1
PROPERTIES
    StopJoins
CHECK_DEADLOCK FALSE
