SPECIFICATION FairSpec
CONSTANTS
    Fetches = {f1}
    Imports = {i1}
    MaxMessages = 2
INVARIANTS
    NoDanglingContext
PROPERTIES
    OnlyCommandsAreOvertaken
    NothingFreedUnderAScript
    TeardownTaken
    AnswersTaken
    EndedConnectionExits
CHECK_DEADLOCK FALSE
