SPECIFICATION Spec
CONSTANTS
    Fetches = {f1}
    Imports = {}
    MaxMessages = 2
PROPERTIES
    KilledWorkerDispatchesNothing
CHECK_DEADLOCK FALSE
