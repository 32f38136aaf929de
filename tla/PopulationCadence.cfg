SPECIFICATION Spec
CONSTANTS
    NSubscribers = 2
    HistoryLimit = 2
    CheckpointEvery = 2
    DueWindows = {1, 2}
    MaxFaults = 3
    CatchUpLimit = 2
    Period = 1
    MaxTime = 3
    MaxWindows = 5
    MaxModeChanges = 2
INVARIANTS OneGenerationSuffices CatchUpOnlyForActiveTime SeenInOrder StoredOncePerBus
PROPERTIES ImplementsCadenceLedger
CHECK_DEADLOCK FALSE
