SPECIFICATION Spec
CONSTANTS
    Connections = {a}
    RequestIds = {q}
    Capacity = 8
    MaxFrames = 3
    MaxFaults = 1
CHECK_DEADLOCK FALSE
INVARIANTS PermitsAccounted BindingKept CompletionsInOrder NoOrphanSession QuietMeansReleased
PROPERTIES FenceHolds NoProtocolFailure
