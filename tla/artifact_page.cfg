SPECIFICATION PageFairSpec
CONSTANTS
    MaxRevision = 3
    Broken = {1}
    Throws = {2}
    MaxDelay = 3
    MaxWire = 2
    MaxFaults = 3
CHECK_DEADLOCK FALSE
INVARIANTS PageSound
PROPERTIES StopIsFinal PageConverges KeepsPromise
