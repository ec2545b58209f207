SPECIFICATION Spec
CONSTANTS
    Client = {c1, c2}
    Name = {n1, n2}
    Operation = {"acquire", "heartbeat", "release", "readiness"}
    Progress = {p1}
    NoProgress = NoProgress
    Expiry = 2
    MaxResources = 1
    MaxGen = 1
    MaxTime = 2
    MaxQueue = 2
SYMMETRY Symmetry
CHECK_DEADLOCK FALSE
INVARIANTS NothingOutlivesRoom WithinLimits
PROPERTIES ProgressClock
