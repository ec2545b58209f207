SPECIFICATION Spec
CONSTANTS
    Client = {c1, c2}
    Name = {n1}
    Operation = {"get", "acquire", "heartbeat", "release"}
    Progress = {}
    NoProgress = NoProgress
    Expiry = 2
    MaxResources = 1
    MaxGen = 2
    MaxTime = 3
    MaxQueue = 2
SYMMETRY Symmetry
CHECK_DEADLOCK FALSE
INVARIANTS TypeOK BelieverValidates ExclusiveUse
PROPERTIES OnlyHeartbeatExtends Refines
