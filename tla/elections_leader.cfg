SPECIFICATION Spec
CONSTANTS
    Agent = {a1, a2}
    Room = {r1}
    NoAgent = NoAgent
    MaxElections = 2
CHECK_DEADLOCK FALSE
INVARIANTS LeaderIsMember
