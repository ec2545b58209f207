SPECIFICATION BrokerSpec
CONSTANTS
    Agent = {a1, a2, a3}
    Room = {r1}
    Worker = {w1, w2, w3}
    NoAgent = NoAgent
    NoWorker = NoWorker
SYMMETRY Symmetry
CHECK_DEADLOCK FALSE
INVARIANTS MembershipSound TokenTracksMembers
