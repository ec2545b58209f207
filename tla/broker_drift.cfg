SPECIFICATION BrokerSpec
CONSTANTS
    Agent = {a1, a2}
    Room = {r1}
    Worker = {w1, w2}
    NoAgent = NoAgent
    NoWorker = NoWorker
CHECK_DEADLOCK FALSE
INVARIANTS TurnHolderIsMember
