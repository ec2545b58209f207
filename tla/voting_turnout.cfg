SPECIFICATION FairSpec
CONSTANTS
    Agent = {a1, a2}
    Worker = {w1, w2}
    Vote = {v1}
    Option = {o1}
    BadOption = BadOption
    MaxRestarts = 0
CHECK_DEADLOCK FALSE
PROPERTIES FullTurnoutCloses
