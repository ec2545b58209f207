SPECIFICATION FairSpec
CONSTANTS
    Agent = {a1}
    Worker = {w1, w2}
    Vote = {v1}
    Option = {o1}
    BadOption = BadOption
    MaxRestarts = 1
CHECK_DEADLOCK FALSE
PROPERTIES DeadlineCloses ResultsAnnounced
