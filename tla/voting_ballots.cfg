SPECIFICATION Spec
CONSTANTS
    Agent = {a1, a2}
    Worker = {w1, w2}
    Vote = {v1}
    Option = {o1}
    BadOption = BadOption
    MaxRestarts = 1
SYMMETRY Symmetry
CHECK_DEADLOCK FALSE
INVARIANTS VotingTypeOK AcceptedCounted ResultSound NoOrphanVotes
PROPERTIES KeepsBallotBox
