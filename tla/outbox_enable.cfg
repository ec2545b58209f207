SPECIFICATION Spec
CONSTANTS
    MessageId = {m1, m2}
    NoMessage = NoMessage
    Digest = {d1}
    Wanted = {m1, m2}
    Subscription = {s1}
    Since = {0}
    MaxSeq = 2
    Retries = 1
    Legacy = {}
    Horizon = 0
    MaxAge = 0
    MaxRestarts = 0
CHECK_DEADLOCK FALSE
INVARIANTS EnableReplays
