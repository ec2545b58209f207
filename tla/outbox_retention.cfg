SPECIFICATION FairSpec
CONSTANTS
    MessageId = {m1, m2}
    NoMessage = NoMessage
    Digest = {d1}
    Wanted = {m2}
    Subscription = {s1}
    Since = {0}
    MaxSeq = 2
    Retries = 0
    Legacy = {m1}
    Horizon = 2
    MaxAge = 1
    MaxRestarts = 1
CHECK_DEADLOCK FALSE
INVARIANTS HistorySound
PROPERTIES DeliveriesResolve
