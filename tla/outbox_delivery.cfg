SPECIFICATION Spec
CONSTANTS
    MessageId = {m1, m2}
    NoMessage = NoMessage
    Digest = {d1}
    Wanted = {m1, m2}
    Subscription = {s1}
    Since = {0, 2}
    MaxSeq = 2
    Retries = 1
    Legacy = {}
    Horizon = 1
    MaxAge = 1
    MaxRestarts = 1
SYMMETRY Symmetry
CHECK_DEADLOCK FALSE
INVARIANTS OutboxTypeOK AtLeastOnce OrderedObligations
PROPERTIES KeepsDeliveryPromise
