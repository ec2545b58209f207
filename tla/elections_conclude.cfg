SPECIFICATION FairSpec
CONSTANTS
    Agent = {a1, a2}
    Room = {r1}
    NoAgent = NoAgent
    MaxElections = 2
CHECK_DEADLOCK FALSE
INVARIANT ElectionsSound
PROPERTIES ElectionsConclude GoneRoomsSettle
