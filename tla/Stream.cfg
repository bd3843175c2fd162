CONSTANTS
    Producer = {p1, p2}
    MaxMs = 2
    MaxSeq = 2
    MaxCount = 2
SPECIFICATION FairSpec
INVARIANTS
    TypeOK
    LaterIdsAreGreater
    ReadsHaveNoHoles
PROPERTIES
    MessagesAreReached
