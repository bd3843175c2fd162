CONSTANTS
    Client = {c1, c2}
    TxClient = {c1}
    Key = {k1}
    DelKey = {k1}
    WatchedKey = {k1}
    Thread = Thread
    Nobody = Nobody
    MaxPending = 1
SPECIFICATION FairSpec
INVARIANTS
    TypeOK
    ExpiryIsPaid
    DeadAreKnown
PROPERTIES
    LateReadsOnlyInSweep
    ExpiredAreRemoved
CHECK_DEADLOCK FALSE
