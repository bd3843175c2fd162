CONSTANTS
    Client = {c1, c2}
    TxClient = {}
    Key = {k1, k2}
    DelKey = {}
    WatchedKey = {}
    Thread = Thread
    Nobody = Nobody
    MaxPending = 1
SPECIFICATION Spec
PROPERTIES
    OnlyExpiredAreDeleted
