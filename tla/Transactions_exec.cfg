CONSTANTS
    Client = {c1, c2}
    Key = {k1}
    DirectOps = {}
    QueuedOps = {"SET", "DEL", "INCR", "LPUSH"}
    Nobody = Nobody
    MaxQueue = 2
    MaxN = 2
SPECIFICATION Spec
INVARIANTS
    TypeOK
    NoLostUpdate
    LocksMatchScopes
PROPERTIES
    ExecIsolated
CHECK_DEADLOCK FALSE
SYMMETRY MCSymmetry
