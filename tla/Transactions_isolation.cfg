CONSTANTS
    Client = {c1, c2}
    Key = {k1}
    DirectOps = {"SET"}
    QueuedOps = {"SET", "INCR"}
    Nobody = Nobody
    MaxQueue = 1
    MaxN = 2
SPECIFICATION Spec
PROPERTIES
    ExecIsolated
CHECK_DEADLOCK FALSE
