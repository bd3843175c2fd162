CONSTANTS
    Client = {c1, c2}
    Key = {k1, k2}
    DirectOps = {"SET", "DEL"}
    QueuedOps = {"SET"}
    Nobody = Nobody
    MaxQueue = 1
    MaxN = 1
SPECIFICATION Spec
INVARIANTS
    AcknowledgedWritesAreSeen
    OnlyNotificationsDeadlock
CHECK_DEADLOCK FALSE
SYMMETRY MCSymmetry
