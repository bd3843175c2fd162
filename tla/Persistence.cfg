CONSTANTS
    Key = {k1, k2}
    Value = {v1, v2}
    Garbage = Garbage
    None = None
    Modes = {"snapshot", "aof", "none"}
    MaxFaults = 1
SPECIFICATION FairSpec
INVARIANTS
    TypeOK
    SavedValuesWereHeld
PROPERTIES
    ImplementsSnapshotStore
    SnapshotsCatchUp
