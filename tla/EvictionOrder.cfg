CONSTANTS
    Key = {k1, k2, k3, k4}
    CapacityBytes = 1
    MaxUsage = 3
    MaxFreq = 4
SPECIFICATION FairHistSpec
INVARIANTS
    CacheConsistent
    ListsAreInRecencyOrder
PROPERTIES
    ImplementsBoundedStore
    EvictionTerminates
