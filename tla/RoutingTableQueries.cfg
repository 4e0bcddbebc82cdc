SPECIFICATION Spec
CONSTANTS
    Bits = 3
    Me <- MCMe
    Contacts <- AllContacts
    Handlers = {}
    Probes = {}
    bucketSize = 3
    replacementCacheSize = 2
INVARIANTS
    FindClosestComplete
    FindClosestNearTarget
    RefreshHeadsForBucket
PROPERTIES
    RecencyOrder
