SPECIFICATION Spec
CONSTANTS
    Bits = 3
    Me <- MCMe
    Contacts <- AllContacts
    Handlers = {}
    Probes = {}
    bucketSize = 2
    replacementCacheSize = 2
INVARIANTS
    FindClosestExact
