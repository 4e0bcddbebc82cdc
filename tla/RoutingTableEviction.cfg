SPECIFICATION FairSpec
CONSTANTS
    Bits = 3
    Me <- MCMe
    Contacts <- CrowdedContacts
    Handlers = {h1, h2}
    Probes = {p1, p2}
    bucketSize = 2
    replacementCacheSize = 1
INVARIANTS
    BucketsSound
    ReplacementsSound
    OneProbePerBucket
    EvictionHasReplacement
    WaitEvictionSound
PROPERTIES
    LeavesOnlyWhenDead
    EvictionCompletes
