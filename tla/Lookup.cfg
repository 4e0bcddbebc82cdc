SPECIFICATION FairSpec
CONSTANTS
    Bits = 3
    Me <- MCMe
    Peers <- MCPeers
    Target <- MCTarget
    bucketSize = 3
    alpha = 2
CHECK_DEADLOCK FALSE
INVARIANTS
    TypeOK
    AskedOnce
    FindsClosest
    OnlyValidData
    GivesUpLast
PROPERTIES
    LookupEnds
