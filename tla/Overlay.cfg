SPECIFICATION Spec
CONSTANTS
    Bits = 3
    Nodes <- MCNodes
    Bootstrap <- MCBootstrap
    Key <- MCKey
    Writers <- MCWriters
    Settings <- MCSettings
    bucketSize = 2
CHECK_DEADLOCK FALSE
INVARIANTS
    TypeOK
    Connected
PROPERTIES
    PutGet
