SPECIFICATION Spec
CONSTANTS
    Nodes = {n1, n2}
    None = None
    Empty = Empty
    Garbled = Garbled
    MaxKeys = 3
    DNSKeys <- MCDNSKeys
SYMMETRY NodeSymmetry
INVARIANTS
    KeyKept
PROPERTIES
    NeverStale
    MismatchMeansRotation
