CONSTANTS
    p = p
    q = q
    r = r
    Nodes = {p, q, r}
    Owner = p
    Roles <- AllRoles
    VersionArgs <- TwoVersions
    MaxHistory = 2
    MaxForced = 1
SPECIFICATION FairSpec
INVARIANTS
    TypeOK
    InstallAgreement
    CompleteHistories
PROPERTIES
    ImplementsPackageHistory
    ReplicasConverge
