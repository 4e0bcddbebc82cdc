CONSTANTS
    p = p  q = q  r = r
    Nodes = {p, q, r}
    Owner = p
    Roles <- OnlyTwo
    VersionArgs <- ThreeVersions
    MaxHistory = 3
    MaxForced = 0
SPECIFICATION Spec
PROPERTY CheckedBeforeUpload
