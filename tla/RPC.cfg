SPECIFICATION FairSpec
CONSTANTS
    n1 = n1
    n2 = n2
    None = None
    Nodes = {n1, n2}
    Links <- BothWays
    Transactions = {t1, t2}
    Closers = {n1}
    RequestTypes = {"PING", "FIND_CONTACT", "STORE"}
CHECK_DEADLOCK FALSE
INVARIANTS
    TypeOK
    ReplyMeansServed
    PendingExact
PROPERTIES
    LateReplyDropped
    CallReturns
