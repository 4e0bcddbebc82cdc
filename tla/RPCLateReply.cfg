SPECIFICATION FairSpec
CONSTANTS
    n1 = n1
    n2 = n2
    None = None
    Nodes = {n1, n2}
    Links <- OneWay
    Transactions = {t1}
    Closers = {}
    RequestTypes = {"PING", "FIND_CONTACT", "STORE"}
CHECK_DEADLOCK FALSE
INVARIANTS
    NoPanic
