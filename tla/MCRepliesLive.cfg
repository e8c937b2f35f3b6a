SPECIFICATION FairSpec
CONSTANTS
    Calls = {c1, c2}
    NoCall = NoCall
    Addrs = {a1, a2}
    Reuse = FALSE
    Methods = {"get", "list", "expiring"}
    MaxRecords = 2
    Faults = {"ask", "send", "dbd"}
    MaxFaults = 1
CHECK_DEADLOCK FALSE
INVARIANTS
    OwnReplies
    LeavesNothing
PROPERTY CallsReturn
