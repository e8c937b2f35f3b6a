SPECIFICATION Spec
CONSTANTS
    Calls = {c1, c2, c3}
    NoCall = NoCall
    Addrs = {a1}
    Reuse = TRUE
    Methods = {"get", "add", "list"}
    MaxRecords = 2
    Faults = {"setup", "ask", "send", "db", "publish"}
    MaxFaults = 2
SYMMETRY Symmetric
CHECK_DEADLOCK FALSE
INVARIANTS
    TypeOK
    OwnReplies
    Complete
    RefusedOnlyByLeak
    LeavesNothing
PROPERTY ImplementsRpc
