SPECIFICATION FairSpec
CONSTANTS
    Calls = {c1}
    NoCall = NoCall
    Addrs = {a1}
    Reuse = FALSE
    Methods = {"get"}
    MaxRecords = 1
    Faults = {}
    MaxFaults = 0
CHECK_DEADLOCK FALSE
PROPERTY StopCloses
