SPECIFICATION Spec
CONSTANTS
    Subjects = {s1}
    Keys = {k1}
    NoKey = NoKey
    Requests = {r1, r2}
    Checks = {}
    Ops = {"add", "delete"}
    MaxOrders = 1
    Faults = {}
    MaxFaults = 0
    SleepOrders = FALSE
SYMMETRY CallSymmetry
CHECK_DEADLOCK FALSE
PROPERTIES
    DeleteIsScheduled
