SPECIFICATION EnrolledSpec
CONSTANTS
    Subjects = {s1}
    Keys = {k1, k2, k3}
    NoKey = NoKey
    Requests = {r1, r2}
    Checks = {}
    Ops = {"renew"}
    MaxOrders = 3
    Faults = {}
    MaxFaults = 0
    SleepOrders = TRUE
CHECK_DEADLOCK FALSE
PROPERTIES
    StoredEventually
    ReplacedIsDeleted
