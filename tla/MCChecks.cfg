SPECIFICATION Spec
CONSTANTS
    Subjects = {s1}
    Keys = {k1, k2, k3}
    NoKey = NoKey
    Requests = {r1, r2}
    Checks = {x1}
    Ops = {"add", "renew"}
    MaxOrders = 3
    Faults = {"enrolld", "collectd", "revoked", "dbd", "publish", "ca",
              "db", "abort", "check"}
    MaxFaults = 1
    SleepOrders = TRUE
SYMMETRY CallSymmetry
CHECK_DEADLOCK FALSE
INVARIANTS
    NoSubjectLost
    RevokedIsReplaced
    CollectPending
    DeletionPending
