SPECIFICATION Spec
CONSTANTS
    Subjects = {s1}
    Keys = {k1, k2, k3}
    NoKey = NoKey
    Requests = {r1, r2}
    Checks = {}
    Ops = {"add", "renew"}
    MaxOrders = 3
    Faults = {"enrolld", "collectd", "revoked", "dbd", "publish", "ca", "body", "key",
              "db", "update", "abort", "broker"}
    MaxFaults = 1
    SleepOrders = FALSE
SYMMETRY CallSymmetry
CHECK_DEADLOCK FALSE
INVARIANTS
    TypeOK
    IInv
    KeyMatchesCert
    NoSubjectLost
    RevokedIsReplaced
    ReplacedIsRevoked
    RevocationsKept
