SPECIFICATION AcceptedSpec
CONSTANTS
    Subjects = {s1}
    Keys = {k1, k2, k3}
    NoKey = NoKey
    Requests = {r1}
    Checks = {}
    Ops = {"renew"}
    MaxOrders = 3
    Faults = {"enrolld", "collectd", "revoked", "dbd", "ca", "abort"}
    MaxFaults = 1
    SleepOrders = TRUE
CHECK_DEADLOCK FALSE
INVARIANT CollectInv
PROPERTIES
    StoredEventually
    ReplacedIsRevokedEventually
