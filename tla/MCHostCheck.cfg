SPECIFICATION FairSpec
CONSTANTS
    Subjects = {s1}
    Hosts = {h1}
    Scans = {sc1, sc2}
    RevokeHours = 1
    MaxRecords = 1
    MaxChanges = 2
    Faults = {"scan", "dial", "checkerd", "db"}
    MaxFaults = 1
INVARIANT TypeOK
PROPERTIES
    GivenUpOnDate
    GivenUpIsDown
    GivenUpEventually
    StatusConverges
