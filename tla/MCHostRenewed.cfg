SPECIFICATION FairSpec
CONSTANTS
    Subjects = {s1}
    Hosts = {h1}
    Scans = {sc1}
    RevokeHours = 1
    MaxRecords = 2
    MaxChanges = 1
    Faults = {}
    MaxFaults = 0
PROPERTIES
    GivenUpOnDate
    GivenUpEventually
    StatusConverges
