SPECIFICATION Spec
CONSTANTS
    Subjects = {s1}
    Hosts = {h1, h2}
    Scans = {sc1}
    RevokeHours = 1
    MaxRecords = 1
    MaxChanges = 0
    Faults = {}
    MaxFaults = 0
INVARIANT RetrievesAll
