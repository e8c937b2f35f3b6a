SPECIFICATION FairSpec
CONSTANTS
    Subjects = {s1}
    Addrs = {a1, a2}
    NoToken = NoToken
    GetJobs = {j1}
    UpdateJobs = {j2}
    Life = 3
    RunEvery = 1
    MaxRecords = 2
    MaxFaults = 1
INVARIANTS
    TypeOK
    KeepsToken
    PairMatches
PROPERTY FilesConverge
