SPECIFICATION LiveSpec
CONSTANTS
    h1 = h1
    h2 = h2
    h3 = h3
    h4 = h4
    Absent = Absent
    Machine = {m1, m2}
    Hash = {h1, h2}
    Revision <- Returning
    MaxRank = 2
    Grace = 0
    SweepInterval = 0
    MaxAttempts = 1
    MaxDisturbances = 1
PROPERTIES EventuallyArchived
    EventuallyReclaimed
