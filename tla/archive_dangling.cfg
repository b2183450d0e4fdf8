SPECIFICATION FlakySpec
CONSTANTS
    h1 = h1
    h2 = h2
    h3 = h3
    h4 = h4
    Absent = Absent
    Machine = {m1, m2}
    Hash = {h1, h2}
    Revision <- OldNew
    MaxRank = 2
    Grace = 1
    SweepInterval = 1
    MaxAttempts = 2
PROPERTIES SweepSparesReferenced
