SPECIFICATION Spec
CONSTANTS
    h1 = h1
    h2 = h2
    h3 = h3
    h4 = h4
    Absent = Absent
    Machine = {m1}
    Hash = {h1, h2, h3}
    Revision <- Reverted
    MaxRank = 2
    Grace = 1
    SweepInterval = 1
    MaxAttempts = 5
INVARIANTS NoDanglingReference
PROPERTIES SweepSparesRecent SweepSparesReferenced
