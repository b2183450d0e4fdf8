SPECIFICATION CommitSpec
CONSTANTS
    h1 = h1
    h2 = h2
    h3 = h3
    h4 = h4
    Absent = Absent
    Machine = {m1, m2, m3}
    Hash = {h1, h2, h3, h4}
    Revision <- Disputed
    MaxRank = 2
    Grace = 0
    SweepInterval = 0
    MaxAttempts = 2
SYMMETRY Machines
INVARIANTS CommittedKept OneRepoPerSession
PROPERTIES CommitsAreAtomic
