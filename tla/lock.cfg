SPECIFICATION FairSerialSpec
CONSTANTS
    Process = {p1, p2, p3}
    Pid = {n1, n2, n3, n4, n5}
    NoFile = NoFile
    NoPid = NoPid
    MaxAccidents = 4
INVARIANTS MutualExclusion HolderNamed
PROPERTIES StaleLockTaken
