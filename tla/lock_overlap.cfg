SPECIFICATION Spec
CONSTANTS
    Process = {p1, p2}
    Pid = {n1, n2}
    NoFile = NoFile
    NoPid = NoPid
    MaxAccidents = 0
INVARIANTS MutualExclusion
