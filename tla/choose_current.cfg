SPECIFICATION Spec
CONSTANTS
    h1 = h1
    h2 = h2
    none = none
    None = none
    Hash = {h1, h2}
    Time = {1, 2}
    Count = {1, 2}
    Inputs <- SmallInputs
INVARIANTS FindsNewest KeepsNewest BestSoFar FoldIsSummary
CHECK_DEADLOCK FALSE
