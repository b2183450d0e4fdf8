SPECIFICATION Spec
CONSTANTS
    h1 = h1
    h2 = h2
    h3 = h3
    none = none
    None = none
    Hash = {h1, h2, h3}
    Time = {1, 2}
    Count = {1, 2}
    Items <- SmallItems
INVARIANTS ShownIsNewest
PROPERTIES ArchiveChangesNothingShown
