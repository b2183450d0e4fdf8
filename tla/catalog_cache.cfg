SPECIFICATION FairSpec
CONSTANTS
    s1 = s1
    s2 = s2
    r1 = r1
    r2 = r2
    r3 = r3
    Server = {s1, s2}
    Request = {r1, r2, r3}
    ServerOf <- MCServerOf
    None = None
    MaxAge = 2
    Timeout = 2
    MaxCommits = 2
    MaxAccidents = 2
PROPERTIES
    AnswersAreRecent
    NeverGoesBack
    EventuallyCurrent
