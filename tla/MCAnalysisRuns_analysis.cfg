CONSTANTS
    a = a
    Workers = {w1, w2}
    Projects = {a}
    Signatures = {s1, s2}
    ProjectOf <- MCProjectOf
    Nobody = Nobody
    None = None
    Lease = 0
    ProjectCap = 2
    OrgCap = 3
    Configured = {TRUE}
    MaxSpan = 1
    MaxFaults = 1
SPECIFICATION FairSpec
INVARIANTS NothingIsBoughtTwice CapsHoldUpToRaces
PROPERTIES DismissedCostsNothing EveryCandidateIsRecorded
