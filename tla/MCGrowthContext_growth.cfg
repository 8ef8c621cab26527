CONSTANTS
    d1 = d1
    d2 = d2
    a = a
    b = b
    Slots = {w1, w2}
    Jobs = {j1}
    Pages = {p1}
    Statements = {a, b}
    Domains = {d1, d2}
    NoText = NoText
    NoDomain = NoDomain
    Says <- MCSays
    KindMax = 2
    GoneMax = 1
    Attempts = 2
    FineClock = TRUE
    MaxAsks = 4
    MaxCrashes = 1
    MaxLost = 1
SPECIFICATION FairSpec
PROPERTIES PersonsWordStands DecisionsStand AnsweredStaysAnswered OldPagesOnlyByALateRead ResearchSettles
CHECK_DEADLOCK FALSE
