CONSTANTS
    s1 = s1
    s2 = s2
    A = A
    B = B
    Sessions = {s1, s2}
    Surfaces = {A, B}
    NoPath = NoPath
    Facts <- MCFacts
    Work = {}
    RuleSets <- MCRuleSets
    Transcripts <- MCTranscripts
    Span = 2
    CorpusMax = 2
    OriginMin = 2
    DropoffMin = 1
    DropoffPercent = 50
    RepeatMin = 2
    StruggleMin = 1
    ErrorMin = 1
    Correlation = 2
    BeatMin <- MCBeatMin
    ObservedMin = 1
    Told <- MCTold
    MaxAt = 3
    MaxEvents = 3
    MaxRecordings = 1
    MaxPulls = 1
SPECIFICATION Spec
SYMMETRY Symm
INVARIANTS CountsAreOfTheKept DropoffsEndThere NoClaimWithoutProof OneIdentityPerProblem
PROPERTIES VerdictsOnlyImprove
