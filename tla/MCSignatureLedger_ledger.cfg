CONSTANTS
    s1 = s1
    s2 = s2
    s3 = s3
    p1 = p1
    p2 = p2
    Signatures = {s1, s2, s3}
    Presses = {p1}
    SigOf <- MCSigOf
    Callers = {c1, c2}
    None = None
    MaxHops = 2
    MaxSeen = 2
    Renames <- MCRenames
SPECIFICATION LedgerSpec
SYMMETRY Symm
INVARIANTS LedgerAddsUp
PROPERTIES LedgerRemembers
