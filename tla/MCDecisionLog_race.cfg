CONSTANTS
    Recorders = {w1, w2, w3}
    Answers = {quiet, posted, failed}
    MaxClock = 3
    MaxRecords = 4
SPECIFICATION LogSpec
SYMMETRY Symm
INVARIANTS OneHistory
PROPERTIES HistoryIsKept
