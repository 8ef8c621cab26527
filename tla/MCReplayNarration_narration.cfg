CONSTANTS
    Workers = {w1, w2}
    Recordings = {r1, r2}
    Instants = {1, 2}
    None = None
    Chunks = 2
    PageSize = 1
    PageCap = 2
    Budget = 2
    BeatLimit = 3
    MaxFaults = 1
SPECIFICATION FairSpec
INVARIANTS NoneIsPassedOver NothingIsDoneOver
PROPERTIES RowsOnlyGrow EveryRecordingSettles
