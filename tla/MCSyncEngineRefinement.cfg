CONSTANTS
    NumKeys = 2
    Objects <- SmallObjects
    Absent = Absent
    LargeSize = 2
    SrcScope = {1, 2}
    DstScope = {1, 2}
    Included = {1, 2}
    InitSrc <- SrcNewKey
    InitDst <- DstOrphan
    Configs = {mirror, dry}
    NoConfig = NoConfig
    WellFormed = {mirror, dry}
    DryRun = {dry}
    Deleting = {mirror}
    Repeating = {mirror}
    Workers = {w1, w2}
    Ready = Ready
    Exited = Exited
    PageSize = 1
    SaveEvery = 1
    FailedCap = 1
    NoCheckpoint = NoCheckpoint
    Slots = {1, 2}
    DiskMayFail = TRUE
    MaxEdits = 0
SPECIFICATION FairSpec
PROPERTIES ControlSpec RunEventuallyEnds
