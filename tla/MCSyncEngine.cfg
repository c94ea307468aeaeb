CONSTANTS
    NumKeys = 4
    Objects <- AllObjects
    Absent = Absent
    LargeSize = 2
    SrcScope = {1, 2, 3}
    DstScope = {1, 3, 4}
    Included = {1, 2}
    InitSrc <- SrcTwoNew
    InitDst <- DstThird
    Configs = {mirror, bad}
    NoConfig = NoConfig
    WellFormed = {mirror}
    DryRun = {}
    Deleting = {mirror}
    Repeating = {mirror}
    Workers = {w1, w2}
    Ready = Ready
    Exited = Exited
    PageSize = 2
    SaveEvery = 2
    FailedCap = 1
    NoCheckpoint = NoCheckpoint
    Slots = {1}
    DiskMayFail = FALSE
    MaxEdits = 1
SPECIFICATION Spec
INVARIANTS TypeOK CheckpointSound StatsAddUp FailuresRemembered StopIsFinal
PROPERTIES OnlyOrphansDeleted CompletedMeansMirrored
