CONSTANTS
    NumBackups = 2
    NumTargets = 2
    Local = {1}
    Keys = {k1}
    Plain = Plain
    InitJobs <- TwoJobs
    Policies = {0, 1}
    Periods <- OneWeek
    NoPolicy = NoPolicy
    NoJob = NoJob
    Listed = TRUE
    Passes = {user}
    Verifiers = {v1}
    Deleters = {d1}
    Damaged = Damaged
    Gone = Gone
    NoSum = NoSum
    MaxRuns = 2
    MaxOps = 1
    MaxFaults = 1
SPECIFICATION Spec
CHECK_DEADLOCK FALSE
INVARIANTS TypeOK ChecksumMatches DeletedMeansGone RetentionSparesNewest
