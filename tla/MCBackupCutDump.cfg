CONSTANTS
    NumBackups = 2
    NumTargets = 2
    Local = {1}
    Keys = {k1}
    Plain = Plain
    InitJobs <- PlainJob
    Policies = {1}
    Periods = {}
    NoPolicy = NoPolicy
    NoJob = NoJob
    Listed = TRUE
    Passes = {user}
    Verifiers = {v1}
    Deleters = {d1}
    Damaged = Damaged
    Gone = Gone
    NoSum = NoSum
    MaxRuns = 2
    MaxOps = 0
    MaxFaults = 0
SPECIFICATION Spec
CHECK_DEADLOCK FALSE
INVARIANTS CompletedDumpIsWhole
