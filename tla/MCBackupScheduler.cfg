CONSTANTS
    Jobs = {j1, j2}
    Schedules <- AllSchedules
    NoJob = NoJob
    TicksPerMinute = 2
    MinutesPerHour = 2
    HoursPerDay = 2
    Days = 2
    Longest = 3
    NoTimer = NoTimer
    Never <- NoMinute
    MaxDelay = 3
    MaxLate = 1
    MaxChanges = 2
SPECIFICATION FairSpec
INVARIANTS TypeOK TimersFollowFile
PROPERTIES KeepsPromise FrequentJobsComeRound
