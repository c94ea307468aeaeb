CONSTANTS
    Jobs = {j1}
    Schedules <- DailySchedules
    NoJob = NoJob
    TicksPerMinute = 2
    MinutesPerHour = 2
    HoursPerDay = 2
    Days = 2
    Longest = 3
    NoTimer = NoTimer
    Never <- NoMinute
    MaxDelay = 3
    MaxLate = 0
    MaxChanges = 2
SPECIFICATION FairSpec
PROPERTIES CronJobsComeRound
