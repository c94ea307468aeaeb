CONSTANTS
    Transfers = {t1, t2}
    Nobody = Nobody
    Rates <- FittingRates
    ChunkSizes <- FittingChunks
    TicksPerSecond = 2
    MaxQueue = 3
    MaxClock = 4
SPECIFICATION BudgetFairSpec
INVARIANTS TypeOK NoLostWakeup BurstBounded ThroughputBounded
PROPERTIES ChunkEventuallySent TimerMissesLessThanATick
