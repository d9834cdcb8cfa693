SPECIFICATION RecurrenceFairSpec
CONSTANTS
    MaxCycles = 3
    Jobs = {j1, j2}
    FirstDues <- RecurrenceFirstDues
    Intervals = {"weekly", "monthly", "yearly"}
    MaxAborts = 1
CHECK_DEADLOCK FALSE
INVARIANTS
    SeriesHasOneHead
    PeriodsAreKept
PROPERTIES
    DueCycleSpawns
