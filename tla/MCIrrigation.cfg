SPECIFICATION Spec
CONSTANTS
    MINUTE = 4
    HOUR = 4
    DAY = 3
    Timers = {0, 2}
    Hours = {0, 1, 2}
    Intervals = {1, 3}
    FirstTimers <- MCFirstTimers
    FirstStart = 0
    FirstStop = 2
    FirstInterval = 1
    Jumps = {1, 6, 47}
    MaxLag = 1
    MaxWrites = 1
    MaxJumps = 1
INVARIANTS EveryInterval AnHourPerChange ValvesNested
PROPERTIES WatersAgain
