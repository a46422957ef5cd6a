SPECIFICATION Spec
CONSTANTS
    SlowDays <- MCSlowDays
    Seconds <- MCSeconds
INVARIANTS BreaksToDate MakesTimeAgain
CHECK_DEADLOCK FALSE
