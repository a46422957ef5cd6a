SPECIFICATION Spec
CONSTANTS
    RAWBUF = 4
    GAP_TICKS = 4
    TIMER = 9
    HASHED = 3
INVARIANTS FirstIsGap
