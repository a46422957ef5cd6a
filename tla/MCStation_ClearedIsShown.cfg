SPECIFICATION Spec
CONSTANTS
    Builds = {TRUE}
    HOLD = 1
    MaxDrops = 0
INVARIANT ClearedIsShown
