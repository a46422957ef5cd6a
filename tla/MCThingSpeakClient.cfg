SPECIFICATION Spec
CONSTANTS
    Fields = {1, 2}
    Values = {v1}
    None = None
    MaxCalls = 3
INVARIANTS StatusIsTrue ClosedWhenIdle
CHECK_DEADLOCK FALSE
