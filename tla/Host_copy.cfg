SPECIFICATION Spec
CONSTANTS
    Records = {r}
    Vanity = {v}
    Fresh = {k1, k2}
    MaxRuns = 2
    MaxFailures = 1
    MaxEdits = 1
    MaxShips = 1
    MaxReboots = 1
    None = None
INVARIANT ConfirmedKept
CONSTRAINT Apart
CHECK_DEADLOCK FALSE
