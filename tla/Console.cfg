SPECIFICATION ConsoleSpec
CONSTANTS
    Onions = {x, y}
    Tries = 2
    MaxClicks = 3
    MaxPolls = 2
    MaxLosses = 1
    MaxRestarts = 1
    MaxPushes = 1
    MaxChecks = 1
    None = None
PROPERTIES
    ApplyMatchesPlan
    PanelSettles
CONSTRAINT Apart
CHECK_DEADLOCK FALSE
