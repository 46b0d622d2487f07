SPECIFICATION MCSpec
CONSTANTS
    Tasks = {t1, t2}
    Codes = {a, b}
    Nonces = {n1, n2}
    MaxLists = 2
    MaxClicks = 2
    MaxOutages = 1
    MaxSwitches = 1
    x = x
    y = y
    Nodes = {x, y}
    Listed <- MCListed
    ChecksOf <- MCChecks
    DaysOf <- MCDays
    Signed <- MCSigned
    NameOf <- MCName
    Window = 2
    MaxPolls = 2
    MaxTurns = 2
    Nil = Nil
    Pending = Pending
    Failed = Failed
    None = None
    Error = Error
    Waiting = Waiting
INVARIANTS
    PanelHonest
    CardsTrue
PROPERTY ScreenHonest
CONSTRAINT Apart
CHECK_DEADLOCK FALSE
