SPECIFICATION ProbeSpec
CONSTANTS
    keyed = keyed
    plain = plain
    waiting = waiting
    broken = broken
    torn = torn
    Nodes = {keyed, plain, waiting, broken, torn}
    Keyed = {keyed}
    Tls = {waiting}
    Broken = {broken, torn}
    Lists <- MCLists
    Queues <- MCQueues
    Workers = {w1, w2}
    Heights = {100}
    Versions = {v}
    Indexers = {x}
    Window = 2
    Retention = 1
    MaxCycles = 2
    MaxDays = 2
    MaxCrashes = 1
    None = None
INVARIANT
    RollupAgrees
PROPERTIES
    ProbesHonest
    EveryCycleEnds
CHECK_DEADLOCK FALSE
