SPECIFICATION FairSpec
CONSTANTS
    Nodes = {n1}
    Backends = {b1}
    Updater = updater
    Grace = 1
    MaxFails = 1
    NoEntry = NoEntry
PROPERTIES
    ListFollowsVerdict
    ChecksSeedHistory
