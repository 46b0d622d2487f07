SPECIFICATION UpstreamSpec
CONSTANTS
    Updates = {u1, u2}
    Code = {server, assets, scripts}
    Deps = deps
    Gateway = gateway
    Versions = {v0, v1}
    Installed = v0
    None = None
    Archives <- MCArchives
    MaxEntries <- MCMaxEntries
    MaxInflated <- MCMaxInflated
    MaxHops = 1
    MaxClock = 5
INVARIANT UpdateBringsAll
CONSTRAINT Alone
SYMMETRY Symmetry
