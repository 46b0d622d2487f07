SPECIFICATION UpstreamSpec
CONSTANTS
    Updates = {u1, u2}
    Code = {server, assets, scripts}
    Deps = deps
    Gateway = gateway
    Versions = {v0, v1}
    Installed = v0
    None = None
    Archives <- MCArchives
    MaxEntries <- MCMaxEntries
    MaxInflated <- MCMaxInflated
    MaxHops = 1
    MaxClock = 5
INVARIANTS
    InstalledWhole
    Recoverable
    ArchiveSafe
    ReportTrue
CONSTRAINT Alone
SYMMETRY Symmetry
