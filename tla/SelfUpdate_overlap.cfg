SPECIFICATION Spec
CONSTANTS
    Updates = {u1, u2}
    Code = {server, assets}
    Deps = deps
    Gateway = gateway
    Versions = {v0, v1}
    Installed = v0
    None = None
INVARIANT UpdatesDoNotMix
