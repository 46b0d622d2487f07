SPECIFICATION Spec
CONSTANTS
    Challenges = {c1}
    Sids = {s1, s2}
    Calls = {k1, k2}
    MaxCrashes = 1
    None = None
    NoStore = NoStore
INVARIANTS
    SingleUse
    SessionsHold
CONSTRAINT InOrder
