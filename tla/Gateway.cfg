SPECIFICATION DeskSpec
CONSTANTS
    Networks = {bitcoin, testnet4}
    Home = bitcoin
    Codes = {a}
    Dojos = {}
    Personal = None
    Orders = {o1, o2}
    Calls = {k1, k2}
    MaxIndex = 1
    MaxCrashes = 1
    Slots = {s1, s2}
    MaxRedraws = 1
    Tries = 2
    MaxClicks = 4
    None = None
    Blank = Blank
    Garbled = Garbled
INVARIANTS
    StartsAgain
    ConfirmedLasts
    QuotedAsBound
    OrdersApart
    DeskHonest
CONSTRAINT InBounds
SYMMETRY Symmetry
CHECK_DEADLOCK FALSE
