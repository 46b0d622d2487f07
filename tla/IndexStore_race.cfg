CONSTANTS
  Orders = {o1, o2}
  Quarantine = 1
  MaxTime = 1
  MaxInFlight = 2
  MaxCrashes = 1
  NoState = NoState
SPECIFICATION Spec
INVARIANT AddressesExclusive
