CONSTANTS
  Codes = {c1}
  DomainNames = {d1}
  Resolvers = {r1, r2, r3}
  Agreement = 2
  Liars = {r3}
  Grace = 2
  Recheck = 2
  Pending = 1
  NoClaim = NoClaim
SPECIFICATION FairSpec
INVARIANT RevokedBadgeStaysDown
