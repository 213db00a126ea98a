\* LoadBalance under each strategy: members a and b, two concurrent TCP
\* callers, one destination, one outage flip.
CONSTANTS
  a = a
  b = b
  x = x
  Members <- MCMembers
  Support <- MCSupportBoth
  CallNets = {"tcp"}
  Dialers = {d1, d2}
  Strategies = {"round-robin", "consistent-hashing", "sticky-sessions"}
  Dests = {x}
  Score <- MCScore
  RRModulus = 2
  MaxFlips = 1
  MaxSpawned = 1
  Nil = Nil
SPECIFICATION Spec
INVARIANT TypeOK
INVARIANT NeverRedialsExcluded
PROPERTY CallReturns
