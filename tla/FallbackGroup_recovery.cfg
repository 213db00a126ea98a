\* Failover and recovery (S1): p and b TCP-only, one dialer at a time,
\* p and b may each go down and come back.
CONSTANTS
  p = p
  b = b
  Members <- MCMembers
  Support <- MCSupportTCP
  Dialers = {d1}
  InterruptExternal = FALSE
  MaxFlips = 2
  MaxSpawned = 1
  Nil = Nil
SPECIFICATION Spec
INVARIANT TypeOK
PROPERTY RecoversToPrimary
