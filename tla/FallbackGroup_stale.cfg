\* Interrupt race (violation): two concurrent TCP dialers; a connection
\* registered after another dial swapped the selection survives.
CONSTANTS
  p = p
  b = b
  Members <- MCMembers
  Support <- MCSupportTCP
  Dialers = {d1, d2}
  InterruptExternal = FALSE
  MaxFlips = 2
  MaxSpawned = 2
  Nil = Nil
SPECIFICATION Spec
INVARIANT NoStaleConnection
