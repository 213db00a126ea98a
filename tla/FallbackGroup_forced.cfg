\* Forced checks per call (violation): one dialer, both members may be down;
\* a call that fails twice spawns two forced checks.
CONSTANTS
  p = p
  b = b
  Members <- MCMembers
  Support <- MCSupportTCP
  Dialers = {d1}
  InterruptExternal = FALSE
  MaxFlips = 2
  MaxSpawned = 2
  Nil = Nil
SPECIFICATION Spec
INVARIANT ForcedCheckOncePerCall
