\* Ticker lifecycle: one Close, any number of Touches, stale ticks possible.
CONSTANTS
  StaleTick = TRUE
SPECIFICATION Spec
INVARIANT LoopOwnsTicker
PROPERTY QuiescesWhenIdle
