\* Close racing loopCheck's idle stop, then a late Touch, on a Go runtime
\* without stale ticks.
CONSTANTS
  StaleTick = FALSE
SPECIFICATION Spec
INVARIANT ReleasedAfterClose
