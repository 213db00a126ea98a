\* exchangeHedgedRacer and lookupHedgedRacer: two primaries, one fallback,
\* grace shorter or longer than the fallback timeout, the caller may cancel.
CONSTANTS
  Primary = {p1, p2}
  Fallback = {f1}
  Modes = {"exchange", "lookup"}
  Timings <- MCTimings
  CallerMayCancel = TRUE
  MaxTime = 5
  NoTransport = NoTransport
  None = None
SPECIFICATION Spec
CHECK_DEADLOCK FALSE
INVARIANT TypeOK
INVARIANT FallbackNotBeforeUpstreamTimeout
INVARIANT ReturnsByDeadline
PROPERTY RaceRefinement
PROPERTY RacerTerminates
