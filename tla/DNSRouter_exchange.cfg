\* Exchange and Lookup over every list of three rules of their kinds, every
\* outcome of each race, address and non-address queries, with and without
\* a default transport, router upstream timeout, shared cache and caller's
\* disableCache, and the malformed-question and pinned entries.
CONSTANTS
  NRules = 3
  RuleKinds <- MCRuleKinds
  Modes = {"exchange", "lookup"}
  ReverseMapping = TRUE
SPECIFICATION Spec
INVARIANT ExchangeRoutesAsSpecified
INVARIANT RaceOptionsAsSpecified
PROPERTY LoopTerminates
\* The call returns: a finished handler has no further step.
CHECK_DEADLOCK FALSE
