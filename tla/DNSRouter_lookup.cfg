\* Lookup over every list of two rules and every outcome of each race.
CONSTANTS
  NRules = 2
  RuleKinds <- MCRuleKinds
  Modes = {"lookup"}
  ReverseMapping = TRUE
SPECIFICATION Spec
INVARIANT RoutesAsSpecified
\* The call returns: a finished handler has no further step.
CHECK_DEADLOCK FALSE
