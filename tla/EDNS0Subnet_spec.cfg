\* setClientSubnet against its specification over the same inputs.
CONSTANTS
  W4 = 2
  W6 = 3
  InputOptions <- MCInputOptions
  MaxRecords = 2
  MaxOptions = 2
SPECIFICATION Spec
INVARIANT SetAsSpecified
\* The helpers return: a finished pair of calls has no further step.
CHECK_DEADLOCK FALSE
