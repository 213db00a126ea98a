\* Every prefix of widths 2 and 3 stamped into every section of up to two
\* records, then read back.
CONSTANTS
  W4 = 2
  W6 = 3
  InputOptions <- MCInputOptions
  MaxRecords = 2
  MaxOptions = 2
SPECIFICATION Spec
INVARIANT RoundTrip
\* The helpers return: a finished pair of calls has no further step.
CHECK_DEADLOCK FALSE
