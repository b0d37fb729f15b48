SPECIFICATION Spec
CONSTANTS
  MaxActs = 2
  MaxTries = 2
  Writes <- MCWrites
  Starts <- EditingStarts
INVARIANT StampIsAFlip
\* Acts are bounded, so the system stops when all is settled.
CHECK_DEADLOCK FALSE
