SPECIFICATION FairSpec
CONSTANTS
  MaxActs = 3
  MaxTries = 2
  Writes <- MCWrites
  Starts <- AllStarts
INVARIANT TypeOK
INVARIANT NeverForged
INVARIANT ClosedIsSwept
INVARIANT TornDownByOwner
PROPERTY OnlyVouchedRaises
PROPERTY EverySettles
PROPERTY CloseIsNoticed
\* Acts are bounded, so the system stops when all is settled.
CHECK_DEADLOCK FALSE
