SPECIFICATION Spec
CONSTANTS
  Threads = {t1, t2}
  Diffs = {a, b}
  MaxHead = 3
  MaxRounds = 7
  FpLimit = 3
  ZeroLimit = 3
INVARIANT Inv
PROPERTY BarrenRoundsPause
CHECK_DEADLOCK FALSE
