SPECIFICATION FairSpec
CONSTANTS
  RoleOrder <- BothRoles
  Correlated = {"developer"}
  Scripts <- GatewayCalls
  MaxCalls = 4
  MaxSessions = 8
  MaxClis = 11
  MaxFaults = 1
  MaxAbandoned = 1
INVARIANT TypeOK
INVARIANT NothingForgotten
INVARIANT TeardownTells
PROPERTY ServesTurns
PROPERTY EveryCallEnds
\* Calls are bounded, so the system stops when all are answered.
CHECK_DEADLOCK FALSE
