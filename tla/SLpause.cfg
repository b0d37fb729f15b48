SPECIFICATION Spec
CONSTANTS
  MaxDeliveries = 3
  MaxHead = 2
  PassLimit = 2
  MaxCrashes = 1
  DesignPRs = {}
  FeaturePRs = {}
  DispatchMax = 2
  AuthMax = 2
  SilentLimit = 2
  TurnLimit = 2
  ConsecLimit = 1
  RoundLimit = 2
  ZeroLimit = 2
  Happenings = {"comment", "reopen"}
  Commenters = {"owner", "developer"}
  TurnResults = {"done", "failed", "needs_human"}
  Faults = {"capacity", "error"}
  Starts <- AtPauseOrWork
INVARIANT TypeOK
INVARIANT TurnsAreAskedFor
INVARIANT PauseRemembers
INVARIANT BudgetHolds
INVARIANT IssuesAreNotLost
PROPERTY OwnerEndsPause
\* Deliveries are bounded, so the system stops when all are settled.
CHECK_DEADLOCK FALSE
