SPECIFICATION Spec
CONSTANTS
  MaxDeliveries = 3
  MaxHead = 2
  PassLimit = 2
  MaxCrashes = 0
  DesignPRs = {d1}
  FeaturePRs = {}
  DispatchMax = 2
  AuthMax = 2
  SilentLimit = 2
  TurnLimit = 3
  ConsecLimit = 2
  RoundLimit = 2
  ZeroLimit = 2
  Happenings = {"push"}
  Commenters = {}
  TurnResults = {"done", "quota_exhausted"}
  Faults = {}
  Starts <- AtDesign
INVARIANT CuesReachAnAgent
\* Deliveries are bounded, so the system stops when all are settled.
CHECK_DEADLOCK FALSE
