SPECIFICATION Spec
CONSTANTS
  MaxDeliveries = 3
  MaxHead = 3
  PassLimit = 2
  MaxCrashes = 1
  DesignPRs = {d1}
  FeaturePRs = {}
  DispatchMax = 2
  AuthMax = 2
  SilentLimit = 2
  TurnLimit = 3
  ConsecLimit = 2
  RoundLimit = 2
  ZeroLimit = 2
  Happenings = {"push", "resync", "review"}
  Commenters = {}
  TurnResults = {"done", "role_busy", "gateway_timeout"}
  Faults = {"stalled"}
  Starts <- AtDesign
INVARIANT GivenOutOnce
PROPERTY LedgerSpec
\* Deliveries are bounded, so the system stops when all are settled.
CHECK_DEADLOCK FALSE
