SPECIFICATION Spec
CONSTANTS
  MaxDeliveries = 3
  MaxHead = 2
  PassLimit = 2
  MaxCrashes = 0
  DesignPRs = {d1, d2}
  FeaturePRs = {f1}
  DispatchMax = 2
  AuthMax = 2
  SilentLimit = 2
  TurnLimit = 3
  ConsecLimit = 2
  RoundLimit = 2
  ZeroLimit = 2
  Happenings = {"open", "push", "review", "merge", "part", "sibling"}
  Commenters = {"owner"}
  TurnResults = {"done", "failed"}
  Faults = {"verify", "get"}
  Starts <- AtLanding
INVARIANT LandedMeansMerged
PROPERTY ApprovalStood
\* Deliveries are bounded, so the system stops when all are settled.
CHECK_DEADLOCK FALSE
