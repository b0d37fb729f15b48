SPECIFICATION FairSpec
CONSTANTS
  MaxDeliveries = 2
  MaxHead = 2
  PassLimit = 2
  MaxCrashes = 1
  DesignPRs = {d1}
  FeaturePRs = {}
  DispatchMax = 2
  AuthMax = 2
  SilentLimit = 2
  TurnLimit = 3
  ConsecLimit = 2
  RoundLimit = 2
  ZeroLimit = 2
  Happenings = {"issue", "open"}
  Commenters = {"owner"}
  TurnResults = {"done"}
  Faults = {}
  Starts <- AtIntake
PROPERTY IntakeIsLeft
\* Deliveries are bounded, so the system stops when all are settled.
CHECK_DEADLOCK FALSE
