SPECIFICATION FairSpec
CONSTANTS
  MaxDeliveries = 2
  MaxHead = 2
  PassLimit = 2
  MaxCrashes = 1
  DesignPRs = {}
  FeaturePRs = {f1}
  DispatchMax = 2
  AuthMax = 2
  SilentLimit = 2
  TurnLimit = 3
  ConsecLimit = 2
  RoundLimit = 2
  ZeroLimit = 2
  Happenings = {"push", "review", "crowd", "comment"}
  Commenters = {"owner", "gateway"}
  TurnResults = {"done", "gateway_timeout"}
  Faults = {"verify", "capacity"}
  Starts <- AtFeatureOrPause
PROPERTY EverySettles
PROPERTY ReplyResumes
\* Deliveries are bounded, so the system stops when all are settled.
CHECK_DEADLOCK FALSE
