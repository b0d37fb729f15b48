SPECIFICATION FairSpec
CONSTANTS
  MaxDeliveries = 3
  MaxTurns = 2
  MaxAttempts = 2
  QueueLimit = 2
  BatchLimit = 1
  Scenes <- AllScenes
INVARIANT TypeOK
INVARIANT ResumesCounted
INVARIANT NoWakeupLost
INVARIANT TripStopsIntake
PROPERTY CallKeepsItsTurn
PROPERTY EveryTurnCloses
PROPERTY TripIsSwept
PROPERTY QueueEmpties
