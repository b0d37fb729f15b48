\* One project at a time, so that the second has to wait for the first.
SPECIFICATION FairSpec
CONSTANTS
  Projects = {p1, p2}
  Nobody = Nobody
  Cap = 1
  MaxMade = 2
  MaxArrivals = 2
  MaxFaults = 1
INVARIANT TypeOK
INVARIANT HotWithinCap
INVARIANT PackedAlone
PROPERTY LiveTurnKept
PROPERTY LeftoversGo
PROPERTY Served
