SPECIFICATION FairSpec
CONSTANTS
  d1 = d1
  d2 = d2
  Drivers = {d1, d2}
  Plans <- ProductionPlans
  MaxAttempts = 2
  MaxSeq = 2
  MaxInFlight = 1
INVARIANTS ReplaySafe
PROPERTIES CheckpointNeverRegresses PassEnds
