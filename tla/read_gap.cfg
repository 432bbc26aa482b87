SPECIFICATION ReadSpec
CONSTANTS
  d1 = d1
  r1 = r1
  r2 = r2
  Drivers = {d1}
  Plans <- ProductionPlans
  MaxAttempts = 2
  MaxSeq = 2
  MaxInFlight = 2
  Readers = {r1}
  MaxWaiters = 1
INVARIANTS AnswersReflectToken
