SPECIFICATION FairReadSpec
CONSTANTS
  d1 = d1
  r1 = r1
  r2 = r2
  Drivers = {d1}
  Plans <- OperatorPlans
  MaxAttempts = 2
  MaxSeq = 2
  MaxInFlight = 1
  Readers = {r1}
  MaxWaiters = 1
INVARIANTS GuardSafe AnswersReflectToken
PROPERTIES AuthorityPauses ReadEnds
