SPECIFICATION LifecycleSpec
CONSTANTS
  w1 = w1  w2 = w2  j1 = j1  j2 = j2  c1 = c1  c2 = c2  o1 = o1  o2 = o2
  ingest = ingest  analysis = analysis  cause1 = cause1  cause2 = cause2
  None = None
  Workers = {w1}
  Jobs = {j1}
  Clients = {c1}
  Outputs = {o1}
  Stages = {ingest, analysis}
  Root = ingest
  Upstream <- ChainUpstream
  Causes = {cause1}
  RunKeys <- ChainKeys
  MaxAttempts = 1
  MaxCommands = 1
  MaxFlows = 1
  MaxDeaths = 0
CHECK_DEADLOCK FALSE
INVARIANTS FailureReported
