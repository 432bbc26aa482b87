SPECIFICATION MCSpec
CONSTANTS
  w1 = w1  w2 = w2  j1 = j1  j2 = j2  c1 = c1  c2 = c2  o1 = o1  o2 = o2
  ingest = ingest  analysis = analysis  cause1 = cause1  cause2 = cause2
  x1 = x1  x2 = x2
  None = None
  Workers = {w1,w2}
  Jobs = {j1,j2}
  Clients = {c1}
  Outputs = {o1}
  Stages = {ingest, analysis}
  Root = ingest
  Upstream <- ChainUpstream
  Causes = {cause1}
  RunKeys <- ChainKeys
  MaxAttempts = 2
  MaxCommands = 2
  MaxFlows = 2
  MaxDeaths = 1
  MentionIds = {1, 2, 3}
  Corpora <- MCCorpora
  MaxUserActions = 1
  MaxStageRuns = 3
  Splitters <- MCSplitters
  SplitEnts = {"e", "s"}
  SplitTargets <- MCTargets
  UuidRefs = {"e", "t1"}
  Candidates <- MCCandidates
  AlignmentEnds <- MCAlignmentEnds
  Claims = {"c"}
  NoTarget = NoTarget
  MaxSplits = 2
  Analyses <- MCAnalyses
  Canonicals <- MCCanonicals
  Labels <- MCLabels
  AliasNames <- MCAliasNames
  MaxReconRuns = 2
  MaxIdentitySteps = 2
SYMMETRY AllInterchangeable
CHECK_DEADLOCK FALSE
INVARIANTS LifecycleSafe CompletionHasEvidence OneCompletion ObservationsAttributeCommittedWork BatchesConverge SplitsComplete ReconciliationFaithful
PROPERTIES StageSpec IdentitiesStand
