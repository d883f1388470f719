\* Two nodes, no concurrent requests or removals, the default thresholds of national mode.
CONSTANTS
  ir = ir  de = de  j1 = j1  j2 = j2
  NoNode = NoNode
  Nodes <- TwoNodes
  Iran <- TheIran
  Jobs <- NoJobs
  NodeFaults <- NoFaults
  NationalEnabled = TRUE
  FailureThreshold = 3
  RecoveryThreshold = 2
  CounterCap = 3
SPECIFICATION HealthFairSpec
INVARIANTS ModeFollowsEvidence
PROPERTIES FlipsAreJustified GoesOffline ModeFollowsNodes
