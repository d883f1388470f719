\* One node, two concurrent requests, removals and crashes of the master.
CONSTANTS
  ir = ir  de = de  j1 = j1  j2 = j2
  NoNode = NoNode
  Nodes <- OneNode
  Iran <- TheIran
  Jobs <- TwoJobs
  NodeFaults <- AllFaults
  NationalEnabled = TRUE
  FailureThreshold = 1
  RecoveryThreshold = 1
  CounterCap = 1
SPECIFICATION HealthSpec
SYMMETRY JobSymmetry
INVARIANTS HealthTypeOK
PROPERTIES OneFailoverPerOutage DrainHolds
