\* Is the failover started on every real edge?
CONSTANTS
  ir = ir  de = de  j1 = j1  j2 = j2
  NoNode = NoNode
  Nodes <- OneNode
  Iran <- TheIran
  Jobs <- OneJob
  NodeFaults <- NoFaults
  NationalEnabled = TRUE
  FailureThreshold = 1
  RecoveryThreshold = 1
  CounterCap = 1
SPECIFICATION HealthSpec
PROPERTIES FailoverOnEveryEdge
