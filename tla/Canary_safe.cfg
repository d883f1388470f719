\* Three routes, two nodes, two ticks, every fault, and configurations that arrive as objects.
CONSTANTS
  a = a  b = b  c = c  n1 = n1  n2 = n2  k1 = k1  k2 = k2
  Routes <- ThreeRoutes
  NoRoute = NoRoute
  Nodes = {n1, n2}
  NodeKeys <- NodeKeysMC
  FirstActive <- a
  Decoded <- ThreeRoutes
  Ticks <- TwoTicks
  Free = Free
  MaxScore = 2
  MinImprovement = 1
  RequiredWins = 2
  MaxEditions <- EditB
  CanaryFaults <- AllFaults
  MaxAstray = 0
SYMMETRY Symmetry
SPECIFICATION Spec
CHECK_DEADLOCK FALSE
INVARIANTS OneActive NoCandidateLeft
PROPERTIES ScoresRise
