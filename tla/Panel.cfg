\* The four parts of the panel, each on its own instance (see MCPanel).
CONSTANTS
  u1 = u1  basic = basic  q1 = q1  q2 = q2
  Users = {u1}
  NoUser = NoUser
  Plans = {basic}
  NoPlan = NoPlan
  Plan <- PlanMC
  Terms <- TermsMC
  Patches <- PatchesMC
  Requests <- RequestsMC
  Free = Free
  MaxSubs = 2
  MaxTime = 2
  n1 = n1  p1 = p1  k1 = k1
  Nodes = {n1}
  NoNode = NoNode
  MaxProfiles = 2
  MaxPort = 3
  Profiles = {k1}
  Passes = {p1}
  Calls <- RequestsMC
  InboundFaults <- FaultsMC
  Asked <- AskedMC
  Advised <- AdvisedMC
  Editors <- RequestsMC
  Limit = 2
  MaxDirect = 2
  Givens <- GivensMC
SPECIFICATION PanelSpec
CONSTRAINT PanelBound
SYMMETRY Symmetry
CHECK_DEADLOCK FALSE
INVARIANTS PageMatchesToken ListedIsInForce ClientsResolve StoredCoherent PageLinksFit PanelLinksAgree
PROPERTIES PlanCapacity OthersKept
