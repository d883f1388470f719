\* A node that is removed and registered again.
CONSTANTS
  n1 = n1  n2 = n2  c1 = c1  c2 = c2  u1 = u1
  Nodes <- TwoNodes
  Clients <- TwoClients
  Users <- OneUser
  Owner <- TwoOwner
  NodeLists <- AllNodes
  MaxBytes = 1
  UsageFaults <- Removals
SPECIFICATION UsageSpec
INVARIANTS ExactlyOnce
