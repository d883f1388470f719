\* Two nodes, a user with two clients, every request and fault.
CONSTANTS
  n1 = n1  n2 = n2  c1 = c1  c2 = c2  u1 = u1
  Nodes <- TwoNodes
  Clients <- TwoClients
  Users <- OneUser
  Owner <- TwoOwner
  NodeLists <- AllNodes
  MaxBytes = 1
  UsageFaults <- Everything
SPECIFICATION UsageSpec
SYMMETRY Twins
CONSTRAINT UsageBound
INVARIANTS NeverOverbilled
PROPERTIES BilledOnce ResetHolds
