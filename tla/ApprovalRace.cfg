\* Two groups decide at the same time, nothing fails.
SPECIFICATION Spec
CONSTANTS
  n1 = n1
  n2 = n2
  g1 = g1
  g2 = g2
  ann = ann
  amy = amy
  bob = bob
  root = root
  Requests = {r1}
  Namespaces <- TwoNamespaces
  Approvers <- Team
  Admins <- NoAdmins
  Groups <- TwoGroups
  GroupsOf <- TeamGroups
  OwnerOf <- Owners
  MaxDecisions = 2
  MaxOverlaps = 1
  MaxEarly = 0
  MaxFailures = 0
INVARIANTS
  AllApprovedIsCreated
CHECK_DEADLOCK FALSE
