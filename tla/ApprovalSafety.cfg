\* Two groups and an admin; two calls that may overlap, with a failure.
SPECIFICATION Spec
CONSTANTS
  n1 = n1
  n2 = n2
  g1 = g1
  g2 = g2
  ann = ann
  amy = amy
  bob = bob
  root = root
  Requests = {r1}
  Namespaces <- TwoNamespaces
  Approvers <- Staff
  Admins <- TheAdmins
  Groups <- TwoGroups
  GroupsOf <- StaffGroups
  OwnerOf <- Owners
  MaxDecisions = 2
  MaxOverlaps = 1
  MaxEarly = 1
  MaxFailures = 1
INVARIANTS
  TypeOK
  NoGrantWithoutConsent
  SerialApprovalIsCreated
PROPERTIES
  CreatedOnlyWhileApproved
CHECK_DEADLOCK FALSE
