\* A namespace deleted between validation and start.
SPECIFICATION FairSpec
CONSTANTS
  n1 = n1
  n2 = n2
  n3 = n3
  edit = edit
  admin = admin
  Requests = {r1}
  Namespaces <- MatchingNamespaces
  AllowedNamespaces <- MatchingNamespaces
  Roles <- TwoRoles
  AllowedRoles <- OneRole
  Specs <- OneSpec
  NoRequest = NoRequest
  MaxTime = 2
  MaxIncarnations = 1
  MaxFailures = 0
  MaxCrashes = 0
  MaxWithdrawals = 0
  MaxEvictions = 1
  PromptDelay = TRUE
PROPERTIES
  ExpiredIsRevoked
CHECK_DEADLOCK FALSE
