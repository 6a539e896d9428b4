\* A name used again for a later window.
SPECIFICATION Spec
CONSTANTS
  n1 = n1
  n2 = n2
  n3 = n3
  edit = edit
  admin = admin
  Requests = {r1}
  Namespaces <- MatchingNamespaces
  AllowedNamespaces <- MatchingNamespaces
  Roles <- TwoRoles
  AllowedRoles <- OneRole
  Specs <- TwoWindows
  NoRequest = NoRequest
  MaxTime = 3
  MaxIncarnations = 2
  MaxFailures = 0
  MaxCrashes = 0
  MaxWithdrawals = 0
  MaxEvictions = 0
  PromptDelay = TRUE
INVARIANTS
  SucceededMeansBound
CHECK_DEADLOCK FALSE
