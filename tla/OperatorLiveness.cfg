\* What is eventually done when delays are computed promptly and no namespace is deleted.
SPECIFICATION FairSpec
CONSTANTS
  n1 = n1
  n2 = n2
  n3 = n3
  edit = edit
  admin = admin
  Requests = {r1}
  Namespaces <- MatchingNamespaces
  AllowedNamespaces <- MatchingNamespaces
  Roles <- TwoRoles
  AllowedRoles <- OneRole
  Specs <- LiveSpecs
  NoRequest = NoRequest
  MaxTime = 3
  MaxIncarnations = 1
  MaxFailures = 1
  MaxCrashes = 1
  MaxWithdrawals = 1
  MaxEvictions = 0
  PromptDelay = TRUE
PROPERTIES
  ExpiredIsRevoked
  EveryRequestIsSettled
  PendingIsGranted
CHECK_DEADLOCK FALSE
