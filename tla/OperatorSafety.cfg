\* One name created twice: stale cache, crash, lost replies, withdrawal, deleted namespace.
SPECIFICATION Spec
CONSTANTS
  n1 = n1
  n2 = n2
  n3 = n3
  edit = edit
  admin = admin
  Requests = {r1}
  Namespaces <- AllNamespaces
  AllowedNamespaces <- MatchingNamespaces
  Roles <- TwoRoles
  AllowedRoles <- OneRole
  Specs <- MCSpecs
  NoRequest = NoRequest
  MaxTime = 2
  MaxIncarnations = 2
  MaxFailures = 1
  MaxCrashes = 1
  MaxWithdrawals = 1
  MaxEvictions = 1
  PromptDelay = FALSE
INVARIANTS
  TypeOK
  NoAccessBeforeStart
  OnlyVettedAccess
  BoundUnlessPreceded
PROPERTIES
  StatusMovesForward
  ReportsAreTrue
  KeepsPromise
SYMMETRY NamespaceSymmetry
CHECK_DEADLOCK FALSE
