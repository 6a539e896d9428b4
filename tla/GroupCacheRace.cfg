\* One namespace, nothing fails.
SPECIFICATION Spec
CONSTANTS
  n1 = n1
  n2 = n2
  g1 = g1
  g2 = g2
  Partial = Partial
  NoNamespace = NoNamespace
  NoEntry = NoEntry
  Rebuild = Rebuild
  Namespaces <- TwoNamespaces
  Groups <- TwoGroups
  States <- AdoptedStates
  Steps = 4
  MaxEdits = 2
  MaxDeletions = 0
  MaxCrashes = 0
  MaxFailures = 0
INVARIANTS
  ChangesAreReflected
CHECK_DEADLOCK FALSE
