\* Two namespaces, labels and annotations in any order, every kind of trouble once.
SPECIFICATION FairSpec
CONSTANTS
  n1 = n1
  n2 = n2
  g1 = g1
  g2 = g2
  Partial = Partial
  NoNamespace = NoNamespace
  NoEntry = NoEntry
  Rebuild = Rebuild
  Namespaces <- TwoNamespaces
  Groups <- TwoGroups
  States <- AnyState
  Steps = 2
  MaxEdits = 2
  MaxDeletions = 1
  MaxCrashes = 1
  MaxFailures = 1
INVARIANTS
  TypeOK
  SettledMeansListed
PROPERTIES
  OnlyItsEntry
  Converges
CHECK_DEADLOCK FALSE
