\* Two logins and a reload at any time.
SPECIFICATION Spec
CONSTANTS
  MaxLogins = 2
  MaxReloads = 1
INVARIANTS
  TypeOK
  CodeSentOnce
  ProviderKnown
  SignOutHolds
PROPERTIES
  LostSessionEndsAtLogin
CHECK_DEADLOCK FALSE
