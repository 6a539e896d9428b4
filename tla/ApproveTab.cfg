\* Two confirmed decisions, a refresh and the end of the session, in every order.
SPECIFICATION Spec
CONSTANTS
  r1 = r1
  r2 = r2
  c1 = c1
  Requests <- MCRequests
  Columns <- MCColumns
  Hits <- MCHits
  MaxPosts = 2
  MaxRefreshes = 1
  MaxExpiries = 1
INVARIANTS
  TypeOK
  DecidedAsConfirmed
  LoaderMeansCall
PROPERTIES
  ReportedIsDecided
CHECK_DEADLOCK FALSE
