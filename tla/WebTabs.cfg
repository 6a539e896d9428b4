\* Two submissions, an upload, a search on its own and one on demand, a cleaning.
SPECIFICATION Spec
CONSTANTS
  cluster = cluster
  users = users
  o1 = o1
  o2 = o2
  good = good
  bad = bad
  None = None
  Choices <- MCChoices
  Options <- MCOptions
  Offered <- MCOffered
  TagFields <- MCTagFields
  Tags <- MCTags
  ValidTags <- MCValidTags
  Files <- MCFiles
  MaxPosts = 2
  MaxUploads = 1
  MaxFetches = 1
  MaxCleanups = 1
INVARIANTS
  TypeOK
  TagsMirrored
  OnlyOfferedIsSelected
  LoaderMeansCall
PROPERTIES
  SentIsComplete
  OnlySubmissionsSearch
CHECK_DEADLOCK FALSE
