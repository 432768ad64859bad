SPECIFICATION FairSpec
CONSTANTS
  KeyIds = {"k1", "k2"}
  Warmed = {"k1"}
  TTL = 4
  MinInterval = 2
  Timeout = 1
  MaxTime = 6
  LastArrival = 5
  Validities <- MCValidities
  RoleSets <- MCRoleSets
  MaxRevision = 3
  MaxRotations = 1
  Forever = 9
  WindowMs = 3
  Limit = 1
  MaxEntries = 2
  MaxRequests = 5
  Presented <- MCPresented
  Algorithms = {"RS256"}
  Issuer = "idp"
  Audiences = {"governance"}
  Skew = 0
  MaxAge = 5
  Subjects <- MCSubjects
  PoolSize = 1
  Comes <- MCComes
CHECK_DEADLOCK FALSE
CONSTRAINT MCQuiet
INVARIANTS
  RateLimited
  GrantedDuringRequest
PROPERTIES
  KeysCurrent
  NewKeysAccepted
  RefreshesSpaced
  RequestsAnswered
