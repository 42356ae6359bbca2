SPECIFICATION Spec
CONSTANTS
  Repo = {a, b}
  MaxKeys = 3
  MaxEntitlements = 2
  MaxCrashes = 0
  MaxRemovals = 1
  MaxTime = 1
  Period = {0, 1}
  CleanAttempts = 1
  None = None
  Refused = Refused
INVARIANT ObjectsFollowKeys
INVARIANT CertifiedWherePublished
PROPERTY ContentIsTracked
