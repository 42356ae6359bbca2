SPECIFICATION FairSpec
CONSTANTS
  Repo = {a, b}
  MaxKeys = 2
  MaxEntitlements = 2
  MaxCrashes = 1
  MaxRemovals = 1
  MaxTime = 0
  Period = {0}
  CleanAttempts = 1
  None = None
  Refused = Refused
 
PROPERTY PendingIsCertified
PROPERTY RollsFinish
