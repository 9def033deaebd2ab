SPECIFICATION FairSpec
CONSTANTS
  v0 = v0
  v1 = v1
  v2 = v2
  NoVersion = NoVersion
  Version <- MCVersion
  Baseline = v0
  N = 1
  VersionOf <- MCForward
  IsRollback <- MCAllForward
  Strategy = "rolling"
  CanarySteps <- MCNoSteps
  NeedsApproval = FALSE
  Automatic = TRUE
  MaxAborts = 0
  MaxCrashes = 1
  MaxPauses = 0
  MaxDrift = 0
  MaxPosts = 0
PROPERTY NeverWedged
CHECK_DEADLOCK FALSE
