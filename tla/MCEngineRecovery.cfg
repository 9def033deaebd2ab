SPECIFICATION Spec
CONSTANTS
  v0 = v0
  v1 = v1
  v2 = v2
  NoVersion = NoVersion
  Version <- MCVersion
  Baseline = v0
  N = 2
  VersionOf <- MCThenBack
  IsRollback <- MCSecondIsRollback
  Strategy = "blue-green"
  CanarySteps <- MCNoSteps
  NeedsApproval = TRUE
  Automatic = TRUE
  MaxAborts = 0
  MaxCrashes = 2
  MaxPauses = 0
  MaxDrift = 1
  MaxPosts = 0
INVARIANT LeaseReturned
PROPERTY ImplementsLifecycle
CHECK_DEADLOCK FALSE
