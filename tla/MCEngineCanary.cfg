SPECIFICATION Spec
CONSTANTS
  v0 = v0
  v1 = v1
  v2 = v2
  NoVersion = NoVersion
  Version <- MCVersion
  Baseline = v0
  N = 2
  VersionOf <- MCThenBack
  IsRollback <- MCSecondIsRollback
  Strategy = "canary"
  CanarySteps <- MCSteps
  NeedsApproval = TRUE
  Automatic = TRUE
  MaxAborts = 0
  MaxCrashes = 1
  MaxPauses = 1
  MaxDrift = 0
  MaxPosts = 1
INVARIANT SafetyInv
INVARIANT EffectsAreJournalled
INVARIANT TruthfulOutcome
INVARIANT RollbackOnlyWhenMeant
CHECK_DEADLOCK FALSE
