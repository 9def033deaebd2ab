CONSTANTS
  Grants <- MCGrants
  Identities <- MCIdentities
  Unset = Unset
  Observed <- MCObserved
  Manifest <- MCManifest
  NoVersion <- MCNoVersion
  NoNumber = NoNumber
  Envs <- MCEnvs
  Tokens <- MCTokens
  Requests <- MCRequests
  Bound <- MCBound
  Start <- MCStart
  Day <- MCDay
SPECIFICATION Spec
INVARIANT IndInv
INVARIANT VerdictIsEvidence
INVARIANT GatesHeld
INVARIANT RollbackIsSafe
INVARIANT OnlyTestedVersionsLive
INVARIANT BudgetHolds
CHECK_DEADLOCK FALSE
