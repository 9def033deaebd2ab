CONSTANTS
  Grants <- MCGrants
  Identities <- MCIdentities
  Unset = Unset
  Observed <- MCObserved
  Manifest <- MCManifest
  NoVersion <- MCNoVersion
  NoNumber = NoNumber
  Envs <- MCScheduled
  Tokens <- MCTokens
  Requests <- MCRequests
  Bound <- MCBound
  Start <- MCStart
  Day <- MCDay
SPECIFICATION Spec
INVARIANT EveryGateIsAsked
CHECK_DEADLOCK FALSE
