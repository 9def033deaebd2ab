SPECIFICATION Spec
CONSTANTS
  k1 = k1
  c1 = c1
  c2 = c2
  Key <- MCKey
  Caller <- MCCaller
  Reach <- MCReach
  NoTime = NoTime
  MaxTx = 3
  MaxTime = 1
  MaxFaults = 2
  MaxCrashes = 2
SYMMETRY Callers
CHECK_DEADLOCK FALSE
INVARIANT IndInv
INVARIANT GroupsAreWhole
INVARIANT CleanAckSurvives
INVARIANT IndexIsTheDisk
INVARIANT SameAnswerPerKey
INVARIANT RefusalIsExplained
