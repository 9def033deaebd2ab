SPECIFICATION Spec
CONSTANTS
  d1 = d1
  d2 = d2
  exec1 = exec1
  abort1 = abort1
  exec2 = exec2
  NoHolder = NoHolder
  Holder <- MCHolder
  Process <- MCProcess
  HolderOf <- MCHolderOf
  TTL = 2
  MaxTime = 5
  MaxFence = 4
INVARIANT TypeOK
INVARIANT TokensAreUnique
PROPERTY NewestGrantWrites
PROPERTY WritesInFenceOrder
PROPERTY NoTakeover
PROPERTY NoResurrection
CHECK_DEADLOCK FALSE
