SPECIFICATION MCSpec
CONSTANTS
  Course <- MCCourse
  Notifiers <- MCNotifiers
  Subscribed <- MCSubscribed
  Batch = 2
  NoTS = NoTS
  MaxSlackFaults = 1
  MaxRestarts = 1
  MaxHistory = 2
  ChanCap = 1
  MaxConnects = 2
INVARIANT IndInv
INVARIANT RowFollowsRun
INVARIANT DeliveredIsShown
INVARIANT ExtraMessagesExplained
INVARIANT TwiceOnlyInOverlap
INVARIANT LossIsExplained
PROPERTY BackwardsOnlyByRetry
PROPERTY AllDelivered
CHECK_DEADLOCK FALSE
