SPECIFICATION Spec
CHECK_DEADLOCK FALSE
CONSTANTS
  Size = {1}
  MaxEntriesPerAppend = 2
  MaxBody = 2
  MaxTerm = 3
  MaxCalls = 2
  Bounds <- Behaviours
INVARIANTS TypeOK DeliveredInOrder NoMissedWakeup KickNotLost
PROPERTIES StoppedForGood StopEnds ProposedDelivered
