SPECIFICATION Spec
CHECK_DEADLOCK FALSE
CONSTANTS
  Size = {1}
  MaxEntriesPerAppend = 2
  MaxBody = 1
  MaxTerm = 1
  MaxCalls = 1
  Bounds <- TwoCommands
PROPERTY ProposedDelivered
