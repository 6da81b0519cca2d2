SPECIFICATION TwoLeadersSpec
CONSTANTS
  n1 = n1
  n2 = n2
  n3 = n3
  Node = {n1, n2, n3}
  Command = {v1}
  NoOp = NoOp
  Nobody = Nobody
  MaxEntriesPerAppend = 1
  Campaigns <- OldLeaderReturns
  MaxLogLen = 2
  MaxCrashes = 1
  MaxInFlight = 1
CHECK_DEADLOCK FALSE
INVARIANTS
  LogMatching
  CommittedDurable
  LeaderCompleteness
  StateMachineSafety
PROPERTY ImplementsLog
