SPECIFICATION PanicLeaderSpec
CONSTANTS
  n1 = n1
  n2 = n2
  n3 = n3
  Node = {n1, n2, n3}
  Command = {v1}
  NoOp = NoOp
  Nobody = Nobody
  MaxEntriesPerAppend = 2
  Campaigns <- NewLeaderInTwo
  MaxLogLen = 2
  MaxCrashes = 0
  MaxInFlight = 1
  MaxFailures = 1
CHECK_DEADLOCK FALSE
INVARIANT StateMachineSafety
