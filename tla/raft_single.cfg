SPECIFICATION Spec
CONSTANTS
  n1 = n1
  n2 = n2
  n3 = n3
  Node = {n1}
  Command = {v1}
  NoOp = NoOp
  Nobody = Nobody
  MaxEntriesPerAppend = 2
  Campaigns <- AloneThreeTerms
  MaxLogLen = 4
  MaxCrashes = 3
  MaxInFlight = 0
CHECK_DEADLOCK FALSE
INVARIANTS
  CommittedDurable
  StateMachineSafety
