SPECIFICATION Spec
CONSTANTS
  n1 = n1
  n2 = n2
  n3 = n3
  Node = {n1, n2, n3}
  Command = {v1}
  NoOp = NoOp
  Nobody = Nobody
  MaxEntriesPerAppend = 2
  Campaigns <- EveryoneTwice
  MaxLogLen = 0
  MaxCrashes = 1
  MaxInFlight = 0
CHECK_DEADLOCK FALSE
SYMMETRY Symmetry
INVARIANTS
  TypeOK
  ElectionSafety
  CountsTrue
PROPERTY VoteIsKept
