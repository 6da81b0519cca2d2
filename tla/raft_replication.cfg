SPECIFICATION ReplicationSpec
CONSTANTS
  n1 = n1
  n2 = n2
  n3 = n3
  Node = {n1, n2, n3}
  Command = {v1}
  NoOp = NoOp
  Nobody = Nobody
  MaxEntriesPerAppend = 2
  Campaigns <- NewLeaderOrReturn
  MaxLogLen = 2
  MaxCrashes = 0
  MaxInFlight = 2
CHECK_DEADLOCK FALSE
INVARIANTS
  LeaderIDElected
  MatchIndexTrue
  AcknowledgedOnDisk
  NextIndexInLog
PROPERTIES CommittedPrefixKept ProgressKept
