SPECIFICATION FairSpec
CONSTANTS
  c1 = c1
  c2 = c2
  Conn = {c1, c2}
  NoConn = NoConn
  tick = 2
  MaxSends <- MCMaxSends
INVARIANTS
  CrowInvariant
  DeletedIsForgotten
  KeysFindTheirDeadlines
PROPERTIES
  OnlyBrokenLeak
  NotClosedEarly
  ConnectionsEnd
