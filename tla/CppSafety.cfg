SPECIFICATION Spec
CONSTANTS
  n1 = n1
  n2 = n2
  t1 = t1
  t2 = t2
  w1 = w1
  w2 = w2
  Node = {n1, n2}
  Thread = {t1, t2, w1}
  Home <- MCHome21
  Crow = {n2}
  UserTransaction <- MCUserTransaction
  RegisterRequest <- MCRegisterEachOther
  BootTime <- MCBootTime
  FirstTick = 2
  LastTick <- MCBothMine
  LastRestart = 4
  MaxPending <- MCPostedToFirst
  Difficulty = 3
  MaxProof = 1
  LeadingZeros <- MCLeadingZeros
INVARIANTS
  RacingInvariant
  QuietNodesAreValid
PROPERTIES
  QuietKeepsTransactions
SYMMETRY MCSymmetry
