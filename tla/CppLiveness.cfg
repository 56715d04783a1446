SPECIFICATION FairSpec
CONSTANTS
  n1 = n1
  n2 = n2
  t1 = t1
  t2 = t2
  w1 = w1
  w2 = w2
  Node = {n1, n2}
  Thread = {t1, w1, w2}
  Home <- MCHome12
  Crow = {n2}
  UserTransaction <- MCUserTransaction
  RegisterRequest <- MCRegisterOther
  BootTime <- MCBootTime
  FirstTick = 2
  LastTick <- MCSecondMines
  LastRestart = 3
  MaxPending <- MCNothingPosted
  Difficulty = 3
  MaxProof = 1
  LeadingZeros <- MCLeadingZeros
PROPERTIES
  OnlyStuckWait
