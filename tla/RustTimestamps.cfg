SPECIFICATION Spec
CONSTANTS
  n1 = n1
  n2 = n2
  n3 = n3
  Node = {n1, n2}
  UserTransaction <- MCUserTransaction
  RegisterRequest <- MCRegisterEachOther
  BootTime <- MCBootTime2
  FirstTick = 3
  LastTick = 5
  MaxPending = 1
  Difficulty = 4
  MaxProof = 1
  LeadingZeros <- MCLeadingZeros
  ReadAs <- MCReadAs
PROPERTIES
  LongestIsTaken
CHECK_DEADLOCK FALSE
