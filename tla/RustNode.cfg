SPECIFICATION FairSpec
CONSTANTS
  n1 = n1
  n2 = n2
  n3 = n3
  Node = {n1, n2, n3}
  UserTransaction <- MCUserTransaction
  RegisterRequest <- MCRegisterThird
  BootTime <- MCBootTime3
  FirstTick = 3
  LastTick = 5
  MaxPending = 1
  Difficulty = 4
  MaxProof = 1
  LeadingZeros <- MCLeadingZeros
  ReadAs <- MCReadAs
INVARIANTS
  RustInvariant
PROPERTIES
  KeepsPromise
  ResolveReturns
  PoisonSpreads
CHECK_DEADLOCK FALSE
