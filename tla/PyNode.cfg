SPECIFICATION FairSpec
CONSTANTS
  n1 = n1
  n2 = n2
  n3 = n3
  Node = {n1, n2, n3}
  UserTransaction <- MCUserTransaction
  RegisterRequest <- MCRegister
  BootTime <- MCBootTime
  FirstTick = 3
  LastTick = 5
  MaxPending = 1
  Difficulty = 6
  MaxProof = 1
  LeadingZeros <- MCLeadingZeros
INVARIANTS
  PyInvariant
PROPERTIES
  KeepsPromise
  OnlyStuckWait
