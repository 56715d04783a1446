SPECIFICATION Spec
CONSTANTS
  n1 = n1
  n2 = n2
  t1 = t1
  t2 = t2
  u1 = u1
  Node = {n1, n2}
  Thread = {t1, t2, u1}
  Home <- MCHome
  Requests <- MCRequests
  UserTransaction <- MCUserTransaction
  Registered <- MCRegistered
  BootTime <- MCBootTime
  FirstTick = 2
  LastTick = 4
  Difficulty = 4
  MaxProof = 1
  LeadingZeros <- MCLeadingZeros
INVARIANTS
  FSharpInvariant
  ChainsAreValid
  EachTransactionOnce
PROPERTIES
  WaitsUntilMined
  RegistrationsStay
