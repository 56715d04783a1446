SPECIFICATION WorkerSpec
CONSTANTS
  n1 = n1
  n2 = n2
  c1 = c1
  c2 = c2
  w1 = w1
  w2 = w2
  w3 = w3
  Node = {n1, n2}
  Call = {c1, c2}
  Owner <- MCOwner
  Worker = {w1, w2, w3}
  WorkerOwner <- MCWorkerOwner
  UserTransaction <- MCUserTransaction
  RegisterRequest <- MCRegisterEachOther
  IncompleteAt = {}
  BootTime <- MCBootTime
  FirstTick = 2
  LastTick = 5
  MaxPending = 1
  Difficulty = 4
  MaxProof = 1
  LeadingZeros <- MCLeadingZeros
INVARIANTS
  ChainsAreSound
