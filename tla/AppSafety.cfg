SPECIFICATION FairSpec
CONSTANTS
  n1 = n1
  n2 = n2
  n3 = n3
  c1 = c1
  c2 = c2
  Node = {n1, n2, n3}
  Call = {c1, c2}
  Owner <- MCOwner2
  UserTransaction <- MCUserTransaction
  RegisterRequest <- MCRegisterThird
  IncompleteAt = {}
  BootTime <- MCBootTime3
  FirstTick = 3
  LastTick = 6
  MaxPending = 1
  Difficulty = 4
  MaxProof = 1
  LeadingZeros <- MCLeadingZeros
INVARIANTS
  LoopInvariant
  ChainsAreSound
  CandidatesAreSound
  SharedBlockSharedPast
  EachTransactionOnce
PROPERTIES
  PendingUntilMined
  ResolveKeepsLongestSeen
  ResolveReturns
