SPECIFICATION FairSpec
CONSTANTS
  n1 = n1
  n2 = n2
  n3 = n3
  n4 = n4
  None = None
  Node = {n1, n2, n3, n4}
  Faulty = {n4}
  f = 1
  Victims = {n1}
  Inputs <- AnyInput
  MaxRound = 0
  Coins <- AllCoins
INVARIANTS TypeOK Validity NoOppositeValues
PROPERTIES Progress ImplementsAgreedBit
CHECK_DEADLOCK FALSE
ACTION_CONSTRAINT RaisesAtAux
