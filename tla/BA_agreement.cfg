SPECIFICATION Spec
CONSTANTS
  n1 = n1
  n2 = n2
  n3 = n3
  n4 = n4
  None = None
  Node = {n1, n2, n3, n4}
  Faulty = {n4}
  f = 1
  Victims = {}
  Inputs <- Mixed
  MaxRound = 1
  Coins <- OneThenAny
VIEW View
SYMMETRY SymmetryMixed
INVARIANTS Agreement DecisionIsProposed QuitLeavesDecision
CHECK_DEADLOCK FALSE
ACTION_CONSTRAINT InputsFirst
