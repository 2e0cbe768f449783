SPECIFICATION FairSpec
CONSTANTS
  n1 = n1
  n2 = n2
  n3 = n3
  n4 = n4
  a = a
  b = b
  None = None
  Node = {n1, n2, n3, n4}
  Faulty = {n4}
  f = 1
  leader = n4
  Root = {a}
  Codeword = {a}
  FaultyMsgs <- Omission
PROPERTY Totality
CHECK_DEADLOCK FALSE
