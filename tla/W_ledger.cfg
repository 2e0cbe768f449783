\* One node whose payments all fit into one file.
CONSTANTS
  a = a
  b = b
  c = c
  n1 = n1
  n2 = n2
  n3 = n3
  n4 = n4
  Acct = {a, b, c}
  BlockSize = 100
  Node = {n1}
  f = 0
  Request <- Payments
  Txn <- PaymentsTxn
  Home <- PaymentsHome
  BatchSize = 3
  MaxRound = 4
SPECIFICATION Spec
INVARIANTS NoOverdraft PartiesRegistered
CHECK_DEADLOCK FALSE
