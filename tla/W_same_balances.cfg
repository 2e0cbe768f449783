\* Two nodes that iterate one set of transactions.
CONSTANTS
  a = a
  b = b
  c = c
  n1 = n1
  n2 = n2
  n3 = n3
  n4 = n4
  Acct = {a, b, c}
  BlockSize = 100
  Node = {n1, n2}
  f = 0
  Request <- DoubleSpend
  Txn <- DoubleSpendTxn
  Home <- DoubleSpendHome
  BatchSize = 5
  MaxRound = 2
SPECIFICATION Spec
INVARIANTS SameBalances
CHECK_DEADLOCK FALSE
