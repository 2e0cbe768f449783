\* Four nodes, one of which a round may leave out.
CONSTANTS
  a = a
  b = b
  c = c
  n1 = n1
  n2 = n2
  n3 = n3
  n4 = n4
  Acct = {a, b, c}
  BlockSize = 2
  Node = {n1, n2, n3, n4}
  f = 1
  Request <- Client
  Txn <- ClientTxn
  Home <- ClientHome
  BatchSize = 1
  MaxRound = 3
  server_id = n1
SPECIFICATION ServiceSpec
ACTION_CONSTRAINT FewOrders
INVARIANTS TypeOK AgreedOnce Chained ReadsAPrefix ShownAccountsCanPay
PROPERTY NothingForgotten
CHECK_DEADLOCK FALSE
