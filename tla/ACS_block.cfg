SPECIFICATION FairSpec
CONSTANTS
  n1 = n1
  n2 = n2
  n3 = n3
  n4 = n4
  None = None
  Node = {n1, n2, n3, n4}
  Faulty = {n4}
  f = 1
  K = 2
INVARIANTS TypeOK AssertionsHold SecretUntilAgreed
CHECK_DEADLOCK FALSE
ACTION_CONSTRAINT TwoFirst
PROPERTIES Termination ImplementsAgreedSet
