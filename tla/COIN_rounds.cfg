\* Two rounds of one coin each, a faulty node that sends shares.
SPECIFICATION FairSpec
CONSTANTS
  malformed = malformed
  N = 3
  Faulty = {2}
  Down = {}
  Malformed = {malformed}
  f = 1
  MaxRound = 1
  MaxEpoch = 0
  MaxInjected = 2
  FaultySends <- GoodAndBad
INVARIANTS TypeOK NeverTooLate CoinIsCommon OnceEach
PROPERTIES CoinComes ImplementsSharedCoin
ACTION_CONSTRAINT EndsAlone
CHECK_DEADLOCK FALSE
