\* Two coins of one round, a faulty node that is down.
SPECIFICATION FairSpec
CONSTANTS
  malformed = malformed
  N = 3
  Faulty = {2}
  Down = {2}
  Malformed = {malformed}
  f = 1
  MaxRound = 0
  MaxEpoch = 1
  MaxInjected = 2
  FaultySends <- Nothing
PROPERTY CoinComes
CHECK_DEADLOCK FALSE
