SPECIFICATION Spec
CONSTANTS
  order = 5
  players = 4
  k = 3
  Places = {0}
  bytes = 5
  N = 4
  K = 2
  MaxLen = 4
  p1 = 7
  p2 = 11
  l = 3
  needed = 2
  Bytes = {b1, b2}
  None = None
  SHA_LENGTH = 2
  PAIRING_SERIALIZED_1 = 3
  CURVE_LENGTH = 2
  MaxNumber = 600
  Codes <- MCCodes
INVARIANTS ThresholdHolds DecodedAlike ProvesOwnLeaf ArrivesAsSent ShoupHolds
