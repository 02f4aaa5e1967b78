SPECIFICATION Spec
CONSTANTS
  MaxRequests = 2
  Keys = {k1, k2}
  Tokens <- MCTokens
  PurchaseSizes <- MCTwoCredits
  ReservationTTL = 1
  KeyTTL = 3
  MaxStall = 1
  MaxSweepStall = 1
SYMMETRY MCSymmetry
INVARIANTS
  TypeOK
  OneCallPerKey
  AnswerIsTrue
  ChargeIsReplayed
PROPERTIES
  StoredAnswerIsFinal
CHECK_DEADLOCK FALSE
