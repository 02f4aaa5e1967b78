SPECIFICATION FairSpec
CONSTANTS
  MaxRequests = 2
  Keys = {k1}
  Tokens <- MCOneToken
  PurchaseSizes <- MCOneCredit
  ReservationTTL = 1
  KeyTTL = 2
  MaxStall = 3
  MaxSweepStall = 3
PROPERTIES
  HoldsEnd
  KeysEnd
CHECK_DEADLOCK FALSE
