SPECIFICATION FairSpec
CONSTANTS
  MaxReservations = 1
  MaxPurchases = 1
  Tokens <- MCOneToken
  PurchaseSizes <- MCPurchaseSizes
  Events = {e1}
  Tx = {t1, t2}
  NoTx = NoTx
PROPERTIES
  EveryTransactionEnds
CHECK_DEADLOCK FALSE
