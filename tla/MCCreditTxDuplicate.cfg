SPECIFICATION Spec
CONSTANTS
  MaxReservations = 1
  MaxPurchases = 1
  Tokens <- MCOneToken
  PurchaseSizes <- MCPurchaseSizes
  Events = {e1, e2}
  Tx = {t1, t2}
  NoTx = NoTx
INVARIANTS
  DuplicateIsNotAnError
CHECK_DEADLOCK FALSE
