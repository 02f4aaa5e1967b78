SPECIFICATION Spec
CONSTANTS
  MaxReservations = 2
  MaxPurchases = 1
  Tokens <- MCTokens
  PurchaseSizes <- MCPurchaseSizes
  Events = {e1, e2}
  Tx = {t1, t2}
  NoTx = NoTx
SYMMETRY MCSymmetry
INVARIANTS
  TypeOK
  NoLockCycle
  ClosingNeverThrows
  OutcomeIsTrue
PROPERTIES
  ImplementsCreditAccount
CHECK_DEADLOCK FALSE
