SPECIFICATION Spec
CONSTANTS
  MaxReservations = 2
  MaxPurchases = 2
  Tokens <- MCTokens
  PurchaseSizes <- MCPurchaseSizes
  Events = {e1, e2}
INVARIANTS
  TypeOK
  LedgerReconciles
  ReservedIsHeld
  RefundCovered
  CreditsConserved
  ClosedOnce
  CreditedOnce
CHECK_DEADLOCK FALSE
