SPECIFICATION Spec
CONSTANTS
  Requests = {r1, r2}
  MaxSignals = 2
  DrainTicks = 1
  Org = org
  Users = {u1}
  OrgLimit = 1
  UserLimit = 1
  RateWindow = 1
  MaxRetries = 1
  MaxCalls = 1
  AddressBits = 3
  Addresses <- MCAddresses
  AlwaysBlockedCidrs <- MCAlwaysBlocked
  DefaultBlockedCidrs <- MCDefaultBlocked
  AllowedPrivateCidrs <- MCAllowed
SYMMETRY MCSymmetry
INVARIANTS
  TypeOK
  CountersRunOut
  OnlyPermittedAddresses
  ServedOnce
  InflightIsTrue
  
PROPERTIES
  CallsAreBounded
