SPECIFICATION Spec
CONSTANTS
  People = {p1, p2}
  Operator = p1
  Requests = {r1, r2}
  Nobody = Nobody
  MaxInvitations = 2
SYMMETRY MCSymmetry
INVARIANTS
  TypeOK
  AdministratorRemains
  RefusalIsTrue
  InvitationUsedOnce
  BootstrapOnce
  NoLockCycle
PROPERTIES
  ImplementsOrganization
