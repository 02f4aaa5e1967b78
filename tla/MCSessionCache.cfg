SPECIFICATION Spec
CONSTANTS
  Handlers = {h1, h2}
  Actors = {a1, a2}
  Operations = {"role", "suspend", "activate", "remove", "join", "logout"}
  MaxChanges = 2
  Window = 2
  MaxStall = 1
SYMMETRY MCSymmetry
INVARIANTS
  TypeOK
  BoundedStaleness
