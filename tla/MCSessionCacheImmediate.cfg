SPECIFICATION Spec
CONSTANTS
  Handlers = {h1}
  Actors = {a1}
  Operations = {"join", "suspend"}
  MaxChanges = 2
  Window = 2
  MaxStall = 0
SYMMETRY MCSymmetry
INVARIANTS
  RevocationIsImmediate
