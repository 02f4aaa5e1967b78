SPECIFICATION Spec
CONSTANTS
  Handlers = {h1, h2}
  Actors = {a1, a2}
  Operations = {"suspend", "remove", "logout"}
  MaxChanges = 3
  Window = 2
  MaxStall = 1
SYMMETRY MCSymmetry
INVARIANTS
  RevocationHoldsForAWindow
