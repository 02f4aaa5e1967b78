SPECIFICATION Spec
CONSTANTS
  Kinds <- AllKinds
  Ids <- MCIds
  Writers = {w1, w2}
  Fetches = {s1, s2}
  Limit = 1
  MicrosPerMilli = 2
  MaxTime = 1
  MaxShown = 3
SYMMETRY MCSymmetry
INVARIANTS
  TypeOK
  NothingSkipped
  NoRepeats
CHECK_DEADLOCK FALSE
