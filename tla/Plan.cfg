SPECIFICATION Spec
CONSTANTS
  Cells <- MCCells
  Given <- MCGiven
  Wanted <- MCWanted
  Reqs = {p, q}
  Levels = {"L1"}
  MaxSubmits = 2
  MaxRows = 4
  MaxReads = 1
INVARIANTS
  InkIsEarned
  LossNeedsOverlap
PROPERTIES
  ImplementsHistory
SYMMETRY MCSymmetry
CHECK_DEADLOCK FALSE
