SPECIFICATION Spec

CONSTANTS
  Requests = {a, b}
  Processes = {p, q}
  Keys = {}
  None = None
  MaxCost = 1
  Boot = "auto"
  PinChoices = {"L0"}
  Window = 1
  MaxAttempts = 2
  MaxFaults = 1
  MaxOutages = 0
  Directions <- MCDirections
  Cap <- MCCap
  Charges <- MCCharges

SYMMETRY MCSymmetry

INVARIANTS
  OvershootBounded

PROPERTIES
  ImplementsMeter
  DrainedBudgetHolds

CHECK_DEADLOCK FALSE
