SPECIFICATION FairSpec

CONSTANTS
  Requests = {a}
  Processes = {p}
  Keys = {k}
  None = None
  MaxCost = 1
  Boot = "auto"
  PinChoices = {"L1"}
  Window = 1
  MaxAttempts = 2
  MaxFaults = 1
  MaxOutages = 1
  Directions <- MCDirections
  Cap <- MCCap
  Charges <- MCCharges

PROPERTIES
  CallsEnd
  JobsSettle

CHECK_DEADLOCK FALSE
