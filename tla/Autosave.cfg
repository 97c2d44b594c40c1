SPECIFICATION FairSpec
CONSTANTS
  v1 = v1
  v2 = v2
  Values <- MCValues
  Empty = Empty
  Nowhere = 0
  MaxVisits = 2
  MaxEdits = 2
  MaxFaults = 2
  MaxStrays = 1
INVARIANTS
  UnsavedIsScheduled
  SavedWasStored
PROPERTIES
  LockIsTerminal
  UnsavedIsSettled
CHECK_DEADLOCK FALSE
