SPECIFICATION Spec
CONSTANTS
  a = a
  text = text
  year = year
  quarter = quarter
  Tabs <- MCTabs
  Plain <- MCPlain
  Metrics <- MCMetrics
  NoCell = NoCell
  Gone = Gone
  MaxActs = 2
  MaxWire = 2
INVARIANTS
  ContentStaysInItsCell
  TimerIsCurrent
  ShownIsSent
CHECK_DEADLOCK FALSE
