SPECIFICATION Spec
CONSTANTS
  fac = fac
  mem = mem
  Respondents <- MCRespondents
  Facilitator = fac
  Nameless <- MCNameless
  NoOne = NoOne
  a = a
  b = b
  Tabs <- MCTabs
  MaxTries = 1
  Statuses = {"open", "closed"}
  MaxCounted = 2
SYMMETRY MCSymmetry
INVARIANTS
  RulesBeforeWords
  RateHolds
PROPERTIES
  StrandedForGood
CHECK_DEADLOCK FALSE
